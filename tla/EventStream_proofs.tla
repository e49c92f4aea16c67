------------------------- MODULE EventStream_proofs -------------------------
(***************************************************************************)
(* The inductive invariant of EventStream, for any number of runs, events, *)
(* slots and restarts and any page size, and what a client can rely on.    *)
(***************************************************************************)
EXTENDS EventStream_inv, RunManager_proofs

USE DEF Starting, Reaping, Live, Terminal, Alive

\* A step of the stream's specification is a step of the runs or leaves them.
LEMMA RunsStep ==
  ASSUME [StreamNext]_svars
  PROVE  [Next]_mvars
  BY DEF StreamNext, RunStep, Next, Connect, StreamStep, ReadPage, SendPage, ReadStatus, Decide,
         Disconnect, svars

\* Only a runner that is alive appends to its log.
LEMMA Appends ==
  ASSUME TypeOK, [Next]_mvars
  PROVE  \/ log' = log
         \/ \E r \in Runs : Alive(r) /\ log' = [log EXCEPT ![r] = @ + 1]
<1>1. ASSUME NEW r \in Runs, StartStep(r) \/ ReapStep(r) \/ StopStep(r) PROVE log' = log
  BY <1>1 DEF StartStep, Admit, Create, Spawn, Enlist, StartReaper, ReapStep, Wait, Check,
              OpenStore, ReadMeta, WriteError, RenameError, Pop, StopStep, StopRequest, Stop,
              Dies, Abandoned, PutMeta, WriteTmp, Rename, Reconcile, store
<1>2. ASSUME NEW r \in Runs, RunnerStep(r)
      PROVE  log' = log \/ (log' = [log EXCEPT ![r] = @ + 1] /\ Alive(r))
  <2>1. CASE RunnerEvent(r)
    BY <2>1 DEF RunnerEvent, BeginLine, EndLine, InsertRow
  <2>2. CASE Dies(r)
    BY <2>2, DiesEffect
  <2>3. CASE ~RunnerEvent(r) /\ ~Dies(r)
    BY <1>2, <2>3 DEF RunnerStep, RunnerBegin, RunnerRunning, RunnerFinalize, RunnerFinalized,
                      RunnerExits, RunnerDies, SpecimenEnds, WriteTmp, Rename, Close, store
  <2> QED
    BY <2>1, <2>2, <2>3
<1>3. CASE Restart \/ UNCHANGED mvars
  BY <1>3 DEF Restart, mvars, store
<1> QED
  BY <1>1, <1>2, <1>3, Steps

LEMMA LogStep ==
  ASSUME TypeOK, [Next]_mvars, NEW q \in Runs
  PROVE  log[q] <= log'[q] /\ (~Alive(q) => log'[q] = log[q])
  BY Appends, MaxLogAssumption DEF TypeOK, StoreTypeOK

\* A run that is over, or whose start is, does not come back.
LEMMA StaysOver ==
  ASSUME MInv, [Next]_mvars, NEW q \in Runs,
         ~Alive(q), api[q] \notin {"idle", "admitted", "created"}
  PROVE  ~Alive(q)' /\ api'[q] \notin {"idle", "admitted", "created"}
<1> USE DEF MInv, TypeOK
<1>1. ASSUME NEW r \in Runs, StartStep(r)
      PROVE ~Alive(q)' /\ api'[q] \notin {"idle", "admitted", "created"}
  BY <1>1 DEF StartStep, Admit, Create, Spawn, Enlist, StartReaper, host
<1>2. ASSUME NEW r \in Runs, RunnerStep(r) \/ StopStep(r)
      PROVE ~Alive(q)' /\ api'[q] \notin {"idle", "admitted", "created"}
  <2>1. UNCHANGED api
    BY <1>2 DEF RunnerStep, RunnerBegin, RunnerRunning, RunnerEvent, RunnerFinalize,
                RunnerFinalized, RunnerExits, RunnerDies, SpecimenEnds, StopStep, StopRequest,
                Stop, server
  <2>2. ~Alive(q)'
    <3>1. CASE Dies(r)
      BY <3>1, DiesEffect
    <3>2. CASE ~Dies(r)
      BY <1>2, <3>2 DEF RunnerStep, RunnerBegin, RunnerRunning, RunnerEvent, RunnerFinalize,
                        RunnerFinalized, RunnerExits, RunnerDies, SpecimenEnds, StopStep,
                        StopRequest, Stop, host
    <3> QED
      BY <3>1, <3>2
  <2> QED
    BY <2>1, <2>2
<1>3. ASSUME NEW r \in Runs, ReapStep(r)
      PROVE ~Alive(q)' /\ api'[q] \notin {"idle", "admitted", "created"}
  BY <1>3 DEF ReapStep, Wait, Check, OpenStore, ReadMeta, WriteError, RenameError, Pop, host
<1>4. CASE Restart \/ UNCHANGED mvars
  BY <1>4 DEF Restart, mvars, server, host
<1> QED
  BY <1>1, <1>2, <1>3, <1>4, Steps

\* Where a page ends.
LEMMA PageEnd ==
  ASSUME NEW a \in Nat, NEW b \in Nat, a <= b
  PROVE  /\ Minimum(b, a + Page) \in a..b
         /\ Minimum(b, a + Page) - a < Page => Minimum(b, a + Page) = b
         /\ 1..a \cup (a + 1)..Minimum(b, a + Page) = 1..Minimum(b, a + Page)
  BY PageAssumption DEF Minimum

-----------------------------------------------------------------------------
LEMMA SInvInit == StreamInit => SInv
<1> SUFFICES ASSUME StreamInit PROVE SInv
  OBVIOUS
<1>1. MInv
  BY MInvInit DEF StreamInit
<1>2. StreamTypeOK
  BY <1>1, MaxLogAssumption DEF StreamInit, StreamTypeOK, MInv
<1>3. ASSUME NEW r \in Runs PROVE CursorStage(r) /\ PostHocStage(r)
  BY DEF StreamInit, Init, StoreInit, CursorStage, PostHocStage
<1> QED
  BY <1>1, <1>2, <1>3 DEF SInv

\* What the client and its coroutine do does not touch the run.
LEMMA ClientStep ==
  ASSUME SInv, NEW r \in Runs, Connect(r) \/ StreamStep(r), TypeOK'
  PROVE  StreamTypeOK' /\ \A q \in Runs : CursorStage(q)' /\ PostHocStage(q)'
<1>0. UNCHANGED <<log, api, proc>>
  BY DEF Connect, StreamStep, ReadPage, SendPage, ReadStatus, Decide, mvars, store, server, host
<1> USE MaxLogAssumption DEF SInv, MInv, StreamTypeOK
<1>1. /\ since[r] \in Nat /\ log[r] \in Nat /\ log[r] <= MaxLog /\ since[r] <= log[r]
  BY DEF TypeOK, StoreTypeOK, CursorStage
<1>2. CASE Connect(r)
  <2>1. Ended(r) => ~Alive(r) /\ api[r] \notin {"idle", "admitted", "created"}
    BY DEF Ended, OutcomeStage
  <2>2. r \notin short
    BY <1>2 DEF Connect, CursorStage
  <2> QED
    BY <1>0, <1>2, <2>1, <2>2 DEF Connect, CursorStage, PostHocStage
<1>3. CASE ReadPage(r)
  <2> DEFINE until == Minimum(log[r], since[r] + Page)
  <2>1. /\ until \in since[r]..log[r]
        /\ until - since[r] < Page => until = log[r]
        /\ 1..since[r] \cup (since[r] + 1)..until = 1..until
    BY <1>1, PageEnd
  <2>2. /\ page' = [page EXCEPT ![r] = (since[r] + 1)..until]
        /\ since' = [since EXCEPT ![r] = until]
        /\ short' = IF until - since[r] < Page THEN short \cup {r} ELSE short \ {r}
        /\ view[r] = "page" /\ view' = [view EXCEPT ![r] = "send"]
        /\ UNCHANGED <<got, over, posthoc>>
    BY <1>3 DEF ReadPage
  <2> HIDE DEF until
  <2>3. StreamTypeOK'
    <3>1. until \in 0..MaxLog /\ (since[r] + 1)..until \in SUBSET (1..MaxLog)
      BY <1>1, <2>1
    <3> QED
      BY <2>2, <3>1
  <2>4. ASSUME NEW q \in Runs PROVE CursorStage(q)'
    BY <1>0, <1>1, <2>1, <2>2 DEF CursorStage
  <2>5. ASSUME NEW q \in Runs PROVE PostHocStage(q)'
    BY <1>0, <1>1, <2>1, <2>2 DEF PostHocStage
  <2> QED
    BY <2>3, <2>4, <2>5
<1>4. CASE SendPage(r)
  <2>1. StreamTypeOK'
    BY <1>4 DEF SendPage
  <2>2. ASSUME NEW q \in Runs PROVE CursorStage(q)'
    BY <1>0, <1>4 DEF SendPage, CursorStage
  <2>3. ASSUME NEW q \in Runs PROVE PostHocStage(q)'
    BY <1>0, <1>4 DEF SendPage, CursorStage, PostHocStage
  <2> QED
    BY <2>1, <2>2, <2>3
<1>5. CASE ReadStatus(r)
  <2>1. StreamTypeOK'
    BY <1>5 DEF ReadStatus
  <2>2. ASSUME NEW q \in Runs PROVE CursorStage(q)'
    BY <1>0, <1>5 DEF ReadStatus, CursorStage
  <2>3. ASSUME NEW q \in Runs PROVE PostHocStage(q)'
    BY <1>0, <1>5 DEF ReadStatus, CursorStage, PostHocStage
  <2> QED
    BY <2>1, <2>2, <2>3
<1>6. CASE Decide(r)
  <2>1. StreamTypeOK'
    BY <1>6 DEF Decide
  <2>2. ASSUME NEW q \in Runs PROVE CursorStage(q)'
    BY <1>0, <1>6 DEF Decide, CursorStage
  <2>3. ASSUME NEW q \in Runs PROVE PostHocStage(q)'
    BY <1>0, <1>6 DEF Decide, CursorStage, PostHocStage
  <2> QED
    BY <2>1, <2>2, <2>3
<1> QED
  BY <1>2, <1>3, <1>4, <1>5, <1>6 DEF StreamStep

LEMMA SInvStep == SInv /\ [StreamNext]_svars => SInv'
<1> SUFFICES ASSUME SInv, [StreamNext]_svars PROVE SInv'
  OBVIOUS
<1>1. MInv' /\ TypeOK'
  BY RunsStep, MInvStep DEF SInv, MInv
<1>2. ASSUME UNCHANGED stream PROVE SInv'
  <2>1. ASSUME NEW q \in Runs PROVE CursorStage(q)'
    <3>1. log[q] <= log'[q] /\ log[q] \in Nat /\ log'[q] \in Nat /\ since[q] \in Nat
      BY <1>1, RunsStep, LogStep, MaxLogAssumption DEF SInv, MInv, TypeOK, StoreTypeOK, StreamTypeOK
    <3> QED
      BY <1>2, <3>1 DEF stream, SInv, CursorStage
  <2>2. ASSUME NEW q \in Runs PROVE PostHocStage(q)'
    <3>1. CASE q \in posthoc
      BY <1>2, <3>1, RunsStep, LogStep, StaysOver DEF stream, SInv, MInv, PostHocStage
    <3> QED
      BY <1>2, <3>1 DEF stream, PostHocStage
  <2> QED
    BY <1>1, <1>2, <2>1, <2>2 DEF SInv, StreamTypeOK, stream
<1>3. ASSUME NEW r \in Runs, Connect(r) \/ StreamStep(r) PROVE SInv'
  BY <1>1, <1>3, ClientStep DEF SInv
<1>4. CASE Disconnect
  <2>1. UNCHANGED <<log, proc>>
    BY <1>4 DEF Disconnect, Restart, store, host
  <2>2. ASSUME NEW q \in Runs PROVE CursorStage(q)'
    BY <1>4, <2>1 DEF Disconnect, SInv, StreamTypeOK, CursorStage
  <2>3. ASSUME NEW q \in Runs PROVE PostHocStage(q)'
    <3>1. CASE q \in posthoc
      BY <1>4, <2>1, <3>1, RunsStep, StaysOver DEF Disconnect, SInv, StreamTypeOK, PostHocStage
    <3> QED
      BY <1>4, <3>1 DEF Disconnect, PostHocStage
  <2> QED
    BY <1>1, <1>4, <2>2, <2>3 DEF Disconnect, SInv, StreamTypeOK
<1> QED
  BY <1>2, <1>3, <1>4 DEF StreamNext, svars

\* The inductive invariant holds: cursor, page and client agree with the log.
THEOREM StreamInvariance == StreamSpec => []SInv
  BY SInvInit, SInvStep, PTL DEF StreamSpec

\* stream_ep leaves no gap: whatever was appended, torn or replayed meanwhile, a
\* client that is up to date with its cursor has all events before it.
THEOREM NoGapHolds == StreamSpec => []NoGap
<1>1. SInv => NoGap
  BY DEF SInv, CursorStage, NoGap
<1> QED
  BY <1>1, StreamInvariance, PTL

\* A client that connects after the end gets the whole log from stream_ep before
\* the stream is closed, for every page size.
THEOREM PostHocCompleteHolds == StreamSpec => []PostHocComplete
<1>1. SInv => PostHocComplete
  BY DEF SInv, CursorStage, PostHocStage, PostHocComplete
<1> QED
  BY <1>1, StreamInvariance, PTL

-----------------------------------------------------------------------------
(* The stream as its client sees it: EventFeed.                            *)

\* A step within the coroutine that the client does not see.
LEMMA FeedQuiet ==
  ASSUME UNCHANGED <<log, posthoc, got>>, \A q \in Runs : ClientOf(q)' = ClientOf(q)
  PROVE  UNCHANGED Feed!vars
  BY DEF ClientOf, Feed!vars

\* The client of one run comes to another state.
LEMMA ClientMoves ==
  ASSUME SInv, NEW r \in Runs, NEW to \in {"page", "send", "status", "active", "closed", "gone"},
         view' = [view EXCEPT ![r] = to]
  PROVE  /\ \A q \in Runs \ {r} : ClientOf(q)' = ClientOf(q)
         /\ ClientOf(r)' = IF to \in {"closed", "gone"} THEN to ELSE "open"
         /\ [q \in Runs |-> ClientOf(q)]' =
              [[q \in Runs |-> ClientOf(q)] EXCEPT ![r] = IF to \in {"closed", "gone"} THEN to ELSE "open"]
<1>1. \A q \in Runs : view'[q] = IF q = r THEN to ELSE view[q]
  BY DEF SInv, StreamTypeOK
<1> QED
  BY <1>1 DEF ClientOf

\* The log grows while its run goes on, and so for no client who came late.
LEMMA FeedOfRun ==
  ASSUME SInv, [Next]_mvars, UNCHANGED stream
  PROVE  [Feed!Next]_(Feed!vars)
<1>1. CASE log' = log
  BY <1>1, FeedQuiet DEF stream, ClientOf
<1>2. ASSUME NEW r \in Runs, Alive(r), log' = [log EXCEPT ![r] = @ + 1] PROVE Feed!Next
  <2>1. Feed!Write(r)
    BY <1>2 DEF SInv, PostHocStage, stream, ClientOf, Feed!Write
  <2> QED
    BY <2>1 DEF Feed!Next
<1> QED
  BY <1>1, <1>2, Appends DEF SInv, MInv

LEMMA FeedNext == SInv /\ [StreamNext]_svars => [Feed!Next]_(Feed!vars)
<1> SUFFICES ASSUME SInv, [StreamNext]_svars PROVE [Feed!Next]_(Feed!vars)
  OBVIOUS
<1>1. CASE UNCHANGED stream
  BY <1>1, RunsStep, FeedOfRun
<1>2. ASSUME NEW r \in Runs, Connect(r) PROVE Feed!Come(r)
  <2>1. [q \in Runs |-> ClientOf(q)]' = [[q \in Runs |-> ClientOf(q)] EXCEPT ![r] = "open"]
    BY <1>2, ClientMoves DEF Connect
  <2>2. ClientOf(r) = "none" /\ posthoc' \in {posthoc, posthoc \cup {r}} /\ UNCHANGED <<log, got>>
    BY <1>2 DEF Connect, ClientOf, mvars, store
  <2> QED
    BY <2>1, <2>2 DEF Feed!Come, ClientOf
<1>3. ASSUME NEW r \in Runs, ReadPage(r) \/ ReadStatus(r) PROVE UNCHANGED Feed!vars
  <2>1. ClientOf(r) = "open" /\ UNCHANGED <<log, posthoc, got>>
        /\ (view' = [view EXCEPT ![r] = "send"] \/ view' = [view EXCEPT ![r] = "active"])
    BY <1>3 DEF ReadPage, ReadStatus, ClientOf, mvars, store
  <2>2. \A q \in Runs : ClientOf(q)' = ClientOf(q)
    BY <2>1, ClientMoves
  <2> QED
    BY <2>1, <2>2, FeedQuiet
<1>4. ASSUME NEW r \in Runs, view[r] # "none", view[r] # "closed", view[r] # "gone",
             view' = [view EXCEPT ![r] = "gone"], UNCHANGED <<log, posthoc, got>>
      PROVE  Feed!Leave
  <2>1. ClientOf(r) = "open" /\ ClientOf(r)' = "gone"
    BY <1>4, ClientMoves DEF ClientOf
  <2>2. \A q \in Runs : ClientOf(q)' = ClientOf(q) \/ (ClientOf(q) = "open" /\ ClientOf(q)' = "gone")
    BY <1>4, <2>1, ClientMoves
  <2>3. \A q \in Runs : ClientOf(q)' \in {"none", "open", "closed", "gone"}
    BY DEF ClientOf
  <2> QED
    BY <1>4, <2>2, <2>3 DEF Feed!Leave, ClientOf
<1>5. ASSUME NEW r \in Runs, SendPage(r) PROVE Feed!Leave \/ Feed!Send(r)
  <2>1. view[r] = "send" /\ UNCHANGED <<log, posthoc>>
    BY <1>5 DEF SendPage, mvars, store
  <2>2. CASE view' = [view EXCEPT ![r] = "gone"] /\ UNCHANGED got
    BY <1>4, <2>1, <2>2
  <2>3. CASE got' = [got EXCEPT ![r] = @ \cup page[r]] /\ view' = [view EXCEPT ![r] = "status"]
    <3>1. ClientOf(r) = "open" /\ \A q \in Runs : ClientOf(q)' = ClientOf(q)
      BY <2>1, <2>3, ClientMoves DEF ClientOf
    <3>2. /\ since[r] \in 0..log[r] /\ got[r] \subseteq 1..since[r]
          /\ got' = [got EXCEPT ![r] = 1..since[r]]
      <4>1. since[r] \in Nat /\ log[r] \in Nat /\ since[r] <= log[r]
        BY MaxLogAssumption DEF SInv, StreamTypeOK, TypeOK, StoreTypeOK, CursorStage
      <4>2. got[r] \cup page[r] = 1..since[r]
        BY <2>1 DEF SInv, CursorStage
      <4>3. since[r] \in 0..log[r]
        BY <4>1
      <4>4. got[r] \subseteq 1..since[r]
        BY <4>2
      <4>5. got' = [got EXCEPT ![r] = got[r] \cup page[r]]
        BY <2>3
      <4> QED
        BY <4>2, <4>3, <4>4, <4>5
    <3> QED
      BY <2>1, <3>1, <3>2 DEF Feed!Send, ClientOf
  <2> QED
    BY <1>5, <2>2, <2>3 DEF SendPage
<1>6. ASSUME NEW r \in Runs, Decide(r) PROVE Feed!Close(r) \/ UNCHANGED Feed!vars
  <2>1. view[r] = "active" /\ UNCHANGED <<log, posthoc, got>> /\ ClientOf(r) = "open"
    BY <1>6 DEF Decide, ClientOf, mvars, store
  <2>2. CASE view' = [view EXCEPT ![r] = "page"]
    BY <2>1, <2>2, ClientMoves, FeedQuiet
  <2>3. CASE view' = [view EXCEPT ![r] = "closed"] /\ r \in short
    <3>1. [q \in Runs |-> ClientOf(q)]' = [[q \in Runs |-> ClientOf(q)] EXCEPT ![r] = "closed"]
      BY <2>3, ClientMoves
    <3>2. r \in posthoc => got[r] = 1..log[r]
      BY <2>1, <2>3 DEF SInv, CursorStage, PostHocStage
    <3> QED
      BY <2>1, <3>1, <3>2 DEF Feed!Close, ClientOf
  <2> QED
    BY <1>6, <2>2, <2>3 DEF Decide
<1>7. CASE Disconnect
  <2>1. UNCHANGED <<log, posthoc, got>>
    BY <1>7 DEF Disconnect, Restart, store
  <2>2. ASSUME NEW q \in Runs
        PROVE  /\ ClientOf(q)' \in {"none", "open", "closed", "gone"}
               /\ ClientOf(q)' = ClientOf(q) \/ (ClientOf(q) = "open" /\ ClientOf(q)' = "gone")
    BY <1>7 DEF Disconnect, ClientOf, SInv, StreamTypeOK
  <2>3. Feed!Leave
    BY <2>1, <2>2 DEF Feed!Leave, ClientOf
  <2> QED
    BY <2>3 DEF Feed!Next
<1>8. CASE \E r \in Runs : Connect(r) \/ StreamStep(r)
  BY <1>2, <1>3, <1>5, <1>6, <1>8 DEF StreamStep, Feed!Next
<1> QED
  BY <1>1, <1>7, <1>8 DEF StreamNext, svars

\* stream_ep is a feed: whatever is appended, torn, replayed or cut into pages, the
\* client is sent the log from its first event on, without a gap, and one who came
\* when the run was over has all of it before the stream is closed.
THEOREM FeedRefinement == StreamSpec => FeedSpec
<1>1. StreamInit => Feed!Init
  BY DEF StreamInit, Init, StoreInit, ClientOf, Feed!Init
<1> QED
  BY <1>1, FeedNext, StreamInvariance, PTL DEF StreamSpec, FeedSpec, Feed!Spec

\* Hence at any moment, also between two pages and with a client that has gone, what
\* was sent is the log up to some event.
THEOREM FeedIsWhole == StreamSpec => []Feed!Whole
<1> DEFINE Prefix(r) == \E n \in 0..log[r] : got[r] = 1..n
           FInv == \A r \in Runs : Prefix(r)
<1>1. StreamInit => FInv
  <2> SUFFICES ASSUME StreamInit, NEW r \in Runs PROVE Prefix(r)
    OBVIOUS
  <2>1. 0 \in 0..log[r] /\ got[r] = 1..0
    BY DEF StreamInit, Init, StoreInit
  <2> QED
    BY <2>1
<1>2. FInv /\ SInv /\ SInv' /\ [Feed!Next]_(Feed!vars) => FInv'
  <2> SUFFICES ASSUME FInv, SInv, SInv', [Feed!Next]_(Feed!vars), NEW q \in Runs PROVE Prefix(q)'
    OBVIOUS
  <2>0. log[q] \in Nat /\ log'[q] \in Nat
    BY MaxLogAssumption DEF SInv, MInv, TypeOK, StoreTypeOK
  <2>1. PICK n \in 0..log[q] : got[q] = 1..n
    OBVIOUS
  <2>2. ASSUME NEW r \in Runs, Feed!Send(r) PROVE Prefix(q)'
    BY <2>1, <2>2 DEF Feed!Send, SInv, StreamTypeOK
  <2>3. ASSUME NEW r \in Runs, Feed!Write(r) PROVE Prefix(q)'
    <3>1. got' = got /\ n \in 0..log'[q]
      BY <2>0, <2>1, <2>3 DEF Feed!Write, SInv, MInv, TypeOK, StoreTypeOK
    <3> QED
      BY <2>1, <3>1
  <2>4. CASE UNCHANGED <<log, got>>
    BY <2>1, <2>4
  <2> QED
    BY <2>2, <2>3, <2>4 DEF Feed!Next, Feed!Leave, Feed!Come, Feed!Close, Feed!vars
<1>3. FInv /\ SInv => Feed!Whole
  BY DEF SInv, CursorStage, PostHocStage, ClientOf, Feed!Whole
<1> QED
  BY <1>1, <1>2, <1>3, FeedNext, StreamInvariance, PTL DEF StreamSpec
=============================================================================
