---------------------------- MODULE Session_proofs ----------------------------
(***************************************************************************)
(* Proofs about Session: its result is truthful, is complete when nothing  *)
(* was lost on the way, and reports no finding twice.                      *)
(***************************************************************************)
EXTENDS Session_inv, FiniteSetTheorems, TLAPS

-----------------------------------------------------------------------------
(* The verdict is the maximum and the union of what it has absorbed.        *)

\* A detection's severity is one of low to critical.
LEMMA SeverityRange == \A f : Severity(f) \in 1..4
BY DEF Severity

Tops(n, F) == (n = 0 \/ \E f \in F : Severity(f) = n) /\ \A f \in F : Severity(f) <= n

\* There is one severity that tops those of a set of findings.
LEMMA TopExists == \A F : \E n \in 0..4 : Tops(n, F)
<1> SUFFICES ASSUME NEW F PROVE \E n \in 0..4 : Tops(n, F) OBVIOUS
<1> USE SeverityRange
<1>1. CASE \E f \in F : Severity(f) = 4 BY <1>1 DEF Tops
<1>2. CASE ~(\E f \in F : Severity(f) = 4) /\ \E f \in F : Severity(f) = 3 BY <1>2 DEF Tops
<1>3. CASE (\A f \in F : Severity(f) \notin {3, 4}) /\ \E f \in F : Severity(f) = 2 BY <1>3 DEF Tops
<1>4. CASE (\A f \in F : Severity(f) \notin {2, 3, 4}) /\ \E f \in F : Severity(f) = 1
  BY <1>4 DEF Tops
<1>5. CASE \A f \in F : Severity(f) \notin {1, 2, 3, 4} BY <1>5 DEF Tops
<1> QED BY <1>1, <1>2, <1>3, <1>4, <1>5

\* The severity of VerdictOf is that one.
LEMMA VerdictTops ==
  ASSUME NEW F
  PROVE VerdictOf(F).severity \in 0..4 /\ Tops(VerdictOf(F).severity, F)
<1> DEFINE P(n) == (n = 0 \/ \E f \in F : Severity(f) = n) /\ \A f \in F : Severity(f) <= n
<1>1. \E n \in 0..4 : P(n) BY TopExists DEF Tops
<1>2. (CHOOSE n \in 0..4 : P(n)) \in 0..4 /\ P(CHOOSE n \in 0..4 : P(n))
  <2> HIDE DEF P
  <2> QED BY <1>1
<1>3. VerdictOf(F).severity = CHOOSE n \in 0..4 : P(n) BY DEF VerdictOf
<1> QED BY <1>2, <1>3 DEF Tops

\* And it is the only one.
LEMMA TopUnique ==
  ASSUME NEW F, NEW n \in 0..4, Tops(n, F)
  PROVE VerdictOf(F).severity = n
BY VerdictTops, SeverityRange DEF Tops

\* Absorbing a finding is adding it to the set.
LEMMA AbsorbLemma ==
  ASSUME NEW F, NEW f
  PROVE Absorb(VerdictOf(F), f) = VerdictOf(F \cup {f})
<1> DEFINE m == VerdictOf(F).severity
           n == IF Severity(f) > m THEN Severity(f) ELSE m
<1>1. m \in 0..4 /\ Tops(m, F) BY VerdictTops
<1>2. n \in 0..4 /\ Tops(n, F \cup {f}) BY <1>1, SeverityRange DEF Tops
<1>3. VerdictOf(F \cup {f}).severity = n BY <1>2, TopUnique
<1>4. VerdictOf(F \cup {f}).flags = VerdictOf(F).flags \cup {Flag(f.id)} BY DEF VerdictOf
<1>5. VerdictOf(F \cup {f}) = [severity |-> VerdictOf(F \cup {f}).severity,
                               flags |-> VerdictOf(F \cup {f}).flags]
  BY DEF VerdictOf
<1> QED BY <1>3, <1>4, <1>5 DEF Absorb

\* More findings, no smaller verdict.
LEMMA VerdictGrows ==
  ASSUME NEW F, NEW G, F \subseteq G
  PROVE NoMore(VerdictOf(F), VerdictOf(G))
<1>1. VerdictOf(F).flags \subseteq VerdictOf(G).flags BY DEF VerdictOf
<1>2. VerdictOf(F).severity <= VerdictOf(G).severity
  BY VerdictTops, SeverityRange DEF Tops
<1> QED BY <1>1, <1>2 DEF NoMore

\* The verdict with no finding.
LEMMA VerdictNone == VerdictOf({}) = NoVerdict
<1>1. Tops(0, {}) BY DEF Tops
<1>2. VerdictOf({}).severity = 0 BY <1>1, TopUnique
<1>3. VerdictOf({}) = [severity |-> VerdictOf({}).severity, flags |-> {}] BY DEF VerdictOf
<1> QED BY <1>2, <1>3 DEF NoVerdict

-----------------------------------------------------------------------------
(* Types.                                                                  *)

LEMMA EmptySeqType == \A S : <<>> \in Seq(S)
OBVIOUS

LEMMA KeysDiffer == {"main", "nobody", "wait", "ended"} \cap Conns = {}
BY ThreadAssumption

LEMMA EventTypes ==
  /\ Emitted \subseteq Events /\ Command \in Events
  /\ \A o \in Reporting : [kind |-> "net", op |-> o, key |-> Url] \in Events
BY DEF Events

LEMMA FindingTypes ==
  /\ Yara \in Every
  /\ \A e \in Events : Findings(e) \subseteq Every
BY DEF Every

LEMMA AbsorbType ==
  ASSUME NEW v \in VerdictType, NEW f \in Every
  PROVE Absorb(v, f) \in VerdictType
<1>1. Severity(f) \in 0..4 BY SeverityRange
<1>2. Flag(f.id) \in Flags BY DEF Flags
<1> QED BY <1>1, <1>2 DEF Absorb, VerdictType

LEMMA InitTypes ==
  /\ NoVerdict \in VerdictType /\ NoCounts \in CountType /\ NoResult \in ResultType
<1>1. NoVerdict \in VerdictType BY DEF NoVerdict, VerdictType
<1>2. NoCounts \in CountType BY DEF NoCounts, CountType
<1> QED BY <1>1, <1>2 DEF NoResult, ResultType

\* What the lock's record is when nobody has it, or somebody has just taken it.
EmType == [who : Conns \cup {"main", "nobody"},
           at : {"free", "event", "row", "finding", "count", "absorb"},
           ev : Events, now : Every, todo : SUBSET Every]

LEMMA FreeType == Free \in EmType
BY EventTypes, FindingTypes DEF Free, EmType

LEMMA InitThreading == Init => Threading
<1> SUFFICES ASSUME Init PROVE Threading OBVIOUS
<1>1. SessionTypeOK
  BY FreeType, InitTypes, EmptySeqType DEF Init, NetSinkInit, Started, Absent, SessionTypeOK, EmType
<1>2. Held BY KeysDiffer DEF Init, NetSinkInit, Started, Absent, Held
<1>3. Locked BY KeysDiffer DEF Init, Locked, Free
<1>4. Living BY DEF Init, NetSinkInit, Started, Absent, Living, Alive, Handled, Reporting
<1> QED BY <1>1, <1>2, <1>3, <1>4 DEF Threading

-----------------------------------------------------------------------------
(* Who holds what, and who is left.                                        *)

\* The sink's steps touch neither the session nor a handler that reports.
LEMMA SinkThreading == Threading /\ Sink => Threading'
<1> SUFFICES ASSUME Threading, Sink PROVE Threading' OBVIOUS
<1> USE KeysDiffer
<1>0. /\ SessionTypeOK /\ Held /\ Locked /\ Living
      /\ UNCHANGED session
      /\ Specimen \/ Threads
  BY DEF Threading, Sink
<1>1. /\ sinkstop' = sinkstop /\ joined' = joined
      /\ hs' \in [Conns -> {"none", "queued", "held", "over"} \cup Handled]
      /\ acc' \in [Acceptors -> {"wait", "ended"} \cup Conns]
      /\ Held'
      /\ \A c \in Conns : hs[c] \in Reporting => hs'[c] = hs[c]
      /\ Alive' \subseteq handlers'
      /\ Alive' \subseteq Alive \/ sinkstop = "no"
  <2> USE <1>0
  <2>1. ASSUME NEW c \in Conns, Connect(c) PROVE <1>1
    BY <2>1 DEF Connect, Goes, Held, Living, Alive, Handled, Reporting, SessionTypeOK
  <2>2. ASSUME NEW c \in Conns, GoesQuiet(c) \/ ReplayFrame(c) \/ ReplayIdles(c) PROVE <1>1
    BY <2>2 DEF GoesQuiet, ReplayFrame, ReplayIdles, handling, Held, Living, Alive, SessionTypeOK
  <2>3. ASSUME NEW c \in Conns, ReplayLeaves(c) \/ ReplayLoops(c) PROVE <1>1
    <3>1. CASE LeavesLoop(c)
      BY <3>1 DEF LeavesLoop, Goes, Held, Living, Alive, Handled, Reporting, SessionTypeOK
    <3>2. CASE UNCHANGED <<hs, handling>>
      BY <3>2 DEF handling, Held, Living, Alive, SessionTypeOK
    <3> QED BY <2>3, <3>1, <3>2 DEF ReplayLeaves, ReplayLoops
  <2>4. ASSUME NEW a \in Acceptors, NEW c \in Conns, Accept(a, c) PROVE <1>1
    BY <2>4 DEF Accept, Goes, Held, Living, Alive, Handled, Reporting, SessionTypeOK
  <2>5. ASSUME NEW a \in Acceptors, Register(a) PROVE <1>1
    BY <2>5 DEF Register, Goes, Held, Living, Alive, Handled, Reporting, SessionTypeOK
  <2>6. ASSUME NEW a \in Acceptors, AcceptEnds(a) PROVE <1>1
    BY <2>6 DEF AcceptEnds, Held, Living, Alive, SessionTypeOK
  <2>7. ASSUME NEW c \in Conns, Detect(c) \/ Handshake(c) \/ Read(c) PROVE <1>1
    BY <2>7 DEF Detect, Handshake, Read, handling, Goes, Held, Living, Alive, Handled, Reporting,
                SessionTypeOK
  <2> QED BY <2>1, <2>2, <2>3, <2>4, <2>5, <2>6, <2>7 DEF Specimen, Threads, Handle
<1>2. SessionTypeOK' BY <1>0, <1>1 DEF SessionTypeOK, session, log, memory, main, result
<1>3. Locked' BY <1>0, <1>1 DEF Locked, session, main
<1>4. Living' BY <1>0, <1>1 DEF Living, session, main, SessionTypeOK
<1> QED BY <1>1, <1>2, <1>3, <1>4 DEF Threading

\* Going on to the next finding, or releasing the lock.
LEMMA ProceedsThreading ==
  ASSUME Threading, em.at # "free", NEW todo \in SUBSET Every, Proceeds(todo),
         UNCHANGED <<acc, sinkstop, handlers, joined, drained>>,
         pc' = pc \/ (todo = {} /\ pc' # "join")
  PROVE  /\ em' \in EmType /\ hs' \in [Conns -> {"none", "queued", "held", "over"} \cup Handled]
         /\ Held' /\ Locked' /\ Living'
<1> USE KeysDiffer
<1>0. SessionTypeOK /\ Held /\ Locked /\ Living /\ em \in EmType
  BY DEF Threading, SessionTypeOK, EmType
<1>1. CASE todo # {}
  <2>1. em' = [em EXCEPT !.at = "finding", !.todo = todo] /\ hs' = hs /\ pc' = pc
    BY <1>1 DEF Proceeds
  <2>2. em' \in EmType /\ em'.who = em.who /\ em'.at = "finding" BY <1>0, <2>1 DEF EmType
  <2>3. Held' /\ Living' BY <1>0, <2>1 DEF Held, Living, Alive
  <2>4. Locked' BY <1>0, <2>1, <2>2 DEF Locked
  <2> QED BY <1>0, <2>1, <2>2, <2>3, <2>4 DEF SessionTypeOK
<1>2. CASE todo = {}
  <2>1. em' = Free /\ hs' = [c \in Conns |-> IF c = em.who THEN "over" ELSE hs[c]]
    BY <1>2 DEF Proceeds
  <2>2. em' \in EmType BY <2>1, FreeType
  <2>3. hs' \in [Conns -> {"none", "queued", "held", "over"} \cup Handled]
    BY <1>0, <2>1 DEF SessionTypeOK
  <2>4. Alive' \subseteq Alive BY <2>1 DEF Alive, Handled, Reporting
  <2>5. Held' BY <1>0, <2>1 DEF Held, Locked, Reporting
  <2>6. Living' BY <1>0, <1>2, <2>4 DEF Living
  <2>7. Locked' BY <2>1 DEF Locked, Free
  <2> QED BY <2>2, <2>3, <2>5, <2>6, <2>7
<1> QED BY <1>1, <1>2

\* What is left to be found, and where that puts the holder.
LEMMA ProceedsTodo ==
  ASSUME em \in EmType, NEW todo, Proceeds(todo)
  PROVE  em'.todo = todo /\ em'.at = IF todo = {} THEN "free" ELSE "finding"
<1>1. CASE todo # {}
  <2>1. em' = [em EXCEPT !.at = "finding", !.todo = todo] BY <1>1 DEF Proceeds
  <2> QED BY <1>1, <2>1 DEF EmType
<1>2. CASE todo = {}
  <2>1. em' = Free BY <1>2 DEF Proceeds
  <2> QED BY <1>2, <2>1 DEF Free
<1> QED BY <1>1, <1>2

\* Taking the lock.
LEMMA TakeThreading == Threading /\ ((\E c \in Conns : EmitReport(c)) \/ EmitMain \/ RecordYara) => Threading'
<1> SUFFICES ASSUME Threading, (\E c \in Conns : EmitReport(c)) \/ EmitMain \/ RecordYara
             PROVE Threading'
  OBVIOUS
<1> USE KeysDiffer
<1>0. SessionTypeOK /\ Held /\ Locked /\ Living BY DEF Threading
<1>1. /\ UNCHANGED <<netsink, log, memory, main, faults>>
      /\ em' \in EmType
      /\ Locked'
  <2>1. ASSUME NEW c \in Conns, EmitReport(c) PROVE <1>1
    <3>1. Report(c) \in Events BY <2>1, EventTypes DEF EmitReport, Report
    <3>2. em' = [Free EXCEPT !.who = c, !.at = "event", !.ev = Report(c)]
      BY <2>1 DEF EmitReport, Takes
    <3>3. em' \in EmType /\ em'.who = c /\ em'.at = "event" /\ em'.todo = {}
      BY <3>1, <3>2, FreeType DEF EmType, Free
    <3> QED BY <2>1, <3>3 DEF EmitReport, Locked, netsink
  <2>2. CASE EmitMain
    <3> PICK e \in Emitted \cup {Command} : Takes("main", e)
      BY <2>2 DEF EmitMain
    <3>1. e \in Events BY EventTypes
    <3>2. em' \in EmType /\ em'.who = "main" /\ em'.at = "event" /\ em'.todo = {}
      BY <3>1, FreeType DEF Takes, EmType, Free
    <3> QED BY <2>2, <3>2 DEF EmitMain, Locked, main
  <2>3. CASE RecordYara
    <3>1. em' \in EmType /\ em'.who = "main" /\ em'.at = "finding"
      BY <2>3, FreeType, FindingTypes DEF RecordYara, EmType, Free
    <3> QED BY <2>3, <3>1 DEF RecordYara, Locked, main
  <2> QED BY <2>1, <2>2, <2>3
<1>2. SessionTypeOK' BY <1>0, <1>1 DEF SessionTypeOK, EmType, netsink, log, memory, main, result
<1>3. Held' /\ Living' BY <1>0, <1>1 DEF Held, Living, Alive, netsink, main
<1> QED BY <1>1, <1>2, <1>3 DEF Threading

\* What its holder does.
LEMMA HolderThreading == Threading /\ (Holder \/ WriteFails) => Threading'
<1> SUFFICES ASSUME Threading, Holder \/ WriteFails PROVE Threading'
  OBVIOUS
<1> USE KeysDiffer
<1>0. SessionTypeOK /\ Held /\ Locked /\ Living /\ em \in EmType
  BY DEF Threading, SessionTypeOK, EmType
<1>1. CASE WriteLine \/ WriteFinding \/ CountFinding
  <2>1. /\ UNCHANGED <<hs, acc, sinkstop, handlers, joined, pc, result, drained, faults>>
        /\ em'.who = em.who /\ em' \in EmType
        /\ em'.at \in {"row", "count", "absorb"} /\ (em'.at = "row" => em'.todo = {})
    <3>1. CASE WriteLine BY <1>0, <3>1 DEF WriteLine, EmType, Locked, holding, main
    <3>2. CASE WriteFinding
      <4> PICK f \in em.todo : em' = [em EXCEPT !.at = "count", !.now = f, !.todo = @ \ {f}]
        BY <3>2 DEF WriteFinding
      <4> QED BY <1>0, <3>2 DEF WriteFinding, EmType, holding, main
    <3>3. CASE CountFinding BY <1>0, <3>3 DEF CountFinding, EmType, holding, main
    <3> QED BY <1>1, <3>1, <3>2, <3>3
  <2>2. Held' /\ Living' BY <1>0, <2>1 DEF Held, Living, Alive
  <2>3. em.at # "free" BY <1>1 DEF WriteLine, WriteFinding, CountFinding
  <2>4. Locked' BY <1>0, <2>1, <2>3 DEF Locked
  <2>5. told' \subseteq Events /\ found' \in Seq(Every) /\ lines' \in Nat
        /\ verdict' \in VerdictType /\ counts' \in CountType
    <3>1. CASE WriteLine BY <1>0, <3>1 DEF WriteLine, SessionTypeOK, EmType, memory
    <3>2. CASE WriteFinding
      <4> PICK f \in em.todo : found' = Append(found, f) BY <3>2 DEF WriteFinding
      <4>1. f \in Every BY <1>0 DEF EmType
      <4> QED BY <1>0, <3>2, <4>1 DEF WriteFinding, SessionTypeOK
    <3>3. CASE CountFinding BY <1>0, <3>3 DEF CountFinding, SessionTypeOK, CountType, log
    <3> QED BY <1>1, <3>1, <3>2, <3>3
  <2>6. SessionTypeOK' BY <1>0, <2>1, <2>5 DEF SessionTypeOK, EmType, result
  <2> QED BY <2>2, <2>4, <2>6 DEF Threading
<1>2. CASE CountEvent \/ AbsorbFinding
  <2>1. /\ UNCHANGED <<acc, sinkstop, handlers, joined, pc, result, drained, faults, log>>
        /\ em.at # "free" /\ \E todo \in SUBSET Every : Proceeds(todo)
    <3>1. CASE CountEvent
      <4>1. Feed(em.ev, seen) \in SUBSET Every BY <1>0, FindingTypes DEF Feed, EmType
      <4> QED BY <3>1, <4>1 DEF CountEvent, holding, main
    <3>2. CASE AbsorbFinding BY <1>0, <3>2 DEF AbsorbFinding, holding, main, EmType
    <3> QED BY <1>2, <3>1, <3>2
  <2>2. /\ em' \in EmType /\ hs' \in [Conns -> {"none", "queued", "held", "over"} \cup Handled]
        /\ Held' /\ Locked' /\ Living'
    BY <2>1, ProceedsThreading
  <2>3. verdict' \in VerdictType /\ counts' \in CountType
    <3>1. CASE CountEvent BY <1>0, <3>1 DEF CountEvent, SessionTypeOK, CountType
    <3>2. CASE AbsorbFinding BY <1>0, <3>2, AbsorbType DEF AbsorbFinding, SessionTypeOK, EmType
    <3> QED BY <1>2, <3>1, <3>2
  <2>4. SessionTypeOK' BY <1>0, <2>1, <2>2, <2>3 DEF SessionTypeOK, EmType, log, result
  <2> QED BY <2>2, <2>4 DEF Threading
<1>3. CASE WriteFails \/ WriteTooLate
  <2>1. Thrown /\ faults' \in Nat /\ em.at # "free"
    BY <1>0, <1>3 DEF WriteFails, WriteTooLate, SessionTypeOK
  <2>2. UNCHANGED <<acc, sinkstop, handlers, joined, log, verdict, counts, result, drained>>
        /\ Proceeds({}) /\ (pc' = pc \/ pc' # "join")
    BY <2>1 DEF Thrown, Raises
  <2>3. /\ em' \in EmType /\ hs' \in [Conns -> {"none", "queued", "held", "over"} \cup Handled]
        /\ Held' /\ Locked' /\ Living'
    BY <2>1, <2>2, ProceedsThreading
  <2>4. SessionTypeOK' BY <1>0, <2>1, <2>2, <2>3 DEF SessionTypeOK, EmType, log, result
  <2> QED BY <2>3, <2>4 DEF Threading
<1> QED BY <1>1, <1>2, <1>3 DEF Holder

\* Stopping the sink: the handlers that are left are among those that are joined.
LEMMA StopThreading == Threading /\ (Stop \/ Join \/ Exit) => Threading'
<1> SUFFICES ASSUME Threading, Stop \/ Join \/ Exit PROVE Threading' OBVIOUS
<1> USE KeysDiffer
<1>0. SessionTypeOK /\ Held /\ Locked /\ Living BY DEF Threading
<1>1. CASE Stop
  <2>1. /\ UNCHANGED <<em, log, memory, result, drained, faults, acc, handlers>>
        /\ pc = "stop" /\ pc' \in {"stop", "join"}
        /\ sinkstop' \in {"set", "closed"}
        /\ sinkstop = "closed" => sinkstop' = "closed"
        /\ pc' = "join" => sinkstop' = "closed" /\ joined' = handlers
        /\ hs' \in [Conns -> {"none", "queued", "held", "over"} \cup Handled]
        /\ \A c \in Conns : hs'[c] = hs[c] \/ (hs[c] = "queued" /\ hs'[c] = "over")
    BY <1>1, <1>0 DEF Stop, StopSets, StopCloses, StopSnapshots, SessionTypeOK
  <2>2. Alive' = Alive BY <2>1 DEF Alive, Handled, Reporting
  <2>3. Held' BY <1>0, <2>1 DEF Held, SessionTypeOK
  <2>4. Locked' BY <1>0, <2>1 DEF Locked, Reporting
  <2>5. Living' BY <1>0, <2>1, <2>2 DEF Living
  <2>6. SessionTypeOK' BY <1>0, <2>1 DEF SessionTypeOK, log, memory, result
  <2> QED BY <2>3, <2>4, <2>5, <2>6 DEF Threading
<1>2. CASE Join
  <2>1. UNCHANGED <<netsink, em, log, memory, faults, result>> /\ pc = "join" /\ pc' \in {"failed", "post"}
        /\ drained' = Ended
    BY <1>2 DEF Join, others
  <2>2. drained' => Alive = {} BY <1>0, <2>1 DEF Ended, Living
  <2>3. SessionTypeOK' BY <1>0, <2>1 DEF SessionTypeOK, netsink, log, memory, result, Ended
  <2>4. Held' BY <1>0, <2>1 DEF Held, netsink
  <2>5. Locked' BY <1>0, <2>1 DEF Locked, netsink
  <2>6. Living' BY <1>0, <2>1, <2>2 DEF Living, Alive, netsink
  <2> QED BY <2>3, <2>4, <2>5, <2>6 DEF Threading
<1>3. CASE Exit
  <2>1. /\ em' = Free /\ hs' = [c \in Conns |-> "over"] /\ acc' = [a \in Acceptors |-> "ended"]
        /\ sinkstop' = "closed" /\ pc' = "exit"
        /\ UNCHANGED <<log, memory, result, drained, faults>>
    BY <1>3 DEF Exit
  <2>2. SessionTypeOK' BY <1>0, <2>1, FreeType DEF SessionTypeOK, EmType, log, memory, result
  <2>3. Alive' = {} BY <2>1 DEF Alive, Handled, Reporting
  <2>4. Held' /\ Locked' /\ Living' BY <1>0, <2>1, <2>3 DEF Held, Locked, Living, Free
  <2> QED BY <2>2, <2>4 DEF Threading
<1> QED BY <1>1, <1>2, <1>3

\* The other steps of execute touch no thread.
LEMMA MainThreading ==
  Threading /\ (SetupEnds \/ TraceEnds \/ TeardownEnds \/ PostEnds \/ TakeCounts \/ TakeVerdict
                  \/ WriteMeta \/ CloseStore \/ MetaFails)
    => Threading'
<1> SUFFICES ASSUME Threading,
                    SetupEnds \/ TraceEnds \/ TeardownEnds \/ PostEnds \/ TakeCounts \/ TakeVerdict
                      \/ WriteMeta \/ CloseStore \/ MetaFails
             PROVE Threading'
  OBVIOUS
<1>0. SessionTypeOK /\ Held /\ Locked /\ Living BY DEF Threading
<1>1. /\ UNCHANGED <<netsink, em, log, memory, drained>> /\ faults' \in Nat
      /\ pc' # "join" /\ em.who # "main"
  BY <1>0 DEF SetupEnds, TraceEnds, TeardownEnds, PostEnds, TakeCounts, TakeVerdict, WriteMeta,
              CloseStore, MetaFails, others, Idle, SessionTypeOK, Locked, result
<1>2. taken' \in ResultType /\ meta' \in ResultType
  <2>1. CASE TakeCounts BY <1>0, <2>1 DEF TakeCounts, SessionTypeOK, ResultType, Terminal
  <2>2. CASE TakeVerdict BY <1>0, <2>2 DEF TakeVerdict, SessionTypeOK, ResultType
  <2>3. CASE WriteMeta BY <1>0, <2>3 DEF WriteMeta, SessionTypeOK
  <2>4. CASE SetupEnds \/ TraceEnds \/ TeardownEnds \/ PostEnds \/ CloseStore \/ MetaFails
    BY <1>0, <2>4 DEF SetupEnds, TraceEnds, TeardownEnds, PostEnds, CloseStore, MetaFails,
                      SessionTypeOK, result
  <2> QED BY <2>1, <2>2, <2>3, <2>4
<1>3. SessionTypeOK' BY <1>0, <1>1, <1>2 DEF SessionTypeOK, netsink, log, memory
<1>4. Held' /\ Locked' /\ Living' BY <1>0, <1>1 DEF Held, Locked, Living, Alive, netsink
<1> QED BY <1>3, <1>4 DEF Threading

LEMMA StutterThreading == Threading /\ UNCHANGED vars => Threading'
BY DEF Threading, SessionTypeOK, Held, Locked, Living, Alive, vars, netsink, session, log, memory,
       main, result

\* The lock is held by one thread that may hold it; what stop has not waited for is
\* known to it.
THEOREM StepThreading == Threading /\ [Next]_vars => Threading'
BY SinkThreading, TakeThreading, HolderThreading, StopThreading, MainThreading, StutterThreading
   DEF Next, Execute

\* Types are kept, and a lock that a handler holds is one it may hold.
THEOREM ThreadingHolds == Spec => []Threading
<1>1. Init => Threading BY InitThreading
<1>2. Threading /\ [Next]_vars => Threading' BY StepThreading
<1> QED BY <1>1, <1>2, PTL DEF Spec

\* The loops of the replay wait, and leave the streams alone.
Waits == Turn \/ TimesOut \/ Expire \/ Receive

\* The replayed connection: no frame takes its streams out of their types.
LEMMA ReplayTypes == ASSUME ReplayTypeOK, Waits \/ Frame \/ Forget PROVE ReplayTypeOK'
<1>1. CASE Forget BY <1>1 DEF Forget, ReplayTypeOK, Record, Fresh, InPreface
<1>2. CASE Waits
  BY <1>2 DEF Waits, Turn, TimesOut, Expire, Receive, halves, ReplayTypeOK, InPreface, InFrames
<1>3. ASSUME Frame PROVE InFrames' /\ inner' \in BOOLEAN /\ late' \in BOOLEAN
  <2>1. read' = "preface" /\ inner' = FALSE /\ late' \in {late, FALSE}
    BY <1>3, Zenon DEF Frame, WholeFrame
  <2>2. late \in BOOLEAN BY DEF ReplayTypeOK
  <2>3. late' \in BOOLEAN BY <2>1, <2>2, Zenon
  <2>4. InFrames' BY <2>1 DEF InFrames
  <2> QED BY <2>1, <2>3, <2>4
<1>4. ASSUME NEW s \in Streams, NEW r \in Record,
             RespondUnary(s, r) \/ RespondUnaryError(s, r) \/ RespondStream(s, r) \/ NoResponse(s, r)
      PROVE streams' \in [Streams -> Record] /\ ours' \in [Streams -> {"idle", "open", "ended", "broken"}]
  <2>1. [r EXCEPT !.responded = TRUE] \in Record /\ [r EXCEPT !.headers_sent = TRUE] \in Record
        /\ [r EXCEPT !.responded = TRUE, !.headers_sent = TRUE] \in Record
    BY DEF Record
  <2>2. /\ Trailers(Data(Headers(ours[s]))) \in {"idle", "open", "ended", "broken"}
        /\ Trailers(Opened(r, ours[s])) \in {"idle", "open", "ended", "broken"}
        /\ Data(Opened(r, ours[s])) \in {"idle", "open", "ended", "broken"}
    BY DEF Trailers, Data, Headers, Opened
  <2> QED BY <1>4, <2>1, <2>2 DEF RespondUnary, RespondUnaryError, RespondStream, NoResponse, ReplayTypeOK
<1>5. ASSUME Frame, NEW s \in Streams, HeadersFrame(s) PROVE ReplayTypeOK'
  <2>1. PICK ends \in BOOLEAN, method \in {"none", "unary", "streaming"} :
          /\ theirs' = [theirs EXCEPT ![s] = AfterHeaders(theirs[s], ends, method)]
          /\ \/ UNCHANGED <<streams, ours>>
             \/ NoResponse(s, Fresh(method)) \/ RespondStream(s, Fresh(method)) \/ RespondUnary(s, Fresh(method))
    BY <1>5 DEF HeadersFrame
  <2>2. Fresh(method) \in Record BY <2>1 DEF Fresh, Record
  <2>3. AfterHeaders(theirs[s], ends, method) \in {"open", "ended", "amiss"} BY DEF AfterHeaders
  <2>4. theirs' \in [Streams -> {"idle", "open", "ended", "amiss"}] BY <2>1, <2>3 DEF ReplayTypeOK
  <2> QED BY <1>5, <2>1, <2>2, <2>4, <1>3, <1>4 DEF ReplayTypeOK
<1>6. ASSUME Frame, NEW s \in Streams, DataFrame(s) PROVE ReplayTypeOK'
  <2> DEFINE r == IF s \in Tracked THEN streams[s] ELSE Fresh("unary")
  <2>1. PICK ends \in BOOLEAN :
          /\ theirs' = [theirs EXCEPT ![s] = AfterData(theirs[s], ends)]
          /\ \/ UNCHANGED <<streams, ours>>
             \/ RespondUnaryError(s, r) \/ RespondStream(s, r) \/ RespondUnary(s, r) \/ NoResponse(s, r)
    BY <1>6 DEF DataFrame
  <2>2. r \in Record BY DEF ReplayTypeOK, Fresh, Record
  <2>3. AfterData(theirs[s], ends) \in {"open", "ended", "amiss"} BY DEF AfterData
  <2>4. theirs' \in [Streams -> {"idle", "open", "ended", "amiss"}] BY <2>1, <2>3 DEF ReplayTypeOK
  <2> HIDE DEF r
  <2> QED BY <1>6, <2>1, <2>2, <2>4, <1>3, <1>4 DEF ReplayTypeOK
<1>7. ASSUME Frame, NEW s \in Streams, ResetFrame(s) PROVE ReplayTypeOK'
  <2>1. AfterReset(theirs[s]) \in {"ended", "amiss"} BY DEF AfterReset
  <2> QED BY <1>3, <1>7, <2>1 DEF ResetFrame, ReplayTypeOK, Record, Fresh
<1>8. ASSUME Frame, UNCHANGED halves PROVE ReplayTypeOK'
  BY <1>3, <1>8 DEF halves, ReplayTypeOK
<1> QED BY <1>1, <1>2, <1>5, <1>6, <1>7, <1>8 DEF Frame

\* What a response does to the stream it is given on, and to no other
LEMMA Responds ==
  ASSUME ReplayTypeOK, NEW s \in Streams, NEW r \in Record
  PROVE  /\ RespondUnary(s, r) =>
              streams'[s] = [r EXCEPT !.responded = TRUE] /\ ours'[s] = Trailers(Data(Headers(ours[s])))
         /\ RespondUnaryError(s, r) =>
              streams'[s] = [r EXCEPT !.responded = TRUE, !.headers_sent = TRUE] /\ ours'[s] = Trailers(Opened(r, ours[s]))
         /\ RespondStream(s, r) => streams'[s] = [r EXCEPT !.headers_sent = TRUE]
         /\ NoResponse(s, r) => streams'[s] = r /\ ours' = ours
         /\ RespondUnary(s, r) \/ RespondUnaryError(s, r) \/ RespondStream(s, r) \/ NoResponse(s, r) =>
              /\ streams'[s].mode = r.mode
              /\ \A z \in Streams \ {s} : streams'[z] = streams[z] /\ ours'[z] = ours[z]
<1>1. /\ RespondUnary(s, r) =>
           streams'[s] = [r EXCEPT !.responded = TRUE] /\ ours'[s] = Trailers(Data(Headers(ours[s])))
      /\ RespondUnaryError(s, r) =>
           streams'[s] = [r EXCEPT !.responded = TRUE, !.headers_sent = TRUE] /\ ours'[s] = Trailers(Opened(r, ours[s]))
      /\ RespondStream(s, r) => streams'[s] = [r EXCEPT !.headers_sent = TRUE]
      /\ NoResponse(s, r) => streams'[s] = r /\ ours' = ours
  BY DEF ReplayTypeOK, RespondUnary, RespondUnaryError, RespondStream, NoResponse
<1>2. /\ [r EXCEPT !.responded = TRUE].mode = r.mode
      /\ [r EXCEPT !.responded = TRUE, !.headers_sent = TRUE].mode = r.mode
      /\ [r EXCEPT !.headers_sent = TRUE].mode = r.mode
  BY DEF Record
<1>3. RespondUnary(s, r) \/ RespondUnaryError(s, r) \/ RespondStream(s, r) \/ NoResponse(s, r) =>
        \A z \in Streams \ {s} : streams'[z] = streams[z] /\ ours'[z] = ours[z]
  BY DEF ReplayTypeOK, RespondUnary, RespondUnaryError, RespondStream, NoResponse
<1> QED BY <1>1, <1>2, <1>3

\* A step on one stream, with the stage that it leaves it in
LEMMA OneStream ==
  ASSUME ReplayTypeOK, Framing, NEW s \in Streams, StreamStage(s)',
         \A z \in Streams \ {s} : theirs'[z] = theirs[z] /\ streams'[z] = streams[z] /\ ours'[z] = ours[z],
         Room \/ s \in Tracked \/ streams'[s].mode = "none"
  PROVE  Framing'
<1>1. \A z \in Streams : StreamStage(z)' BY DEF Framing, StreamStage
<1>2. Bounded'
  <2>1. CASE Tracked' \subseteq Tracked
    BY <2>1, FS_Subset, FS_CardinalityType, StreamsAssumption DEF Framing, Bounded
  <2>2. CASE ~(Tracked' \subseteq Tracked)
    <3>1. Tracked' = Tracked \cup {s} /\ s \notin Tracked /\ Room BY <2>2 DEF Tracked
    <3>2. IsFiniteSet(Tracked') /\ Cardinality(Tracked') = Cardinality(Tracked) + 1
      BY <3>1, FS_AddElement DEF Framing, Bounded
    <3>3. Cardinality(Tracked) \in Nat BY FS_CardinalityType DEF Framing, Bounded
    <3> QED BY <3>1, <3>2, <3>3, StreamsAssumption DEF Bounded, Room
  <2> QED BY <2>1, <2>2
<1> QED BY <1>1, <1>2 DEF Framing

\* No frame makes the sink answer a unary call twice, or track a stream too many.
LEMMA ReplayFraming == ASSUME ReplayTypeOK, Framing, Waits \/ Frame \/ Forget PROVE Framing'
<1>1. CASE Forget
  <2>1. Tracked' = {} BY <1>1 DEF Forget, Tracked, Fresh
  <2>2. Bounded' BY <2>1, FS_EmptySet, StreamsAssumption DEF Bounded
  <2>3. \A s \in Streams : StreamStage(s)' BY <1>1 DEF Forget, StreamStage, Fresh
  <2> QED BY <2>2, <2>3 DEF Framing
<1>2. CASE Waits \/ UNCHANGED halves
  <2>1. UNCHANGED halves BY <1>2 DEF Waits, Turn, TimesOut, Expire, Receive
  <2> QED BY <2>1 DEF halves, Framing, StreamStage, Bounded, Tracked
<1>3. ASSUME NEW s \in Streams, ResetFrame(s) PROVE Framing'
  <2>1. /\ theirs'[s] \in {"ended", "amiss"} /\ streams'[s] = Fresh("none")
        /\ \A z \in Streams \ {s} : theirs'[z] = theirs[z] /\ streams'[z] = streams[z] /\ ours'[z] = ours[z]
    BY <1>3 DEF ResetFrame, AfterReset, ReplayTypeOK
  <2>2. StreamStage(s)' BY <2>1 DEF StreamStage, Fresh
  <2> QED BY <2>1, <2>2, OneStream DEF Fresh
<1>4. ASSUME NEW s \in Streams, HeadersFrame(s) PROVE Framing'
  <2>1. PICK ends \in BOOLEAN, method \in {"none", "unary", "streaming"} :
          /\ theirs' = [theirs EXCEPT ![s] = AfterHeaders(theirs[s], ends, method)]
          /\ \/ UNCHANGED <<streams, ours>>
             \/ /\ method # "none" /\ Room
                /\ \/ NoResponse(s, Fresh(method))
                   \/ method = "streaming" /\ RespondStream(s, Fresh(method))
                   \/ method = "unary" /\ RespondUnary(s, Fresh(method))
    BY <1>4 DEF HeadersFrame, Fresh
  <2>2. /\ Fresh(method) \in Record /\ Fresh(method).mode = method
        /\ ~Fresh(method).responded /\ ~Fresh(method).headers_sent
    BY DEF Fresh, Record
  <2>3. /\ theirs'[s] = "amiss" \/ theirs[s] = "idle" \/ (theirs[s] = "open" /\ method = "none")
        /\ theirs'[s] # "idle" /\ \A z \in Streams \ {s} : theirs'[z] = theirs[z]
        /\ theirs[s] = "open" => theirs'[s] # "open"
    BY <2>1 DEF ReplayTypeOK, AfterHeaders
  <2>4. StreamStage(s) BY DEF Framing
  <2>5. CASE UNCHANGED <<streams, ours>>
    <3>1. StreamStage(s)' BY <2>3, <2>4, <2>5 DEF StreamStage, Fresh
    <3>2. Room \/ s \in Tracked \/ streams'[s].mode = "none" BY <2>5 DEF Tracked
    <3> QED BY <2>3, <2>5, <3>1, <3>2, OneStream
  <2>6. CASE ~UNCHANGED <<streams, ours>>
    <3>1. /\ Room /\ streams'[s].mode = method /\ method # "none"
          /\ \A z \in Streams \ {s} : streams'[z] = streams[z] /\ ours'[z] = ours[z]
      BY <2>1, <2>2, <2>6, Responds
    <3>2. ASSUME method = "unary", theirs'[s] # "amiss"
          PROVE  \/ streams'[s] = Fresh(method) /\ ours'[s] = "idle"
                 \/ streams'[s] = [Fresh(method) EXCEPT !.responded = TRUE] /\ ours'[s] = "ended"
      <4>1. Trailers(Data(Headers("idle"))) = "ended" BY DEF Trailers, Data, Headers
      <4>2. ours[s] = "idle" BY <2>3, <2>4, <3>2 DEF StreamStage
      <4> QED BY <2>1, <2>2, <2>6, <3>2, <4>1, <4>2, Responds
    <3>3. [Fresh(method) EXCEPT !.responded = TRUE].responded = TRUE BY DEF Fresh
    <3>4. StreamStage(s)' BY <2>2, <2>3, <3>1, <3>2, <3>3 DEF StreamStage
    <3> QED BY <2>3, <3>1, <3>4, OneStream
  <2> QED BY <2>5, <2>6
<1>5. ASSUME NEW s \in Streams, DataFrame(s) PROVE Framing'
  <2> DEFINE r == IF s \in Tracked THEN streams[s] ELSE Fresh("unary")
  <2>1. PICK ends \in BOOLEAN :
          /\ theirs' = [theirs EXCEPT ![s] = AfterData(theirs[s], ends)]
          /\ \/ UNCHANGED <<streams, ours>>
             \/ /\ ~Drops(s)
                /\ \/ ~r.responded /\ RespondUnaryError(s, r)
                   \/ r.mode = "streaming" /\ RespondStream(s, r)
                   \/ r.mode # "streaming" /\ ~r.responded /\ RespondUnary(s, r)
                   \/ r.mode # "streaming" /\ r.responded /\ NoResponse(s, r)
    BY <1>5 DEF DataFrame
  <2>2. r \in Record /\ r.mode # "none" BY DEF ReplayTypeOK, Fresh, Record, Tracked
  <2>3. StreamStage(s) BY DEF Framing
  <2>4. /\ theirs'[s] # "amiss" => theirs[s] = "open"
        /\ theirs'[s] # "idle" /\ \A z \in Streams \ {s} : theirs'[z] = theirs[z]
    BY <2>1 DEF ReplayTypeOK, AfterData
  <2>5. r.mode = "unary" /\ theirs'[s] # "amiss" =>
          \/ ~r.responded /\ ~r.headers_sent /\ ours[s] = "idle"
          \/ r.responded /\ ours[s] = "ended"
    BY <2>3, <2>4 DEF StreamStage, Tracked, Fresh
  <2> HIDE DEF r
  <2>6. CASE UNCHANGED <<streams, ours>>
    <3>1. StreamStage(s)' BY <2>3, <2>4, <2>6 DEF StreamStage
    <3>2. Room \/ s \in Tracked \/ streams'[s].mode = "none" BY <2>6 DEF Tracked
    <3> QED BY <2>4, <2>6, <3>1, <3>2, OneStream
  <2>7. CASE ~UNCHANGED <<streams, ours>>
    <3>1. /\ Room \/ s \in Tracked
          /\ streams'[s].mode = r.mode
          /\ \A z \in Streams \ {s} : streams'[z] = streams[z] /\ ours'[z] = ours[z]
      BY <2>1, <2>2, <2>7, Responds DEF Drops
    <3>2. ASSUME r.mode = "unary", theirs'[s] # "amiss"
          PROVE  streams'[s].responded = TRUE /\ ours'[s] = "ended"
      <4>1. Trailers(Data(Headers("idle"))) = "ended" BY DEF Trailers, Data, Headers
      <4>2. /\ [r EXCEPT !.responded = TRUE].responded = TRUE
            /\ [r EXCEPT !.responded = TRUE, !.headers_sent = TRUE].responded = TRUE
            /\ r.responded => r.responded = TRUE
        BY <2>2 DEF Record
      <4>3. CASE RespondUnaryError(s, r) /\ ~r.responded
        <5>1. Trailers(Opened(r, ours[s])) = "ended"
          BY <2>5, <3>2, <4>3 DEF Trailers, Headers, Opened
        <5>2. streams'[s] = [r EXCEPT !.responded = TRUE, !.headers_sent = TRUE]
              /\ ours'[s] = Trailers(Opened(r, ours[s]))
          BY <2>2, <4>3, Responds
        <5> QED BY <4>2, <5>1, <5>2
      <4>4. CASE RespondUnary(s, r) /\ ~r.responded
        BY <2>2, <2>5, <3>2, <4>1, <4>2, <4>4, Responds
      <4>5. CASE NoResponse(s, r) /\ r.responded
        BY <2>2, <2>5, <3>2, <4>2, <4>5, Responds
      <4> QED BY <2>1, <2>7, <3>2, <4>3, <4>4, <4>5
    <3>3. StreamStage(s)' BY <2>2, <2>4, <3>1, <3>2 DEF StreamStage
    <3> QED BY <2>4, <3>1, <3>3, OneStream
  <2> QED BY <2>6, <2>7
<1> QED BY <1>1, <1>2, <1>3, <1>4, <1>5 DEF Frame

\* What a step of the runner does to the connection that is replayed
LEMMA ReplaySteps == ASSUME [Next]_vars PROVE UNCHANGED replay \/ Waits \/ Frame \/ Forget
  BY DEF Waits, Next, vars, Sink, Specimen, Threads, Connect, GoesQuiet, ReplayFrame, ReplayLeaves, LeavesLoop,
     Accept, Register, AcceptEnds, Handle, Detect, Handshake, Read, ReplayLoops, ReplayIdles,
     EmitReport, EmitMain, RecordYara, Holder, WriteLine, CountEvent, WriteFinding, CountFinding,
     AbsorbFinding, WriteTooLate, WriteFails, Thrown, holding, others, Execute, SetupEnds, TraceEnds,
     TeardownEnds, Stop, StopSets, StopCloses, StopSnapshots, Join, PostEnds, TakeCounts, TakeVerdict,
     WriteMeta, MetaFails, CloseStore, Exit

LEMMA SinkTypes == Threading /\ NetSinkTypeOK /\ [Next]_vars => NetSinkTypeOK'
<1> SUFFICES ASSUME Threading, NetSinkTypeOK, [Next]_vars PROVE NetSinkTypeOK' OBVIOUS
<1>1. Threading' BY StepThreading
<1>2. /\ hs' \in [Conns -> {"none", "queued", "held", "over"} \cup Handled]
      /\ acc' \in [Acceptors -> {"wait", "ended"} \cup Conns]
      /\ sinkstop' \in {"no", "set", "closed"}
  BY <1>1 DEF Threading, SessionTypeOK
<1>3. UNCHANGED replay \/ Waits \/ Frame \/ Forget BY ReplaySteps
<1>4. ReplayTypeOK'
  <2>1. CASE UNCHANGED replay
    BY <2>1 DEF NetSinkTypeOK, ReplayTypeOK, replay, halves, InPreface, InFrames
  <2> QED BY <1>3, <2>1, ReplayTypes DEF NetSinkTypeOK
<1>5. quiet' \subseteq Conns /\ handlers' \subseteq Conns /\ joined' \subseteq Conns
  BY DEF NetSinkTypeOK, Alive, Next, vars, netsink, Sink, session, Specimen, Threads, Connect, GoesQuiet,
     ReplayFrame, handling, ReplayLeaves, LeavesLoop,
     Accept, Register, AcceptEnds, Handle, Detect, Handshake, Read, ReplayLoops, ReplayIdles,
     EmitReport, EmitMain, RecordYara, Holder, WriteLine, CountEvent, WriteFinding, CountFinding,
     AbsorbFinding, WriteTooLate, WriteFails, Thrown, holding, others, Execute, SetupEnds, TraceEnds,
     TeardownEnds, Stop, StopSets, StopCloses, StopSnapshots, Join, PostEnds, TakeCounts, TakeVerdict,
     WriteMeta, MetaFails, CloseStore, Exit
<1> QED BY <1>2, <1>4, <1>5 DEF NetSinkTypeOK

\* The variables of sink and replay keep their types.
THEOREM SinkTypeCorrect == Spec => []NetSinkTypeOK
<1>1. Init => NetSinkTypeOK
  <2> SUFFICES ASSUME Init PROVE NetSinkTypeOK OBVIOUS
  <2>1. ReplayTypeOK
    BY DEF Init, NetSinkInit, ReplayInit, ReplayTypeOK, Record, Fresh, InPreface
  <2> QED BY <2>1, InitThreading DEF Threading, SessionTypeOK, Init, NetSinkInit, NetSinkTypeOK
<1>2. Threading /\ NetSinkTypeOK /\ [Next]_vars => NetSinkTypeOK' BY SinkTypes
<1> QED BY <1>1, <1>2, ThreadingHolds, PTL DEF Spec

LEMMA FramingHolds == Spec => []Framing
<1>1. Init => Framing
  <2> SUFFICES ASSUME Init PROVE Framing OBVIOUS
  <2>1. Tracked = {} BY DEF Init, NetSinkInit, ReplayInit, Tracked, Fresh
  <2>2. Bounded BY <2>1, FS_EmptySet, StreamsAssumption DEF Bounded
  <2>3. \A s \in Streams : StreamStage(s) BY DEF Init, NetSinkInit, ReplayInit, StreamStage, Fresh
  <2> QED BY <2>2, <2>3 DEF Framing
<1>2. ReplayTypeOK /\ Framing /\ [Next]_vars => Framing'
  <2>1. Framing /\ UNCHANGED replay => Framing' BY DEF replay, halves, Framing, StreamStage, Bounded, Tracked
  <2> QED BY <2>1, ReplaySteps, ReplayFraming
<1>3. NetSinkTypeOK => ReplayTypeOK BY DEF NetSinkTypeOK
<1> QED BY <1>1, <1>2, <1>3, SinkTypeCorrect, PTL DEF Spec

\* On a call that the sink takes for a unary one it sends one response and nothing
\* after it, as long as the client keeps to the protocol on that stream, whatever
\* it does on others and however its frames are read (respond_unary,
\* respond_unary_error).
THEOREM UnaryFramingHolds == Spec => []UnaryFraming
<1>1. Framing => UnaryFraming BY DEF Framing, StreamStage, UnaryFraming
<1> QED BY <1>1, FramingHolds, PTL

\* Whatever streams the client opens, the loop never has records of more than
\* _H2_MAX_STREAMS of them.
THEOREM StreamsBounded == Spec => [](Cardinality(Tracked) <= MaxStreams)
<1>1. Framing => Cardinality(Tracked) <= MaxStreams BY DEF Framing, Bounded
<1> QED BY <1>1, FramingHolds, PTL

-----------------------------------------------------------------------------
(* What is found has its evidence, and is found once.                      *)

LEMMA AppendFound ==
  ASSUME NEW S, NEW q \in Seq(S), NEW f \in S
  PROVE  /\ {Append(q, f)[i] : i \in DOMAIN Append(q, f)} = {q[i] : i \in DOMAIN q} \cup {f}
         /\ DOMAIN Append(q, f) = DOMAIN q \cup {Len(q) + 1}
         /\ \A i \in DOMAIN q : Append(q, f)[i] = q[i]
         /\ Append(q, f)[Len(q) + 1] = f
<1>1. DOMAIN Append(q, f) = 1..(Len(q) + 1) /\ DOMAIN q = 1..Len(q) /\ Len(q) \in Nat OBVIOUS
<1>2. \A i \in DOMAIN q : Append(q, f)[i] = q[i] OBVIOUS
<1>3. Append(q, f)[Len(q) + 1] = f OBVIOUS
<1>4. DOMAIN Append(q, f) = DOMAIN q \cup {Len(q) + 1} BY <1>1
<1> QED BY <1>1, <1>2, <1>3, <1>4

\* Of the holder's plans nothing is left that was not planned, or yara's.
LEMMA PlansShrink ==
  ASSUME Reported, UNCHANGED <<told, found>>, em'.at # "row" \/ em' = em,
         (seen' = seen /\ em'.todo \subseteq em.todo \cup {Yara})
           \/ (seen \subseteq seen' /\ em'.todo = {})
  PROVE  Reported'
<1>0. Evidence /\ Remembered /\ OneReport /\ Found' = Found BY DEF Reported, Found
<1>1. Evidence' BY <1>0 DEF Evidence
<1>2. Remembered' BY <1>0 DEF Remembered
<1>3. OneReport' BY <1>0 DEF OneReport
<1> QED BY <1>1, <1>2, <1>3 DEF Reported

LEMMA InitReported == Init => Reported
BY DEF Init, Reported, Evidence, Remembered, OneReport, Found, Free

\* A line, a row, a finding.
LEMMA WriteReported ==
  Threading /\ Reported /\ (WriteLine \/ CountEvent \/ WriteFinding) => Reported'
<1> SUFFICES ASSUME Threading, Reported, WriteLine \/ CountEvent \/ WriteFinding PROVE Reported'
  OBVIOUS
<1>0. SessionTypeOK /\ Locked /\ Evidence /\ Remembered /\ OneReport /\ em \in EmType
  BY DEF Threading, Reported, SessionTypeOK, EmType
<1>1. CASE WriteLine
  <2>1. em'.at = "row" /\ em'.ev = em.ev /\ em'.todo = em.todo /\ UNCHANGED <<found, seen>>
        /\ told' = IF Findings(em.ev) = {} THEN told ELSE told \cup {em.ev}
    BY <1>0, <1>1 DEF WriteLine, memory, EmType
  <2>2. Found' = Found BY <2>1 DEF Found
  <2>3. Evidence' BY <1>0, <2>1, <2>2 DEF Evidence
  <2> QED BY <1>0, <2>1, <2>2, <2>3 DEF Reported, Remembered, OneReport
<1>2. CASE CountEvent
  <2> DEFINE todo == Feed(em.ev, seen)
  <2>1. UNCHANGED <<told, found, seen>> /\ Proceeds(todo) /\ em.at = "row" /\ Found' = Found
    BY <1>2 DEF CountEvent, log, Found
  <2>2. em'.todo \subseteq todo /\ em'.at # "row"
    BY <1>0, <2>1, ProceedsTodo
  <2>3. todo \subseteq Findings(em.ev) /\ todo \cap seen = {} BY DEF Feed
  <2>4. Evidence' BY <1>0, <2>1, <2>2, <2>3 DEF Evidence
  <2>5. Remembered' BY <1>0, <2>1, <2>2, <2>3 DEF Remembered
  <2> QED BY <1>0, <2>1, <2>4, <2>5 DEF Reported, OneReport
<1>3. CASE WriteFinding
  <2> PICK f \in em.todo : /\ em' = [em EXCEPT !.at = "count", !.now = f, !.todo = @ \ {f}]
                           /\ seen' = seen \cup {f} /\ found' = Append(found, f)
    BY <1>3 DEF WriteFinding
  <2>1. em'.todo = em.todo \ {f} /\ em'.at = "count" /\ f \in Every /\ told' = told
        /\ found \in Seq(Every)
    BY <1>0, <1>3 DEF EmType, WriteFinding, SessionTypeOK
  <2>2. Found' = Found \cup {f} BY <2>1, AppendFound DEF Found
  <2>3. Evidence' BY <1>0, <2>1, <2>2 DEF Evidence
  <2>4. Remembered' BY <1>0, <2>1, <2>2 DEF Remembered
  <2>5. \A i \in DOMAIN found : found[i] = f => f = Yara
    BY <1>0 DEF Remembered, Found
  <2>6. OneReport'
    <3>1. /\ DOMAIN found' = DOMAIN found \cup {Len(found) + 1}
          /\ \A i \in DOMAIN found : found'[i] = found[i]
          /\ found'[Len(found) + 1] = f
      BY <2>1, AppendFound
    <3> QED BY <1>0, <2>5, <3>1 DEF OneReport
  <2> QED BY <2>3, <2>4, <2>6 DEF Reported
<1> QED BY <1>1, <1>2, <1>3

\* The other steps plan nothing new.
LEMMA OtherReported ==
  Threading /\ Reported /\ [Next]_vars /\ ~(WriteLine \/ CountEvent \/ WriteFinding) => Reported'
<1> SUFFICES ASSUME Threading, Reported, [Next]_vars, ~(WriteLine \/ CountEvent \/ WriteFinding)
             PROVE Reported'
  OBVIOUS
<1>0. em \in EmType BY DEF Threading, SessionTypeOK, EmType
<1>1. CASE \E c \in Conns : EmitReport(c)
  BY <1>1, PlansShrink DEF EmitReport, Takes, Free, log, memory
<1>2. CASE EmitMain
  BY <1>2, PlansShrink DEF EmitMain, Takes, Free, log, memory
<1>3. CASE RecordYara
  BY <1>3, PlansShrink DEF RecordYara, Free, log, memory
<1>4. CASE CountFinding
  <2>1. em'.at = "absorb" /\ em'.todo = em.todo BY <1>0, <1>4 DEF CountFinding, EmType
  <2> QED BY <1>4, <2>1, PlansShrink DEF CountFinding, log
<1>5. CASE AbsorbFinding
  <2>1. em'.at # "row" /\ em'.todo \subseteq em.todo
    BY <1>0, <1>5, ProceedsTodo DEF AbsorbFinding
  <2> QED BY <1>5, <2>1, PlansShrink DEF AbsorbFinding, log
<1>6. CASE WriteFails \/ WriteTooLate
  <2>1. Thrown BY <1>6 DEF WriteFails, WriteTooLate
  <2>2. em' = Free BY <2>1 DEF Thrown, Proceeds
  <2>3. em'.at # "row" /\ em'.todo = {} BY <2>2 DEF Free
  <2>4. seen \subseteq seen' BY <2>1 DEF Thrown
  <2> QED BY <2>1, <2>3, <2>4, PlansShrink DEF Thrown, log
<1>7. CASE Exit
  <2>1. em'.at # "row" /\ em'.todo = {} BY <1>7 DEF Exit, Free
  <2> QED BY <1>7, <2>1, PlansShrink DEF Exit, log, memory
<1>8. CASE UNCHANGED <<em, told, found, seen>>
  BY <1>8, PlansShrink
<1>9. CASE Sink \/ UNCHANGED vars
  BY <1>8, <1>9 DEF Sink, vars, session, log, memory
<1>10. CASE SetupEnds \/ TraceEnds \/ TeardownEnds \/ Stop \/ Join \/ PostEnds \/ TakeCounts
              \/ TakeVerdict \/ WriteMeta \/ CloseStore \/ MetaFails
  BY <1>8, <1>10 DEF SetupEnds, TraceEnds, TeardownEnds, Stop, Join, PostEnds, TakeCounts,
     TakeVerdict, WriteMeta, CloseStore, MetaFails, others, log, memory
<1> QED BY <1>1, <1>2, <1>3, <1>4, <1>5, <1>6, <1>7, <1>9, <1>10 DEF Next, Holder, Execute

LEMMA StepReported == Threading /\ Reported /\ [Next]_vars => Reported'
BY WriteReported, OtherReported

\* No finding is reported twice, whatever threads meet it, whether its first report
\* was recorded or broken off (_seen).
THEOREM OneReportHolds == Spec => []OneReport
<1>1. Init => Reported BY InitReported
<1>2. Threading /\ Reported /\ [Next]_vars => Reported' BY StepReported
<1>3. Reported => OneReport BY DEF Reported
<1> QED BY <1>1, <1>2, <1>3, ThreadingHolds, PTL DEF Spec
-----------------------------------------------------------------------------
(* The result says no more than the log.                                   *)

LEMMA NoMoreTransitive ==
  ASSUME NEW u \in VerdictType, NEW v \in VerdictType, NEW F, NEW G, F \subseteq G,
         NoMore(u, VerdictOf(F))
  PROVE  NoMore(u, VerdictOf(G))
<1>1. NoMore(VerdictOf(F), VerdictOf(G)) BY VerdictGrows
<1>2. u.severity \in 0..4 BY DEF VerdictType
<1>3. VerdictOf(F).severity \in 0..4 /\ VerdictOf(G).severity \in 0..4 BY VerdictTops
<1> QED BY <1>1, <1>2, <1>3 DEF NoMore

\* A finding of the set adds nothing to its verdict.
LEMMA AbsorbFound ==
  ASSUME NEW v \in VerdictType, NEW F, NEW f \in F, NoMore(v, VerdictOf(F))
  PROVE  NoMore(Absorb(v, f), VerdictOf(F))
<1>1. Severity(f) <= VerdictOf(F).severity BY VerdictTops DEF Tops
<1>2. Flag(f.id) \in VerdictOf(F).flags BY DEF VerdictOf
<1> QED BY <1>1, <1>2 DEF NoMore, Absorb

\* The accounts hold after a step that only takes from what is yet to be counted.
LEMMA AccountsKept ==
  ASSUME SessionTypeOK, Accounted, UNCHANGED <<log, counts, verdict, result>>,
         em' = em \/ em'.at \notin {"row", "count", "absorb"}
  PROVE  Accounted'
<1>1. Found' = Found BY DEF Found, log
<1>2. Within(taken)' /\ Within(meta)' BY <1>1 DEF Accounted, Within, log, result
<1>3. CASE em' = em BY <1>1, <1>2, <1>3 DEF Accounted, Uncounted, Unfound, log
<1>4. CASE em'.at \notin {"row", "count", "absorb"}
  <2>1. Uncounted' = 0 /\ Unfound' = 0 BY <1>4 DEF Uncounted, Unfound
  <2>2. counts'.events + Uncounted' <= lines' /\ counts'.detections + Unfound' <= Len(found')
    BY <2>1 DEF Accounted, Uncounted, Unfound, log, SessionTypeOK, CountType
  <2> QED BY <1>1, <1>2, <1>4, <2>2 DEF Accounted
<1> QED BY <1>3, <1>4
LEMMA InitAccounted == Init => Accounted
<1> SUFFICES ASSUME Init PROVE Accounted OBVIOUS
<1>1. Found = {} BY DEF Init, Found
<1>2. NoMore(NoVerdict, VerdictOf(Found)) BY <1>1, VerdictNone DEF NoMore, NoVerdict
<1>3. Len(found) = 0 /\ lines = 0 BY DEF Init
<1>4. NoCounts.events = 0 /\ NoCounts.detections = 0 BY DEF NoCounts
<1>5. Within(NoResult) BY <1>2, <1>3, <1>4 DEF Within, NoResult
<1>6. Uncounted = 0 /\ Unfound = 0 /\ em.at = "free" BY DEF Init, Free, Uncounted, Unfound
<1> QED BY <1>2, <1>3, <1>4, <1>5, <1>6 DEF Init, Accounted

\* What was within the log is within a longer one.
LEMMA WithinGrows ==
  ASSUME Within(taken), Within(meta), UNCHANGED result, SessionTypeOK, lines' \in Nat,
         found' \in Seq(Every), lines <= lines', Len(found) <= Len(found'), Found \subseteq Found'
  PROVE  Within(taken)' /\ Within(meta)'
<1>1. ASSUME NEW r \in ResultType, Within(r)
      PROVE  /\ r.counts.events <= lines' /\ r.counts.detections <= Len(found')
             /\ NoMore(r.verdict, VerdictOf(Found'))
  <2>1. NoMore(r.verdict, VerdictOf(Found'))
    BY <1>1, NoMoreTransitive DEF Within, ResultType
  <2>2. r.counts.events \in Nat /\ r.counts.detections \in Nat
        /\ Len(found) \in Nat /\ Len(found') \in Nat /\ lines \in Nat
    BY DEF ResultType, CountType, SessionTypeOK
  <2> QED BY <1>1, <2>1, <2>2 DEF Within
<1> QED BY <1>1 DEF Within, result, SessionTypeOK

\* The line of an event and its count.
LEMMA EventAccounted ==
  Threading /\ Accounted /\ (WriteLine \/ CountEvent) => Accounted'
<1> SUFFICES ASSUME Threading, Accounted, WriteLine \/ CountEvent PROVE Accounted'
  OBVIOUS
<1>0. SessionTypeOK /\ em \in EmType BY DEF Threading, SessionTypeOK, EmType
<1>1. CASE WriteLine
  <2>1. em.at = "event" /\ em'.at = "row" /\ lines' = lines + 1 /\ UNCHANGED <<found, counts, verdict, result>>
    BY <1>0, <1>1 DEF WriteLine, EmType, memory, holding, main
  <2>2. Found' = Found BY <2>1 DEF Found
  <2>3. Within(taken)' /\ Within(meta)'
    BY <1>0, <2>1, <2>2, WithinGrows DEF Accounted, SessionTypeOK
  <2>4. Uncounted = 0 /\ Uncounted' = 1 /\ Unfound = 0 /\ Unfound' = 0
    BY <2>1 DEF Uncounted, Unfound
  <2>5. counts'.events + Uncounted' <= lines' /\ counts'.detections + Unfound' <= Len(found')
    BY <1>0, <2>1, <2>4 DEF Accounted, SessionTypeOK, CountType
  <2> QED BY <2>1, <2>2, <2>3, <2>5 DEF Accounted
<1>2. CASE CountEvent
  <2>1. /\ em.at = "row" /\ em'.at \in {"free", "finding"} /\ UNCHANGED <<log, verdict, result>>
        /\ counts'.events = counts.events + 1 /\ counts'.detections = counts.detections
    BY <1>0, <1>2, ProceedsTodo DEF CountEvent, holding, main, SessionTypeOK, CountType
  <2>2. Found' = Found BY <2>1 DEF Found, log
  <2>3. Within(taken)' /\ Within(meta)' BY <2>1, <2>2 DEF Accounted, Within, log, result
  <2>4. Uncounted = 1 /\ Uncounted' = 0 /\ Unfound = 0 /\ Unfound' = 0
    BY <2>1 DEF Uncounted, Unfound
  <2>5. counts'.events + Uncounted' <= lines' /\ counts'.detections + Unfound' <= Len(found')
    BY <1>0, <2>1, <2>4 DEF Accounted, SessionTypeOK, CountType, log
  <2> QED BY <2>1, <2>2, <2>3, <2>5 DEF Accounted
<1> QED BY <1>1, <1>2

\* The line of a finding, its count, and what it does to the verdict.
LEMMA FindingAccounted ==
  Threading /\ Accounted /\ (WriteFinding \/ CountFinding \/ AbsorbFinding) => Accounted'
<1> SUFFICES ASSUME Threading, Accounted, WriteFinding \/ CountFinding \/ AbsorbFinding
             PROVE Accounted'
  OBVIOUS
<1>0. SessionTypeOK /\ em \in EmType BY DEF Threading, SessionTypeOK, EmType
<1>1. CASE WriteFinding
  <2> PICK f \in em.todo : /\ em' = [em EXCEPT !.at = "count", !.now = f, !.todo = @ \ {f}]
                           /\ found' = Append(found, f)
    BY <1>1 DEF WriteFinding
  <2>1. /\ em.at = "finding" /\ em'.at = "count" /\ em'.now = f /\ f \in Every
        /\ lines' = lines + 1 /\ found \in Seq(Every)
        /\ UNCHANGED <<counts, verdict, result>>
    BY <1>0, <1>1 DEF EmType, WriteFinding, SessionTypeOK, holding, main
  <2>2. Found' = Found \cup {f} BY <2>1, AppendFound DEF Found
  <2>3. found' \in Seq(Every) /\ Len(found') = Len(found) + 1 BY <2>1
  <2>4. Within(taken)' /\ Within(meta)'
    BY <1>0, <2>1, <2>2, <2>3, WithinGrows DEF Accounted, SessionTypeOK
  <2>5. NoMore(verdict, VerdictOf(Found'))
    BY <1>0, <2>2, NoMoreTransitive DEF Accounted, SessionTypeOK
  <2>6. Uncounted = 0 /\ Uncounted' = 1 /\ Unfound = 0 /\ Unfound' = 1
    BY <2>1 DEF Uncounted, Unfound
  <2>7. counts'.events + Uncounted' <= lines' /\ counts'.detections + Unfound' <= Len(found')
    BY <1>0, <2>1, <2>3, <2>6 DEF Accounted, SessionTypeOK, CountType
  <2> QED BY <2>1, <2>2, <2>4, <2>5, <2>7 DEF Accounted
<1>2. CASE CountFinding
  <2>1. /\ em.at = "count" /\ em'.at = "absorb" /\ em'.now = em.now
        /\ UNCHANGED <<log, verdict, result>>
        /\ counts'.events = counts.events + 1 /\ counts'.detections = counts.detections + 1
    BY <1>0, <1>2 DEF CountFinding, EmType, holding, main
  <2>2. Found' = Found BY <2>1 DEF Found, log
  <2>3. Within(taken)' /\ Within(meta)' BY <2>1, <2>2 DEF Accounted, Within, log, result
  <2>4. Uncounted = 1 /\ Uncounted' = 0 /\ Unfound = 1 /\ Unfound' = 0
    BY <2>1 DEF Uncounted, Unfound
  <2>5. counts'.events + Uncounted' <= lines' /\ counts'.detections + Unfound' <= Len(found')
    BY <1>0, <2>1, <2>4 DEF Accounted, SessionTypeOK, CountType, log
  <2> QED BY <2>1, <2>2, <2>3, <2>5 DEF Accounted
<1>3. CASE AbsorbFinding
  <2>1. /\ em.at = "absorb" /\ em'.at \in {"free", "finding"} /\ UNCHANGED <<log, counts, result>>
        /\ verdict' = Absorb(verdict, em.now)
    BY <1>0, <1>3, ProceedsTodo DEF AbsorbFinding, holding, main
  <2>2. Found' = Found BY <2>1 DEF Found, log
  <2>3. Within(taken)' /\ Within(meta)' BY <2>1, <2>2 DEF Accounted, Within, log, result
  <2>4. NoMore(verdict', VerdictOf(Found'))
    BY <1>0, <2>1, <2>2, AbsorbFound DEF Accounted, SessionTypeOK
  <2>5. Uncounted = 0 /\ Uncounted' = 0 /\ Unfound = 0 /\ Unfound' = 0
    BY <2>1 DEF Uncounted, Unfound
  <2> QED BY <2>1, <2>2, <2>3, <2>4, <2>5 DEF Accounted, log
<1> QED BY <1>1, <1>2, <1>3

\* finalize takes what there is.
LEMMA FinalizeAccounted ==
  Threading /\ Accounted /\ (TakeCounts \/ TakeVerdict \/ WriteMeta) => Accounted'
<1> SUFFICES ASSUME Threading, Accounted, TakeCounts \/ TakeVerdict \/ WriteMeta PROVE Accounted'
  OBVIOUS
<1>0. SessionTypeOK BY DEF Threading
<1>1. UNCHANGED <<em, log, memory>> /\ Found' = Found
  BY DEF TakeCounts, TakeVerdict, WriteMeta, others, log, Found
<1>2. counts.events <= lines /\ counts.detections <= Len(found)
  BY <1>0 DEF Accounted, SessionTypeOK, CountType, Uncounted, Unfound
<1>3. Within(taken)' /\ Within(meta)'
  <2>1. CASE TakeCounts
    <3>1. /\ taken'.counts = counts /\ taken'.verdict = taken.verdict /\ meta' = meta
      BY <1>0, <2>1 DEF TakeCounts, SessionTypeOK, ResultType
    <3> QED BY <1>1, <1>2, <3>1 DEF Accounted, Within, log
  <2>2. CASE TakeVerdict
    <3>1. /\ taken'.counts = taken.counts /\ taken'.verdict = verdict /\ meta' = meta
      BY <1>0, <2>2 DEF TakeVerdict, SessionTypeOK, ResultType
    <3> QED BY <1>1, <3>1 DEF Accounted, Within, log
  <2>3. CASE WriteMeta BY <1>1, <2>3 DEF WriteMeta, Accounted, Within, log
  <2> QED BY <2>1, <2>2, <2>3
<1> QED BY <1>1, <1>3 DEF Accounted, Uncounted, Unfound, log, memory

\* The other steps account for nothing.
LEMMA OtherAccounted ==
  ASSUME Threading, Accounted, [Next]_vars,
         ~(WriteLine \/ CountEvent \/ WriteFinding \/ CountFinding \/ AbsorbFinding),
         ~(TakeCounts \/ TakeVerdict \/ WriteMeta)
  PROVE  Accounted'
<1>0. SessionTypeOK BY DEF Threading
<1>1. CASE \E c \in Conns : EmitReport(c)
  BY <1>0, <1>1, AccountsKept DEF EmitReport, Takes, Free, memory, main
<1>2. CASE EmitMain
  BY <1>0, <1>2, AccountsKept DEF EmitMain, Takes, Free, memory, main
<1>3. CASE RecordYara
  BY <1>0, <1>3, AccountsKept DEF RecordYara, Free, memory, main
<1>4. CASE WriteFails \/ WriteTooLate
  <2>1. Thrown BY <1>4 DEF WriteFails, WriteTooLate
  <2>2. em' = Free BY <2>1 DEF Thrown, Proceeds
  <2> QED BY <1>0, <2>1, <2>2, AccountsKept DEF Thrown, Free
<1>5. CASE Exit
  BY <1>0, <1>5, AccountsKept DEF Exit, Free, memory
<1>6. CASE Sink \/ UNCHANGED vars
  BY <1>0, <1>6, AccountsKept DEF Sink, vars, session, memory, main
<1>7. CASE SetupEnds \/ TraceEnds \/ TeardownEnds \/ Stop \/ Join \/ PostEnds
              \/ CloseStore \/ MetaFails
  BY <1>0, <1>7, AccountsKept DEF SetupEnds, TraceEnds, TeardownEnds, Stop, Join, PostEnds,
     CloseStore, MetaFails, others, memory, result
<1> QED BY <1>1, <1>2, <1>3, <1>4, <1>5, <1>6, <1>7 DEF Next, Holder, Execute

LEMMA StepAccounted == Threading /\ Accounted /\ [Next]_vars => Accounted'
BY EventAccounted, FindingAccounted, FinalizeAccounted, OtherAccounted

\* What meta.json says is in events.jsonl, whatever threads were left behind and
\* whatever was not written.
THEOREM TruthfulHolds == Spec => []Truthful
<1>1. Init => Reported /\ Accounted BY InitReported, InitAccounted
<1>2. Threading /\ (Reported /\ Accounted) /\ [Next]_vars => (Reported /\ Accounted)'
  BY StepReported, StepAccounted
<1>3. Reported /\ Accounted => Truthful
  BY DEF Reported, Accounted, Evidence, Within, NoMore, Truthful
<1> QED BY <1>1, <1>2, <1>3, ThreadingHolds, PTL DEF Spec
-----------------------------------------------------------------------------
(* The result is all of the log when nothing is lost.                      *)

Recording == pc \in {"setup", "trace", "teardown", "post"}

\* When stop has left no thread behind, only the main thread's own recording can
\* hold the lock.
LEMMA Quieted ==
  ASSUME Threading, drained, ~Recording
  PROVE  em.at = "free" /\ em.todo = {} /\ \A c \in Conns : hs[c] \notin Reporting
<1>1. SessionTypeOK /\ Locked /\ Living BY DEF Threading
<1>2. \A c \in Conns : hs[c] \notin Reporting BY <1>1 DEF Living, Alive, Handled
<1>3. em.who = "nobody" BY <1>1, <1>2 DEF Locked, Recording, SessionTypeOK
<1> QED BY <1>1, <1>2, <1>3 DEF Locked

\* So nothing is recorded any more.
LEMMA QuietStep ==
  ASSUME Threading, drained, ~Recording, [Next]_vars
  PROVE  UNCHANGED <<log, memory>> /\ em'.at = "free" /\ em'.todo = {}
<1>0. em.at = "free" /\ em.todo = {} /\ \A c \in Conns : hs[c] \notin Reporting BY Quieted
<1>1. ~(\E c \in Conns : EmitReport(c)) /\ ~EmitMain /\ ~RecordYara /\ ~Holder /\ ~WriteFails
  BY <1>0 DEF EmitReport, EmitMain, RecordYara, Recording, Holder, WriteLine, CountEvent,
              WriteFinding, CountFinding, AbsorbFinding, WriteTooLate, WriteFails
<1>2. CASE Exit BY <1>2 DEF Exit, Free
<1>3. CASE Sink \/ UNCHANGED vars BY <1>0, <1>3 DEF Sink, vars, session
<1>4. CASE SetupEnds \/ TraceEnds \/ TeardownEnds \/ Stop \/ Join \/ PostEnds \/ TakeCounts
              \/ TakeVerdict \/ WriteMeta \/ CloseStore \/ MetaFails
  BY <1>0, <1>4 DEF SetupEnds, TraceEnds, TeardownEnds, Stop, Join, PostEnds, TakeCounts,
     TakeVerdict, WriteMeta, CloseStore, MetaFails, others
<1> QED BY <1>1, <1>2, <1>3, <1>4 DEF Next, Execute

\* No write is taken back, a closed store is not opened, and stop is called once.
LEMMA Onwards ==
  ASSUME Threading, [Next]_vars
  PROVE  /\ faults' = 0 => faults = 0
         /\ pc \in {"closed", "exit"} => pc' \in {"closed", "exit"}
         /\ pc' \in {"closed", "exit"} => drained' = drained
         /\ drained' = drained \/ pc' \in {"failed", "post"}
<1>0. SessionTypeOK /\ Locked BY DEF Threading
<1>1. CASE Holder \/ WriteFails
  <2>1. UNCHANGED drained BY <1>1 DEF Holder, WriteLine, CountEvent, WriteFinding, CountFinding,
          AbsorbFinding, WriteTooLate, WriteFails, Thrown, holding, main
  <2>2. pc' = pc \/ (em.who = "main" /\ pc' \in {"teardown", "failed"})
    BY <1>1 DEF Holder, WriteLine, CountEvent, WriteFinding, CountFinding,
          AbsorbFinding, WriteTooLate, WriteFails, Thrown, Raises, holding, main
  <2>3. faults' = faults \/ faults' = faults + 1
    BY <1>1 DEF Holder, WriteLine, CountEvent, WriteFinding, CountFinding,
          AbsorbFinding, WriteTooLate, WriteFails, holding
  <2> QED BY <1>0, <2>1, <2>2, <2>3 DEF SessionTypeOK, Locked
<1>2. CASE Sink \/ UNCHANGED vars \/ (\E c \in Conns : EmitReport(c)) \/ EmitMain \/ RecordYara
  BY <1>2 DEF Sink, EmitReport, EmitMain, RecordYara, vars, session, main
<1>3. CASE SetupEnds \/ TraceEnds \/ TeardownEnds \/ Stop \/ Join \/ PostEnds \/ TakeCounts
              \/ TakeVerdict \/ WriteMeta \/ CloseStore \/ MetaFails \/ Exit
  BY <1>0, <1>3 DEF SetupEnds, TraceEnds, TeardownEnds, Stop, Join, PostEnds, TakeCounts,
     TakeVerdict, WriteMeta, CloseStore, MetaFails, Exit, others, SessionTypeOK
<1> QED BY <1>1, <1>2, <1>3 DEF Next, Execute

\* Nothing lost so far, and nobody left behind once the store is closed.
Unharmed == faults = 0 /\ (pc \in {"closed", "exit"} => drained)

Account ==
  /\ counts.events + Uncounted = lines
  /\ counts.detections + Unfound = Len(found)
  /\ VerdictOf(Found) = IF em.at \in {"count", "absorb"} THEN Absorb(verdict, em.now) ELSE verdict
  /\ seen \subseteq Found
  /\ \A e \in told : Findings(e) \subseteq Found \cup em.todo \/ (em.at = "row" /\ e = em.ev)

LEMMA ExactIs == Exact <=> (Unharmed => Account)
BY DEF Exact, Unharmed, Account

LEMMA UnharmedBefore == ASSUME Threading, [Next]_vars, Unharmed' PROVE Unharmed
BY Onwards DEF Unharmed

\* Steps that record nothing: the lock is as it was, or free before and only taken.
LEMMA AccountKept ==
  ASSUME Account, UNCHANGED <<log, memory>>,
         \/ em' = em
         \/ em.at = "free" /\ em.todo = {} /\ em'.at \in {"free", "event", "finding"}
  PROVE  Account'
<1>1. Found' = Found BY DEF Found, log
<1>2. Uncounted' = Uncounted /\ Unfound' = Unfound BY DEF Uncounted, Unfound
<1> QED BY <1>1, <1>2 DEF Account, log, memory

LEMMA EventExact ==
  ASSUME Threading, Reported, Account, WriteLine \/ CountEvent
  PROVE  Account'
<1>0. SessionTypeOK /\ Locked /\ em \in EmType BY DEF Threading, SessionTypeOK, EmType
<1>1. CASE WriteLine
  <2>1. /\ em.at = "event" /\ em'.at = "row" /\ em'.ev = em.ev /\ em'.todo = em.todo /\ em.todo = {}
        /\ lines' = lines + 1 /\ UNCHANGED <<found, memory>>
        /\ told' \subseteq told \cup {em.ev}
    BY <1>0, <1>1 DEF WriteLine, EmType, Locked
  <2>2. Found' = Found BY <2>1 DEF Found
  <2>3. Uncounted = 0 /\ Uncounted' = 1 /\ Unfound = 0 /\ Unfound' = 0
    BY <2>1 DEF Uncounted, Unfound
  <2>4. counts'.events + Uncounted' = lines' /\ counts'.detections + Unfound' = Len(found')
    BY <1>0, <2>1, <2>3 DEF Account, SessionTypeOK, CountType, memory
  <2>5. \A e \in told' : Findings(e) \subseteq Found' \cup em'.todo \/ (em'.at = "row" /\ e = em'.ev)
    BY <2>1, <2>2 DEF Account
  <2> QED BY <2>1, <2>2, <2>4, <2>5 DEF Account, memory
<1>2. CASE CountEvent
  <2>1. /\ em.at = "row" /\ em.todo = {} /\ em'.todo = Feed(em.ev, seen)
        /\ em'.at \in {"free", "finding"} /\ UNCHANGED <<log, seen, verdict>>
        /\ counts'.events = counts.events + 1 /\ counts'.detections = counts.detections
    BY <1>0, <1>2, ProceedsTodo DEF CountEvent, Locked, SessionTypeOK, CountType
  <2>2. Found' = Found BY <2>1 DEF Found, log
  <2>3. Uncounted = 1 /\ Uncounted' = 0 /\ Unfound = 0 /\ Unfound' = 0
    BY <2>1 DEF Uncounted, Unfound
  <2>4. counts'.events + Uncounted' = lines' /\ counts'.detections + Unfound' = Len(found')
    BY <1>0, <2>1, <2>3 DEF Account, SessionTypeOK, CountType, log
  <2>5. Findings(em.ev) \subseteq Found \cup em'.todo BY <2>1 DEF Account, Feed
  <2>6. \A e \in told' : Findings(e) \subseteq Found' \cup em'.todo
    BY <2>1, <2>2, <2>5 DEF Account, log
  <2> QED BY <2>1, <2>2, <2>4, <2>6 DEF Account, log
<1> QED BY <1>1, <1>2

LEMMA FindingExact ==
  ASSUME Threading, Account, WriteFinding \/ CountFinding \/ AbsorbFinding
  PROVE  Account'
<1>0. SessionTypeOK /\ em \in EmType BY DEF Threading, SessionTypeOK, EmType
<1>1. CASE WriteFinding
  <2> PICK f \in em.todo : /\ em' = [em EXCEPT !.at = "count", !.now = f, !.todo = @ \ {f}]
                           /\ seen' = seen \cup {f} /\ found' = Append(found, f)
    BY <1>1 DEF WriteFinding
  <2>1. /\ em.at = "finding" /\ em'.at = "count" /\ em'.now = f /\ em'.todo = em.todo \ {f}
        /\ f \in Every /\ lines' = lines + 1 /\ found \in Seq(Every)
        /\ UNCHANGED <<told, counts, verdict>>
    BY <1>0, <1>1 DEF EmType, WriteFinding, SessionTypeOK
  <2>2. Found' = Found \cup {f} BY <2>1, AppendFound DEF Found
  <2>3. Len(found') = Len(found) + 1 BY <2>1
  <2>4. Uncounted = 0 /\ Uncounted' = 1 /\ Unfound = 0 /\ Unfound' = 1
    BY <2>1 DEF Uncounted, Unfound
  <2>5. counts'.events + Uncounted' = lines' /\ counts'.detections + Unfound' = Len(found')
    BY <1>0, <2>1, <2>3, <2>4 DEF Account, SessionTypeOK, CountType
  <2>6. VerdictOf(Found) = verdict BY <2>1 DEF Account
  <2>7. VerdictOf(Found') = Absorb(verdict', em'.now) BY <2>1, <2>2, <2>6, AbsorbLemma
  <2>8. seen' \subseteq Found' BY <2>2 DEF Account
  <2>9. \A e \in told' : Findings(e) \subseteq Found' \cup em'.todo
    BY <2>1, <2>2 DEF Account
  <2> QED BY <2>1, <2>5, <2>7, <2>8, <2>9 DEF Account
<1>2. CASE CountFinding
  <2>1. /\ em.at = "count" /\ em'.at = "absorb" /\ em'.now = em.now /\ em'.todo = em.todo
        /\ UNCHANGED <<log, seen, verdict>>
        /\ counts'.events = counts.events + 1 /\ counts'.detections = counts.detections + 1
    BY <1>0, <1>2 DEF CountFinding, EmType
  <2>2. Found' = Found BY <2>1 DEF Found, log
  <2>3. Uncounted = 1 /\ Uncounted' = 0 /\ Unfound = 1 /\ Unfound' = 0
    BY <2>1 DEF Uncounted, Unfound
  <2>4. counts'.events + Uncounted' = lines' /\ counts'.detections + Unfound' = Len(found')
    BY <1>0, <2>1, <2>3 DEF Account, SessionTypeOK, CountType, log
  <2> QED BY <2>1, <2>2, <2>4 DEF Account, log
<1>3. CASE AbsorbFinding
  <2>1. /\ em.at = "absorb" /\ em'.at \in {"free", "finding"} /\ em'.todo = em.todo
        /\ UNCHANGED <<log, counts, seen>> /\ verdict' = Absorb(verdict, em.now)
    BY <1>0, <1>3, ProceedsTodo DEF AbsorbFinding
  <2>2. Found' = Found BY <2>1 DEF Found, log
  <2>3. Uncounted = 0 /\ Uncounted' = 0 /\ Unfound = 0 /\ Unfound' = 0
    BY <2>1 DEF Uncounted, Unfound
  <2> QED BY <2>1, <2>2, <2>3 DEF Account, log
<1> QED BY <1>1, <1>2, <1>3

LEMMA StepExact ==
  ASSUME Threading, Reported, Exact, [Next]_vars
  PROVE  Exact'
<1> SUFFICES ASSUME Unharmed' PROVE Account' BY PTL, ExactIs
<1>0. Unharmed /\ Account BY UnharmedBefore, ExactIs
<1>1. CASE WriteLine \/ CountEvent BY <1>0, <1>1, EventExact
<1>2. CASE WriteFinding \/ CountFinding \/ AbsorbFinding BY <1>0, <1>2, FindingExact
<1>3. ~(WriteFails \/ MetaFails)
  <2>1. faults' = 0 /\ faults = 0 BY <1>0 DEF Unharmed
  <2> QED BY <2>1 DEF WriteFails, MetaFails
<1>4. CASE WriteTooLate
  <2>1. drained /\ ~Recording BY <1>0, <1>4 DEF WriteTooLate, Closed, Unharmed, Recording
  <2>2. em.at = "free" BY <2>1, Quieted
  <2> QED BY <1>4, <2>2 DEF WriteTooLate
<1>5. CASE Exit
  <2>1. drained /\ ~Recording BY <1>5 DEF Exit, Unharmed, Recording
  <2>2. em.at = "free" /\ em.todo = {} BY <2>1, Quieted
  <2>3. em'.at = "free" /\ UNCHANGED <<log, memory>> BY <1>5 DEF Exit, Free
  <2> QED BY <1>0, <2>2, <2>3, AccountKept
<1>6. CASE (\E c \in Conns : EmitReport(c)) \/ EmitMain \/ RecordYara
  <2>1. em.at = "free" /\ em'.at \in {"event", "finding"} /\ UNCHANGED <<log, memory>>
    BY <1>6 DEF EmitReport, EmitMain, RecordYara, Takes, Free
  <2>2. em.todo = {} BY <2>1 DEF Threading, Locked
  <2> QED BY <1>0, <2>1, <2>2, AccountKept
<1>7. CASE Sink \/ UNCHANGED vars
  BY <1>0, <1>7, AccountKept DEF Sink, vars, session
<1>8. CASE SetupEnds \/ TraceEnds \/ TeardownEnds \/ Stop \/ Join \/ PostEnds \/ TakeCounts
              \/ TakeVerdict \/ WriteMeta \/ CloseStore
  BY <1>0, <1>8, AccountKept DEF SetupEnds, TraceEnds, TeardownEnds, Stop, Join, PostEnds,
     TakeCounts, TakeVerdict, WriteMeta, CloseStore, others
<1> QED BY <1>1, <1>2, <1>3, <1>4, <1>5, <1>6, <1>7, <1>8 DEF Next, Holder, Execute

\* What finalize has taken is what there still is.
LEMMA StepTaken ==
  ASSUME Threading, Taken, [Next]_vars
  PROVE  Taken'
<1>0. SessionTypeOK /\ Locked BY DEF Threading
<1>1. CASE TakeCounts
  BY <1>0, <1>1 DEF TakeCounts, others, memory, Taken, SessionTypeOK, ResultType
<1>2. CASE TakeVerdict
  BY <1>0, <1>2 DEF TakeVerdict, others, memory, Taken, SessionTypeOK, ResultType
<1>3. CASE WriteMeta
  BY <1>0, <1>3 DEF WriteMeta, Taken
<1>4. CASE CloseStore \/ Exit
  BY <1>4 DEF CloseStore, Exit, result, Taken
<1>5. ASSUME ~(TakeCounts \/ TakeVerdict \/ WriteMeta \/ CloseStore \/ Exit) PROVE Taken'
  <2>1. UNCHANGED result /\ (pc' = pc \/ (pc \notin {"close", "closed", "exit"} /\ pc' \notin {"verdict", "meta"}))
    BY <1>0, <1>5 DEF Next, Execute, Holder, Sink, EmitReport, EmitMain, RecordYara, WriteLine, CountEvent,
       WriteFinding, CountFinding, AbsorbFinding, WriteTooLate, WriteFails, Thrown, Raises, MetaFails,
       SetupEnds, TraceEnds, TeardownEnds, Stop, Join, PostEnds, holding, main, session, result, vars,
       Locked
  <2>2. drained' /\ pc' \in {"verdict", "meta"} => drained /\ pc = pc' /\ UNCHANGED memory
    BY <2>1, Onwards, QuietStep DEF Recording
  <2> QED BY <2>1, <2>2 DEF Taken, result, memory
<1> QED BY <1>1, <1>2, <1>3, <1>4, <1>5
LEMMA StepComplete ==
  ASSUME Threading, Exact, Taken, Complete, [Next]_vars
  PROVE  Complete'
<1> SUFFICES ASSUME meta'.status \in Terminal, drained', faults' = 0 PROVE Complete'
  BY DEF Complete
<1>1. faults = 0 BY Onwards
<1>2. CASE WriteMeta
  <2>1. /\ pc = "meta" /\ drained /\ meta' = taken /\ UNCHANGED <<log, memory>>
    BY <1>2 DEF WriteMeta, others
  <2>2. taken.counts = counts /\ taken.verdict = verdict BY <2>1 DEF Taken
  <2>3. em.at = "free" /\ em.todo = {} BY <2>1, Quieted DEF Recording
  <2>4. Account BY <1>1, <2>1, ExactIs DEF Unharmed
  <2>5. counts = [events |-> lines, detections |-> Len(found)]
    BY <2>3, <2>4 DEF Threading, SessionTypeOK, Account, Uncounted, Unfound, CountType
  <2>6. verdict = VerdictOf(Found) /\ \A e \in told : Findings(e) \subseteq Found
    BY <2>3, <2>4 DEF Account
  <2>7. Found' = Found BY <2>1 DEF Found, log
  <2> QED BY <2>1, <2>2, <2>5, <2>6, <2>7 DEF Complete, log
<1>3. CASE ~WriteMeta
  <2>1. meta' = meta
    BY <1>3 DEF Next, Execute, Holder, Sink, EmitReport, EmitMain, RecordYara, WriteLine, CountEvent,
       WriteFinding, CountFinding, AbsorbFinding, WriteTooLate, WriteFails, Thrown, MetaFails,
       SetupEnds, TraceEnds, TeardownEnds, Stop, Join, PostEnds, TakeCounts, TakeVerdict, CloseStore,
       Exit, holding, main, session, result, vars
  <2>2. pc \in {"close", "closed", "exit"} BY <2>1 DEF Taken
  <2>3. drained
    <3>1. CASE Stop \/ Join \/ TakeCounts \/ TakeVerdict \/ SetupEnds \/ TraceEnds \/ TeardownEnds
               \/ PostEnds
      BY <2>2, <3>1 DEF Stop, Join, TakeCounts, TakeVerdict, SetupEnds, TraceEnds, TeardownEnds,
                        PostEnds
    <3>2. CASE ~(Stop \/ Join \/ TakeCounts \/ TakeVerdict \/ SetupEnds \/ TraceEnds \/ TeardownEnds
                 \/ PostEnds)
      BY <1>3, <3>2 DEF Next, Execute, Holder, Sink, EmitReport, EmitMain, RecordYara, WriteLine,
         CountEvent, WriteFinding, CountFinding, AbsorbFinding, WriteTooLate, WriteFails, Thrown,
         MetaFails, CloseStore, Exit, holding, main, session, vars
    <3> QED BY <3>1, <3>2
  <2>4. UNCHANGED <<log, memory>> BY <2>2, <2>3, QuietStep DEF Recording
  <2>5. Found' = Found BY <2>4 DEF Found, log
  <2> QED BY <1>1, <2>1, <2>3, <2>4, <2>5 DEF Complete, log
<1> QED BY <1>2, <1>3

LEMMA InitWhole == Init => Whole
<1> SUFFICES ASSUME Init PROVE Whole OBVIOUS
<1>1. Found = {} BY DEF Init, Found
<1>2. VerdictOf(Found) = NoVerdict BY <1>1, VerdictNone
<1>3. em.at = "free" BY DEF Init, Free
<1>4. Exact BY <1>1, <1>2, <1>3 DEF Init, Exact, Uncounted, Unfound, NoCounts
<1>5. pc \notin {"verdict", "meta"} /\ meta.status \notin Terminal
  BY DEF Init, NoResult, Terminal
<1> QED BY <1>4, <1>5 DEF Whole, Taken, Complete

LEMMA StepWhole == Threading /\ Reported /\ Whole /\ [Next]_vars => Whole'
BY StepExact, StepTaken, StepComplete DEF Whole

\* When stop has left no thread behind and no write has failed, meta.json is the sum
\* of events.jsonl and everything the log has evidence of was found.
THEOREM CompleteHolds == Spec => []Complete
<1>1. Init => Reported /\ Whole BY InitReported, InitWhole
<1>2. Threading /\ (Reported /\ Whole) /\ [Next]_vars => (Reported /\ Whole)'
  BY StepReported, StepWhole
<1>3. Reported /\ Whole => Complete BY DEF Whole
<1> QED BY <1>1, <1>2, <1>3, ThreadingHolds, PTL DEF Spec
=============================================================================
