-------------------------- MODULE RunManager_proofs --------------------------
(***************************************************************************)
(* The inductive invariant of RunManager, for any number of runs, slots,   *)
(* events and restarts, and the safety properties that follow from it.     *)
(***************************************************************************)
EXTENDS RunManager_inv, FiniteSetTheorems, TLAPS

USE DEF Starting, Reaping, Live, Terminal, Alive

\* The steps of one run, in the groups that the proofs go through.
LEMMA Steps ==
  ASSUME [Next]_mvars
  PROVE  \/ \E r \in Runs : StartStep(r)
         \/ \E r \in Runs : RunnerStep(r)
         \/ \E r \in Runs : ReapStep(r)
         \/ \E r \in Runs : StopStep(r)
         \/ Restart
         \/ UNCHANGED mvars
  BY DEF Next

\* The operations of the store keep its types.
LEMMA StoreType ==
  ASSUME StoreTypeOK, NEW r \in Runs, tail[r] = "torn" => log[r] < MaxLog,
         \/ \E m \in Meta : PutMeta(r, m) \/ WriteTmp(r, m)
         \/ Rename(r) \/ BeginLine(r) \/ EndLine(r) \/ InsertRow(r)
         \/ Close(r) \/ Abandoned(r) \/ Reconcile(r) \/ UNCHANGED store
  PROVE  StoreTypeOK'
<1> USE MaxLogAssumption DEF StoreTypeOK
<1>1. NoMeta \in Meta
  BY DEF NoMeta, Meta
<1>2. CASE \E m \in Meta : PutMeta(r, m)
  BY <1>2 DEF PutMeta
<1>3. CASE \E m \in Meta : WriteTmp(r, m)
  BY <1>3 DEF WriteTmp
<1>4. CASE Rename(r)
  BY <1>1, <1>4 DEF Rename
<1>5. CASE BeginLine(r)
  BY <1>5 DEF BeginLine
<1>6. CASE EndLine(r)
  <2>1. log[r] + 1 \in 0..MaxLog
    BY <1>6 DEF EndLine
  <2> QED
    BY <1>6, <2>1 DEF EndLine
<1>7. CASE InsertRow(r)
  BY <1>7 DEF InsertRow
<1>8. CASE Close(r)
  BY <1>8 DEF Close
<1>9. CASE Abandoned(r)
  BY <1>9 DEF Abandoned
<1>10. CASE Reconcile(r)
  BY <1>10 DEF Reconcile
<1>11. CASE UNCHANGED store
  BY <1>11 DEF store
<1> QED
  BY <1>2, <1>3, <1>4, <1>5, <1>6, <1>7, <1>8, <1>9, <1>10, <1>11

\* What the processes write to meta.json.
LEMMA Written ==
  ASSUME NEW s \in {"queued", "running", "finished", "killed", "error"}, NEW v \in BOOLEAN
  PROVE  [status |-> s, verdict |-> v] \in Meta
  BY DEF Meta

\* A runner that ends without finalize leaves its directory as it is.
LEMMA DiesType ==
  ASSUME TypeOK, NEW r \in Runs, Dies(r)
  PROVE  /\ Abandoned(r)
         /\ proc' \in [Runs -> Live \cup {"none", "exited", "dead"}]
         /\ work' \in SUBSET Runs
  BY DEF TypeOK, Dies

\* Each step is some operation of the store of its run, and keeps the types of
\* the server and of the host.
LEMMA TypeStep ==
  ASSUME TypeOK, \A q \in Runs : IndexStage(q), [Next]_mvars
  PROVE  TypeOK'
<1> USE DEF TypeOK
<1>0. ASSUME NEW r \in Runs PROVE tail[r] = "torn" => log[r] < MaxLog
  BY DEF IndexStage
<1>1. ASSUME NEW r \in Runs, StartStep(r) PROVE TypeOK'
  <2>1. CASE Admit(r)
    BY <1>0, <2>1, StoreType DEF Admit, host
  <2>2. CASE Create(r)
    <3>1. (\E m \in Meta : PutMeta(r, m)) \/ UNCHANGED store
      BY <2>2, Written DEF Create
    <3>2. StoreTypeOK'
      BY <1>0, <3>1, StoreType
    <3> QED
      BY <2>2, <3>2 DEF Create, host
  <2>3. CASE Spawn(r)
    <3>1. (\E m \in Meta : PutMeta(r, m)) \/ UNCHANGED store
      BY <2>3, Written DEF Spawn
    <3>2. StoreTypeOK'
      BY <1>0, <3>1, StoreType
    <3> QED
      BY <2>3, <3>2 DEF Spawn
  <2>4. CASE Enlist(r) \/ StartReaper(r)
    BY <1>0, <2>4, StoreType DEF Enlist, StartReaper, host
  <2> QED
    BY <1>1, <2>1, <2>2, <2>3, <2>4 DEF StartStep
<1>2. ASSUME NEW r \in Runs, RunnerStep(r) PROVE TypeOK'
  <2>1. CASE RunnerBegin(r)
    <3>1. StoreTypeOK'
      BY <1>0, <2>1, Written, StoreType DEF RunnerBegin
    <3> QED
      BY <2>1, <3>1 DEF RunnerBegin, server
  <2>2. CASE RunnerRunning(r)
    <3>1. CASE Dies(r)
      BY <1>0, <2>2, <3>1, DiesType, StoreType DEF RunnerRunning, server
    <3>2. CASE Rename(r) /\ proc' = [proc EXCEPT ![r] = "run"] /\ work' \in {work, work \cup {r}}
      <4>1. StoreTypeOK'
        BY <1>0, <3>2, StoreType
      <4> QED
        BY <2>2, <3>2, <4>1 DEF RunnerRunning, server
    <3> QED
      BY <2>2, <3>1, <3>2 DEF RunnerRunning
  <2>3. CASE RunnerEvent(r)
    <3>1. StoreTypeOK'
      BY <1>0, <2>3, StoreType DEF RunnerEvent
    <3> QED
      BY <2>3, <3>1 DEF RunnerEvent, server, host
  <2>4. CASE RunnerFinalize(r)
    <3>1. \E m \in Meta : WriteTmp(r, m)
      BY <2>4, Written DEF RunnerFinalize
    <3>2. StoreTypeOK'
      BY <1>0, <3>1, StoreType
    <3> QED
      BY <2>4, <3>2 DEF RunnerFinalize, server
  <2>5. CASE RunnerFinalized(r)
    <3>1. CASE Dies(r)
      BY <1>0, <2>5, <3>1, DiesType, StoreType DEF RunnerFinalized, server
    <3>2. CASE Rename(r) /\ proc' = [proc EXCEPT ![r] = "close"] /\ UNCHANGED work
      <4>1. StoreTypeOK'
        BY <1>0, <3>2, StoreType
      <4> QED
        BY <2>5, <3>2, <4>1 DEF RunnerFinalized, server
    <3> QED
      BY <2>5, <3>1, <3>2 DEF RunnerFinalized
  <2>6. CASE RunnerExits(r)
    BY <1>0, <2>6, StoreType DEF RunnerExits, server
  <2>7. CASE RunnerDies(r)
    BY <1>0, <2>7, DiesType, StoreType DEF RunnerDies, server
  <2>8. CASE SpecimenEnds(r)
    BY <1>0, <2>8, StoreType DEF SpecimenEnds, server
  <2> QED
    BY <1>2, <2>1, <2>2, <2>3, <2>4, <2>5, <2>6, <2>7, <2>8 DEF RunnerStep
<1>3. ASSUME NEW r \in Runs, ReapStep(r) PROVE TypeOK'
  <2>1. \/ \E m \in Meta : WriteTmp(r, m)
        \/ Reconcile(r) \/ Rename(r) \/ UNCHANGED store
    <3>1. (r \in copy) \in BOOLEAN
      OBVIOUS
    <3>2. CASE WriteError(r)
      BY <3>1, <3>2, Written DEF WriteError
    <3>3. CASE ~WriteError(r)
      BY <1>3, <3>3 DEF ReapStep, Wait, Check, OpenStore, ReadMeta, RenameError, Pop
    <3> QED
      BY <3>2, <3>3
  <2>2. StoreTypeOK'
    BY <1>0, <2>1, StoreType
  <2>3. /\ reaper' \in [Runs -> Reaping \cup {"none", "done", "lost"}]
        /\ active' \in SUBSET Runs /\ copy' \in SUBSET Runs /\ lapsed' \in SUBSET Runs
        /\ UNCHANGED <<api, stops, restarts, host>>
    BY <1>3 DEF ReapStep, Wait, Check, OpenStore, ReadMeta, WriteError, RenameError, Pop, Goto
  <2> QED
    BY <2>2, <2>3 DEF host
<1>4. ASSUME NEW r \in Runs, StopStep(r) PROVE TypeOK'
  <2>1. CASE StopRequest(r)
    BY <1>0, <2>1, StoreType DEF StopRequest, host
  <2>2. CASE Stop(r)
    BY <1>0, <2>2, DiesType, StoreType DEF Stop, host
  <2> QED
    BY <1>4, <2>1, <2>2 DEF StopStep
<1>5. CASE Restart
  <2>1. StoreTypeOK'
    BY <1>5 DEF Restart, StoreTypeOK, store
  <2>2. restarts' \in 0..MaxRestarts
    BY <1>5, RestartsAssumption DEF Restart
  <2> QED
    BY <1>5, <2>1, <2>2 DEF Restart, host
<1>6. CASE UNCHANGED mvars
  BY <1>6 DEF StoreTypeOK, mvars, store, server, host
<1> QED
  BY <1>1, <1>2, <1>3, <1>4, <1>5, <1>6, Steps

-----------------------------------------------------------------------------
(* Slots.                                                                  *)

\* Sets that only shrink keep within the cap.
LEMMA Shrink ==
  ASSUME SlotsWithinCap, active' \subseteq active \cup InStart, InStart' \subseteq InStart,
         IsFiniteSet(active')
  PROVE  SlotsWithinCap'
<1>1. IsFiniteSet(active \cup InStart)
  BY FS_Union DEF SlotsWithinCap
<1>2. IsFiniteSet(InStart')
  BY FS_Subset DEF SlotsWithinCap
<1>3. active' \cup InStart' \subseteq active \cup InStart
  OBVIOUS
<1>4. /\ Cardinality(active' \cup InStart') <= Cardinality(active \cup InStart)
      /\ Cardinality(active' \cup InStart') \in Nat
      /\ Cardinality(active \cup InStart) \in Nat
  BY <1>1, <1>3, FS_Subset, FS_CardinalityType
<1> QED
  BY <1>2, <1>4, CapAssumption DEF SlotsWithinCap

LEMMA CapStep == TypeOK /\ SlotsWithinCap /\ [Next]_mvars => SlotsWithinCap'
<1> SUFFICES ASSUME TypeOK, SlotsWithinCap, [Next]_mvars PROVE SlotsWithinCap'
  OBVIOUS
<1>1. ASSUME NEW r \in Runs, StartStep(r) PROVE SlotsWithinCap'
  <2>1. CASE Admit(r) /\ Cardinality(active) + Cardinality(InStart) < MaxConcurrent
    <3>1. active' = active /\ InStart' = InStart \cup {r}
      BY <2>1 DEF Admit, InStart, TypeOK
    <3>2. /\ IsFiniteSet(active \cup InStart)
          /\ Cardinality(active \cup InStart) <= Cardinality(active) + Cardinality(InStart)
      <4>1. /\ IsFiniteSet(active \cup InStart)
            /\ Cardinality(active \cup InStart) =
                 Cardinality(active) + Cardinality(InStart) - Cardinality(active \cap InStart)
        BY FS_Union DEF SlotsWithinCap
      <4>2. Cardinality(active \cap InStart) \in Nat
        BY FS_Intersection, FS_CardinalityType DEF SlotsWithinCap
      <4>3. Cardinality(active) \in Nat /\ Cardinality(InStart) \in Nat
        BY FS_CardinalityType DEF SlotsWithinCap
      <4> QED
        BY <4>1, <4>2, <4>3
    <3>3. /\ IsFiniteSet(InStart \cup {r})
          /\ Cardinality((active \cup InStart) \cup {r}) <= Cardinality(active \cup InStart) + 1
      <4>1. IsFiniteSet(InStart \cup {r})
        BY FS_AddElement DEF SlotsWithinCap
      <4>2. Cardinality((active \cup InStart) \cup {r}) \in
              {Cardinality(active \cup InStart), Cardinality(active \cup InStart) + 1}
        BY <3>2, FS_AddElement
      <4>3. Cardinality(active \cup InStart) \in Nat
        BY <3>2, FS_CardinalityType
      <4> QED
        BY <4>1, <4>2, <4>3
    <3>4. Cardinality(active \cup InStart) \in Nat /\ Cardinality(active) \in Nat
          /\ Cardinality(InStart) \in Nat /\ Cardinality((active \cup InStart) \cup {r}) \in Nat
      BY <3>2, FS_AddElement, FS_CardinalityType DEF SlotsWithinCap
    <3>5. Cardinality((active \cup InStart) \cup {r}) <= MaxConcurrent
      BY <2>1, <3>2, <3>3, <3>4, CapAssumption
    <3>6. (active \cup InStart)' = (active \cup InStart) \cup {r}
      BY <3>1
    <3> QED
      BY <3>1, <3>3, <3>5, <3>6 DEF SlotsWithinCap
  <2>2. CASE Admit(r) /\ ~(Cardinality(active) + Cardinality(InStart) < MaxConcurrent)
    <3>1. active' = active /\ InStart' \subseteq InStart
      BY <2>2 DEF Admit, InStart, TypeOK
    <3> QED
      BY <3>1, Shrink DEF SlotsWithinCap
  <2>3. CASE Create(r) \/ Spawn(r) \/ StartReaper(r)
    <3>1. active' = active /\ InStart' \subseteq InStart
      BY <2>3 DEF Create, Spawn, StartReaper, InStart, TypeOK
    <3> QED
      BY <3>1, Shrink DEF SlotsWithinCap
  <2>4. CASE Enlist(r)
    <3>1. r \in InStart /\ active' = active \cup {r} /\ InStart' \subseteq InStart
      BY <2>4 DEF Enlist, InStart, TypeOK
    <3>2. IsFiniteSet(active')
      BY <3>1, FS_AddElement DEF SlotsWithinCap
    <3> QED
      BY <3>1, <3>2, Shrink
  <2> QED
    BY <1>1, <2>1, <2>2, <2>3, <2>4 DEF StartStep
<1>2. CASE UNCHANGED <<api, active>>
  <2>1. active' = active /\ InStart' = InStart
    BY <1>2 DEF InStart
  <2> QED
    BY <2>1, Shrink DEF SlotsWithinCap
<1>3. ASSUME NEW r \in Runs, Pop(r) PROVE SlotsWithinCap'
  <2>1. active' = active \ {r} /\ InStart' = InStart
    BY <1>3 DEF Pop, InStart
  <2>2. IsFiniteSet(active')
    BY <2>1, FS_RemoveElement DEF SlotsWithinCap
  <2> QED
    BY <2>1, <2>2, Shrink
<1>4. CASE Restart
  <2>1. active' = {} /\ InStart' = {}
    BY <1>4 DEF Restart, InStart, TypeOK
  <2>2. IsFiniteSet(active')
    BY <2>1, FS_EmptySet
  <2> QED
    BY <2>1, <2>2, Shrink
<1>5. ASSUME NEW r \in Runs, RunnerStep(r) \/ StopStep(r) PROVE UNCHANGED <<api, active>>
  BY <1>5 DEF RunnerStep, RunnerBegin, RunnerRunning, RunnerEvent, RunnerFinalize,
              RunnerFinalized, RunnerExits, RunnerDies, SpecimenEnds, StopStep, StopRequest,
              Stop, server
<1>6. ASSUME NEW r \in Runs, ReapStep(r) PROVE UNCHANGED <<api, active>> \/ Pop(r)
  BY <1>6 DEF ReapStep, Wait, Check, OpenStore, ReadMeta, WriteError, RenameError
<1>7. CASE UNCHANGED mvars
  BY <1>2, <1>7 DEF mvars, server
<1> QED
  BY <1>1, <1>2, <1>3, <1>4, <1>5, <1>6, <1>7, Steps

-----------------------------------------------------------------------------
(* Who may still touch what: the stages of request, reaper and runner.     *)

\* What the death of a runner changes.
LEMMA DiesEffect ==
  ASSUME TypeOK, NEW r \in Runs, NEW q \in Runs, Dies(r)
  PROVE  /\ proc'[q] = IF q = r THEN "dead" ELSE proc[q]
         /\ tail'[q] = IF q = r /\ tail[q] # "torn" THEN "none" ELSE tail[q]
         /\ q \in txn' <=> q \in txn /\ q # r
         /\ UNCHANGED <<meta, tmp, log, rows>>
  BY DEF TypeOK, StoreTypeOK, Dies, Abandoned

LEMMA SlotStep ==
  ASSUME TypeOK, \A q \in Runs : SlotStage(q), [Next]_mvars
  PROVE  \A q \in Runs : SlotStage(q)'
<1> SUFFICES ASSUME NEW q \in Runs PROVE SlotStage(q)'
  OBVIOUS
<1> USE DEF TypeOK, SlotStage
<1>1. ASSUME NEW r \in Runs, StartStep(r) PROVE SlotStage(q)'
  BY <1>1 DEF StartStep, Admit, Create, Spawn, Enlist, StartReaper, host
<1>2. ASSUME NEW r \in Runs, RunnerStep(r) PROVE SlotStage(q)'
  <2>1. UNCHANGED server
    BY <1>2 DEF RunnerStep, RunnerBegin, RunnerRunning, RunnerEvent, RunnerFinalize,
                RunnerFinalized, RunnerExits, RunnerDies, SpecimenEnds
  <2>2. /\ proc'[q] = "none" <=> proc[q] = "none"
        /\ Alive(q)' => Alive(q)
    <3>1. CASE Dies(r) /\ Alive(r)
      BY <3>1, DiesEffect
    <3>2. CASE ~(Dies(r) /\ Alive(r))
      BY <1>2, <3>2 DEF RunnerStep, RunnerBegin, RunnerRunning, RunnerEvent, RunnerFinalize,
                        RunnerFinalized, RunnerExits, RunnerDies, SpecimenEnds, host
    <3> QED
      BY <3>1, <3>2
  <2> QED
    BY <2>1, <2>2 DEF server
<1>3. ASSUME NEW r \in Runs, ReapStep(r) PROVE SlotStage(q)'
  BY <1>3 DEF ReapStep, Wait, Check, OpenStore, ReadMeta, WriteError, RenameError, Pop, Goto, host
<1>4. ASSUME NEW r \in Runs, StopStep(r) PROVE SlotStage(q)'
  <2>1. CASE StopRequest(r)
    BY <2>1 DEF StopRequest, host
  <2>2. CASE Stop(r)
    BY <2>2, DiesEffect DEF Stop, host
  <2> QED
    BY <1>4, <2>1, <2>2 DEF StopStep
<1>5. CASE Restart
  BY <1>5 DEF Restart, host
<1>6. CASE UNCHANGED mvars
  BY <1>6 DEF mvars, server, host
<1> QED
  BY <1>1, <1>2, <1>3, <1>4, <1>5, <1>6, Steps

LEMMA VerdictStep ==
  ASSUME TypeOK, \A q \in Runs : SlotStage(q) /\ VerdictStage(q), [Next]_mvars
  PROVE  \A q \in Runs : VerdictStage(q)'
<1> SUFFICES ASSUME NEW q \in Runs PROVE VerdictStage(q)'
  OBVIOUS
<1> USE DEF TypeOK, StoreTypeOK, SlotStage, VerdictStage
<1>1. ASSUME NEW r \in Runs, StartStep(r) PROVE VerdictStage(q)'
  <2>1. CASE Create(r)
    BY <2>1 DEF Create, PutMeta, store, host
  <2>2. CASE Spawn(r)
    BY <2>2 DEF Spawn, PutMeta, store
  <2>3. CASE Admit(r) \/ Enlist(r) \/ StartReaper(r)
    BY <2>3 DEF Admit, Enlist, StartReaper, store, host
  <2> QED
    BY <1>1, <2>1, <2>2, <2>3 DEF StartStep
<1>2. ASSUME NEW r \in Runs, Dies(r), UNCHANGED <<api, reaper, copy, lapsed>>, Alive(r)
      PROVE  VerdictStage(q)'
  BY <1>2, DiesEffect
<1>3. ASSUME NEW r \in Runs, RunnerStep(r) PROVE VerdictStage(q)'
  <2>1. CASE RunnerBegin(r)
    BY <2>1 DEF RunnerBegin, WriteTmp, server
  <2>2. CASE RunnerRunning(r)
    <3>1. CASE Dies(r)
      BY <1>2, <2>2, <3>1 DEF RunnerRunning, server
    <3>2. CASE Rename(r) /\ proc' = [proc EXCEPT ![r] = "run"]
      BY <2>2, <3>2 DEF RunnerRunning, Rename, TmpGone, NoMeta, server
    <3> QED
      BY <2>2, <3>1, <3>2 DEF RunnerRunning
  <2>3. CASE RunnerEvent(r)
    BY <2>3 DEF RunnerEvent, BeginLine, EndLine, InsertRow, server, host
  <2>4. CASE RunnerFinalize(r)
    BY <2>4 DEF RunnerFinalize, WriteTmp, server
  <2>5. CASE RunnerFinalized(r)
    <3>1. CASE Dies(r)
      BY <1>2, <2>5, <3>1 DEF RunnerFinalized, server
    <3>2. CASE Rename(r) /\ proc' = [proc EXCEPT ![r] = "close"]
      BY <2>5, <3>2 DEF RunnerFinalized, Rename, TmpGone, NoMeta, server
    <3> QED
      BY <2>5, <3>1, <3>2 DEF RunnerFinalized
  <2>6. CASE RunnerExits(r)
    BY <2>6 DEF RunnerExits, Close, server
  <2>7. CASE RunnerDies(r)
    BY <1>2, <2>7 DEF RunnerDies, server
  <2>8. CASE SpecimenEnds(r)
    BY <2>8 DEF SpecimenEnds, store, server
  <2> QED
    BY <1>3, <2>1, <2>2, <2>3, <2>4, <2>5, <2>6, <2>7, <2>8 DEF RunnerStep
<1>4. ASSUME NEW r \in Runs, ReapStep(r) PROVE VerdictStage(q)'
  <2>1. CASE Wait(r) \/ Check(r) \/ ReadMeta(r) \/ Pop(r)
    BY <2>1 DEF Wait, Check, ReadMeta, Pop, Goto, store, host
  <2>2. CASE OpenStore(r)
    BY <2>2 DEF OpenStore, Reconcile, Goto, store, host
  <2>3. CASE WriteError(r)
    BY <2>3 DEF WriteError, WriteTmp, Goto, host
  <2>4. CASE RenameError(r)
    BY <2>4 DEF RenameError, Rename, TmpGone, NoMeta, Goto, store, host
  <2> QED
    BY <1>4, <2>1, <2>2, <2>3, <2>4 DEF ReapStep
<1>5. ASSUME NEW r \in Runs, StopStep(r) PROVE VerdictStage(q)'
  BY <1>2, <1>5 DEF StopStep, StopRequest, Stop, store, host
<1>6. CASE Restart
  BY <1>6 DEF Restart, store, host
<1>7. CASE UNCHANGED mvars
  BY <1>7 DEF mvars, store, server, host
<1> QED
  BY <1>1, <1>3, <1>4, <1>5, <1>6, <1>7, Steps

LEMMA IndexStep ==
  ASSUME TypeOK, \A q \in Runs : SlotStage(q) /\ IndexStage(q), [Next]_mvars
  PROVE  \A q \in Runs : IndexStage(q)'
<1> SUFFICES ASSUME NEW q \in Runs PROVE IndexStage(q)'
  OBVIOUS
<1> USE MaxLogAssumption DEF TypeOK, StoreTypeOK, IndexStage
<1>1. ASSUME NEW r \in Runs, StartStep(r) PROVE IndexStage(q)'
  BY <1>1 DEF StartStep, Admit, Create, Spawn, Enlist, StartReaper, PutMeta, SlotStage, store, host
<1>2. ASSUME NEW r \in Runs, Dies(r), Alive(r) PROVE IndexStage(q)'
  BY <1>2, DiesEffect
<1>3. ASSUME NEW r \in Runs, RunnerStep(r) PROVE IndexStage(q)'
  <2>1. CASE RunnerBegin(r) \/ RunnerFinalize(r) \/ SpecimenEnds(r)
    BY <2>1 DEF RunnerBegin, RunnerFinalize, SpecimenEnds, WriteTmp, store
  <2>2. CASE RunnerRunning(r) \/ RunnerFinalized(r) \/ RunnerDies(r)
    <3>1. CASE Dies(r)
      BY <1>2, <2>2, <3>1 DEF RunnerRunning, RunnerFinalized, RunnerDies
    <3>2. CASE ~Dies(r)
      BY <2>2, <3>2 DEF RunnerRunning, RunnerFinalized, RunnerDies, Rename
    <3> QED
      BY <3>1, <3>2
  <2>3. CASE RunnerEvent(r)
    <3>1. CASE BeginLine(r)
      BY <2>3, <3>1 DEF RunnerEvent, BeginLine, host
    <3>2. CASE EndLine(r)
      BY <2>3, <3>2 DEF RunnerEvent, EndLine, host
    <3>3. CASE InsertRow(r)
      BY <2>3, <3>3 DEF RunnerEvent, InsertRow, host
    <3> QED
      BY <2>3, <3>1, <3>2, <3>3 DEF RunnerEvent
  <2>4. CASE RunnerExits(r)
    BY <2>4 DEF RunnerExits, Close
  <2> QED
    BY <1>3, <2>1, <2>2, <2>3, <2>4 DEF RunnerStep
<1>4. ASSUME NEW r \in Runs, ReapStep(r) PROVE IndexStage(q)'
  BY <1>4 DEF ReapStep, Wait, Check, OpenStore, ReadMeta, WriteError, RenameError, Pop,
              Reconcile, WriteTmp, Rename, store, host
<1>5. ASSUME NEW r \in Runs, StopStep(r) PROVE IndexStage(q)'
  BY <1>2, <1>5 DEF StopStep, StopRequest, Stop, store, host
<1>6. CASE Restart \/ UNCHANGED mvars
  BY <1>6 DEF Restart, mvars, store, host
<1> QED
  BY <1>1, <1>3, <1>4, <1>5, <1>6, Steps

LEMMA OutcomeStep ==
  ASSUME TypeOK, \A q \in Runs : SlotStage(q) /\ OutcomeStage(q), [Next]_mvars
  PROVE  \A q \in Runs : OutcomeStage(q)'
<1> SUFFICES ASSUME NEW q \in Runs PROVE OutcomeStage(q)'
  OBVIOUS
<1> USE DEF TypeOK, StoreTypeOK, OutcomeStage
<1>1. ASSUME NEW r \in Runs, StartStep(r) PROVE OutcomeStage(q)'
  BY <1>1 DEF StartStep, Admit, Create, Spawn, Enlist, StartReaper, PutMeta, store, host
<1>2. ASSUME NEW r \in Runs, RunnerStep(r) PROVE OutcomeStage(q)'
  <2>1. UNCHANGED api
    BY <1>2 DEF RunnerStep, RunnerBegin, RunnerRunning, RunnerEvent, RunnerFinalize,
                RunnerFinalized, RunnerExits, RunnerDies, SpecimenEnds, server
  <2>2. CASE Rename(r) /\ proc[r] \in Live
    BY <2>1, <2>2 DEF Rename, SlotStage
  <2>3. CASE ~(Rename(r) /\ proc[r] \in Live)
    <3>1. UNCHANGED meta
      BY <1>2, <2>3
         DEF RunnerStep, RunnerBegin, RunnerRunning, RunnerEvent, RunnerFinalize, RunnerFinalized,
             RunnerExits, RunnerDies, SpecimenEnds, Dies, Abandoned, WriteTmp, BeginLine, EndLine,
             InsertRow, Close, store
    <3> QED
      BY <2>1, <3>1
  <2> QED
    BY <2>2, <2>3
<1>3. ASSUME NEW r \in Runs, ReapStep(r) PROVE OutcomeStage(q)'
  BY <1>3 DEF ReapStep, Wait, Check, OpenStore, ReadMeta, WriteError, RenameError, Pop, SlotStage,
              Reconcile, WriteTmp, Rename, store
<1>4. ASSUME NEW r \in Runs, StopStep(r) PROVE OutcomeStage(q)'
  BY <1>4, DiesEffect DEF StopStep, StopRequest, Stop, store
<1>5. CASE Restart \/ UNCHANGED mvars
  BY <1>5 DEF Restart, mvars, server, store
<1> QED
  BY <1>1, <1>2, <1>3, <1>4, <1>5, Steps

\* What a rename changes, at its own run and at the others.
LEMMA RenameEffect ==
  ASSUME TypeOK, NEW r \in Runs, NEW q \in Runs, Rename(r)
  PROVE  /\ meta'[q] = IF q = r THEN tmp[r] ELSE meta[q]
         /\ tmp'[q] = IF q = r THEN NoMeta ELSE tmp[q]
         /\ tmp[r] # NoMeta
  BY DEF TypeOK, StoreTypeOK, Rename, TmpGone

LEMMA RecordStep ==
  ASSUME TypeOK, \A q \in Runs : SlotStage(q) /\ RecordStage(q), [Next]_mvars
  PROVE  \A q \in Runs : RecordStage(q)'
<1> SUFFICES ASSUME NEW q \in Runs PROVE RecordStage(q)'
  OBVIOUS
<1> USE DEF TypeOK, StoreTypeOK, SlotStage, RecordStage
<1>1. ASSUME NEW r \in Runs, StartStep(r) PROVE RecordStage(q)'
  <2>1. CASE Create(r)
    BY <2>1 DEF Create, PutMeta, store, host
  <2>2. CASE Spawn(r)
    BY <2>2 DEF Spawn, PutMeta, store
  <2>3. CASE Admit(r) \/ Enlist(r) \/ StartReaper(r)
    BY <2>3 DEF Admit, Enlist, StartReaper, store, host
  <2> QED
    BY <1>1, <2>1, <2>2, <2>3 DEF StartStep
<1>2. ASSUME NEW r \in Runs, Dies(r), UNCHANGED <<api, reaper, copy, lapsed>>, Alive(r)
      PROVE  RecordStage(q)'
  BY <1>2, DiesEffect
<1>3. ASSUME NEW r \in Runs, RunnerStep(r) PROVE RecordStage(q)'
  <2>1. CASE RunnerBegin(r)
    BY <2>1 DEF RunnerBegin, WriteTmp, server
  <2>2. CASE RunnerRunning(r)
    <3>1. CASE Dies(r)
      BY <1>2, <2>2, <3>1 DEF RunnerRunning, server
    <3>2. CASE Rename(r) /\ proc' = [proc EXCEPT ![r] = "run"]
      <4>1. proc'[q] = IF q = r THEN "run" ELSE proc[q]
        BY <3>2
      <4>2. UNCHANGED <<api, reaper, lapsed>> /\ proc[r] = "begin"
        BY <2>2 DEF RunnerRunning, server
      <4>3. /\ meta'[q] = IF q = r THEN tmp[r] ELSE meta[q]
            /\ tmp'[q] = IF q = r THEN NoMeta ELSE tmp[q]
            /\ tmp[r] # NoMeta
        BY <3>2, RenameEffect
      <4>4. CASE q # r
        BY <4>1, <4>2, <4>3, <4>4
      <4>5. CASE q = r
        <5>1. tmp[r].status \in {"running"} \cup Terminal /\ tmp'[r] = NoMeta
          BY <4>3, <4>5
        <5>2. api[r] \notin {"idle", "admitted", "created"}
          BY <4>2
        <5>3. r \notin lapsed => reaper[r] \notin {"open", "read", "write", "rename"}
          BY <4>2
        <5> QED
          BY <4>1, <4>2, <4>3, <4>5, <5>1, <5>2, <5>3
      <4> QED
        BY <4>4, <4>5
    <3> QED
      BY <2>2, <3>1, <3>2 DEF RunnerRunning
  <2>3. CASE RunnerEvent(r)
    BY <2>3 DEF RunnerEvent, BeginLine, EndLine, InsertRow, server, host
  <2>4. CASE RunnerFinalize(r)
    BY <2>4 DEF RunnerFinalize, WriteTmp, server
  <2>5. CASE RunnerFinalized(r)
    <3>1. CASE Dies(r)
      BY <1>2, <2>5, <3>1 DEF RunnerFinalized, server
    <3>2. CASE Rename(r) /\ proc' = [proc EXCEPT ![r] = "close"]
      <4>1. proc'[q] = IF q = r THEN "close" ELSE proc[q]
        BY <3>2
      <4>2. UNCHANGED <<api, reaper, lapsed>> /\ proc[r] = "final"
        BY <2>5 DEF RunnerFinalized, server
      <4>3. /\ meta'[q] = IF q = r THEN tmp[r] ELSE meta[q]
            /\ tmp'[q] = IF q = r THEN NoMeta ELSE tmp[q]
            /\ tmp[r] # NoMeta
        BY <3>2, RenameEffect
      <4>4. CASE q # r
        BY <4>1, <4>2, <4>3, <4>4
      <4>5. CASE q = r
        <5>1. tmp[r].status \in {"running"} \cup Terminal /\ tmp'[r] = NoMeta
          BY <4>3, <4>5
        <5>2. api[r] \notin {"idle", "admitted", "created"}
          BY <4>2
        <5>3. r \notin lapsed => reaper[r] \notin {"open", "read", "write", "rename"}
          BY <4>2
        <5> QED
          BY <4>1, <4>2, <4>3, <4>5, <5>1, <5>2, <5>3
      <4> QED
        BY <4>4, <4>5
    <3> QED
      BY <2>5, <3>1, <3>2 DEF RunnerFinalized
  <2>6. CASE RunnerExits(r)
    BY <2>6 DEF RunnerExits, Close, server
  <2>7. CASE RunnerDies(r)
    BY <1>2, <2>7 DEF RunnerDies, server
  <2>8. CASE SpecimenEnds(r)
    BY <2>8 DEF SpecimenEnds, store, server
  <2> QED
    BY <1>3, <2>1, <2>2, <2>3, <2>4, <2>5, <2>6, <2>7, <2>8 DEF RunnerStep
<1>4. ASSUME NEW r \in Runs, ReapStep(r) PROVE RecordStage(q)'
  <2>1. CASE Wait(r) \/ Check(r) \/ ReadMeta(r) \/ Pop(r)
    BY <2>1 DEF Wait, Check, ReadMeta, Pop, Goto, store, host, Meta
  <2>2. CASE OpenStore(r)
    BY <2>2 DEF OpenStore, Reconcile, Goto, store, host
  <2>3. CASE WriteError(r)
    BY <2>3 DEF WriteError, WriteTmp, Goto, host
  <2>4. CASE RenameError(r)
    <3>1. /\ reaper[r] = "rename" /\ UNCHANGED <<api, lapsed, proc>>
          /\ reaper'[q] = IF q = r THEN "pop" ELSE reaper[q]
      BY <2>4 DEF RenameError, Goto, host
    <3>2. CASE UNCHANGED store
      BY <3>1, <3>2 DEF store
    <3>3. CASE Rename(r)
      <4>1. /\ meta'[q] = IF q = r THEN tmp[r] ELSE meta[q]
            /\ tmp'[q] = IF q = r THEN NoMeta ELSE tmp[q]
            /\ tmp[r] # NoMeta
        BY <3>3, RenameEffect
      <4>2. CASE q # r
        BY <3>1, <4>1, <4>2
      <4>3. CASE q = r
        <5>1. tmp[r].status \in {"running"} \cup Terminal /\ tmp'[r] = NoMeta
          BY <4>1, <4>3
        <5>2. api[r] \notin {"idle", "admitted", "created"}
          BY <3>1
        <5>3. r \notin lapsed => proc[r] \notin {"boot", "begin", "run", "final"}
          BY <3>1
        <5> QED
          BY <3>1, <4>1, <4>3, <5>1, <5>2, <5>3
      <4> QED
        BY <4>2, <4>3
    <3> QED
      BY <2>4, <3>2, <3>3 DEF RenameError
  <2> QED
    BY <1>4, <2>1, <2>2, <2>3, <2>4 DEF ReapStep
<1>5. ASSUME NEW r \in Runs, StopStep(r) PROVE RecordStage(q)'
  BY <1>2, <1>5 DEF StopStep, StopRequest, Stop, store, host
<1>6. CASE Restart
  BY <1>6 DEF Restart, store, host
<1>7. CASE UNCHANGED mvars
  BY <1>7 DEF mvars, store, server, host
<1> QED
  BY <1>1, <1>3, <1>4, <1>5, <1>6, <1>7, Steps

-----------------------------------------------------------------------------
(* The invariant, and what follows from it.                                *)

LEMMA MInvInit == Init => MInv
<1> SUFFICES ASSUME Init PROVE MInv
  OBVIOUS
<1> USE MaxLogAssumption, RestartsAssumption, CapAssumption DEF Init, StoreInit
<1>1. TypeOK
  <2>1. NoMeta \in Meta
    BY DEF NoMeta, Meta
  <2> QED
    BY <2>1 DEF TypeOK, StoreTypeOK
<1>2. SlotsWithinCap
  <2>1. active = {} /\ InStart = {} /\ active \cup InStart = {}
    BY DEF InStart
  <2> QED
    BY <2>1, FS_EmptySet DEF SlotsWithinCap
<1>3. ASSUME NEW r \in Runs
      PROVE  /\ SlotStage(r) /\ VerdictStage(r) /\ IndexStage(r) /\ OutcomeStage(r)
             /\ RecordStage(r)
  BY <1>3 DEF SlotStage, VerdictStage, IndexStage, OutcomeStage, RecordStage, NoMeta
<1> QED
  BY <1>1, <1>2, <1>3 DEF MInv

LEMMA MInvStep == MInv /\ [Next]_mvars => MInv'
  BY TypeStep, CapStep, SlotStep, VerdictStep, IndexStep, OutcomeStep, RecordStep DEF MInv

\* The inductive invariant holds: request, reaper, runner and run directory
\* agree on who owns the slot, the status and the index, at every step.
THEOREM ManagerInvariance == Spec => []MInv
  BY MInvInit, MInvStep, PTL DEF Spec

\* Every variable of server, host and store keeps its type.
THEOREM ManagerTypeCorrect == Spec => []TypeOK
<1>1. MInv => TypeOK
  BY DEF MInv
<1> QED
  BY <1>1, ManagerInvariance, PTL

\* RunManager.start admits no run beyond max_concurrent: the runner processes
\* that somebody still waits for, and those being started, fit the cap.
THEOREM LiveWithinCapHolds == Spec => []LiveWithinCap
<1>1. MInv => LiveWithinCap
  <2> SUFFICES ASSUME MInv PROVE LiveWithinCap
    OBVIOUS
  <2> DEFINE S == {r \in Runs : Alive(r) /\ ~Unwatched(r)}
  <2>1. S \subseteq active \cup InStart
    <3> SUFFICES ASSUME NEW r \in Runs, Alive(r), ~Unwatched(r) PROVE r \in active \cup InStart
      OBVIOUS
    <3> QED
      BY DEF MInv, TypeOK, SlotStage, Unwatched, InStart
  <2>2. IsFiniteSet(active \cup InStart) /\ Cardinality(active \cup InStart) <= MaxConcurrent
    BY FS_Union DEF MInv, SlotsWithinCap
  <2>3. /\ Cardinality(S) <= Cardinality(active \cup InStart)
        /\ Cardinality(S) \in Nat /\ Cardinality(active \cup InStart) \in Nat
    BY <2>1, <2>2, FS_Subset, FS_CardinalityType
  <2> QED
    BY <2>2, <2>3, CapAssumption DEF LiveWithinCap
<1> QED
  BY <1>1, ManagerInvariance, PTL

\* RunStore's index covers the log of every runner that finalized and exited,
\* also when another opener replayed rows between a line and its insert.
THEOREM IndexCompleteHolds == Spec => []IndexComplete
<1>1. MInv => IndexComplete
  BY DEF MInv, IndexStage, IndexComplete
<1> QED
  BY <1>1, ManagerInvariance, PTL

\* _mark_unfinalized_run never overwrites what a runner finalized, unless the
\* wait for that runner had timed out.
THEOREM VerdictKeptHolds == Spec => VerdictKept
<1>1. ASSUME MInv, [Next]_mvars, NEW q \in Runs, meta[q].verdict, q \notin lapsed
      PROVE  meta'[q] = meta[q]
  <2> USE <1>1 DEF MInv, TypeOK, StoreTypeOK, SlotStage, VerdictStage
  <2>1. ASSUME NEW r \in Runs, StartStep(r) PROVE meta'[q] = meta[q]
    BY <2>1 DEF StartStep, Admit, Create, Spawn, Enlist, StartReaper, PutMeta, store
  <2>2. ASSUME NEW r \in Runs, RunnerStep(r) PROVE meta'[q] = meta[q]
    <3>1. CASE Dies(r)
      BY <3>1, DiesEffect
    <3>2. CASE ~Dies(r)
      BY <2>2, <3>2
         DEF RunnerStep, RunnerBegin, RunnerRunning, RunnerEvent, RunnerFinalize, RunnerFinalized,
             RunnerExits, RunnerDies, SpecimenEnds, WriteTmp, Rename, BeginLine, EndLine,
             InsertRow, Close, store
    <3> QED
      BY <3>1, <3>2
  <2>3. ASSUME NEW r \in Runs, ReapStep(r) PROVE meta'[q] = meta[q]
    BY <2>3 DEF ReapStep, Wait, Check, OpenStore, ReadMeta, WriteError, RenameError, Pop,
                Reconcile, WriteTmp, Rename, store
  <2>4. ASSUME NEW r \in Runs, StopStep(r) PROVE meta'[q] = meta[q]
    BY <2>4, DiesEffect DEF StopStep, StopRequest, Stop, store
  <2>5. CASE Restart \/ UNCHANGED mvars
    BY <2>5 DEF Restart, mvars, store
  <2> QED
    BY <2>1, <2>2, <2>3, <2>4, <2>5, Steps
<1>2. MInv /\ [Next]_mvars =>
        [\A r \in Runs : meta[r].verdict /\ r \notin lapsed => meta'[r] = meta[r]]_mvars
  BY <1>1
<1> QED
  BY <1>2, ManagerInvariance, PTL DEF Spec, VerdictKept

-----------------------------------------------------------------------------
(* The record of a run as its readers see it: RunRecord.                   *)

LEMMA RecordAfter ==
  /\ Record!After("none") = {"queued"}
  /\ Record!After("queued") = {"running", "error"}
  /\ Record!After("running") = {"finished", "killed", "error"}
<1>1. Record!After("none") = {"queued"}
  BY DEF Record!After
<1>2. Record!After("queued") = {"running", "error"}
  BY DEF Record!After
<1>3. Record!After("running") = {"finished", "killed", "error"}
  BY DEF Record!After, Record!Outcome
<1> QED
  BY <1>1, <1>2, <1>3

\* A step that touches neither a record nor the runs given up on is a stutter.
LEMMA RecordQuiet ==
  ASSUME UNCHANGED <<meta, lapsed>> PROVE UNCHANGED Record!vars
  BY DEF Record!vars

\* One record is written: forwards, or by someone given up on.
LEMMA RecordPut ==
  ASSUME TypeOK, NEW r \in Runs, NEW m \in Meta,
         meta' = [meta EXCEPT ![r] = m], UNCHANGED lapsed,
         \/ m.status \in Record!After(meta[r].status)
         \/ r \in lapsed /\ m.status \in {"running"} \cup Terminal
  PROVE  Record!Next
<1> DEFINE S == [q \in Runs |-> meta[q].status]
           D == [q \in Runs |-> meta[q].verdict]
<1>1. \A q \in Runs : meta'[q] = IF q = r THEN m ELSE meta[q]
  BY DEF TypeOK, StoreTypeOK
<1>2. S' = [S EXCEPT ![r] = m.status]
  <2> DEFINE N == [q \in Runs |-> IF q = r THEN m.status ELSE meta[q].status]
  <2>1. \A q \in Runs : meta'[q].status = IF q = r THEN m.status ELSE meta[q].status
    BY <1>1
  <2>2. S' = N
    BY <2>1
  <2>3. [S EXCEPT ![r] = m.status] = N
    OBVIOUS
  <2> QED
    BY <2>2, <2>3
<1>3. D' = [D EXCEPT ![r] = m.verdict]
  <2> DEFINE N == [q \in Runs |-> IF q = r THEN m.verdict ELSE meta[q].verdict]
  <2>1. \A q \in Runs : meta'[q].verdict = IF q = r THEN m.verdict ELSE meta[q].verdict
    BY <1>1
  <2>2. D' = N
    BY <2>1
  <2>3. [D EXCEPT ![r] = m.verdict] = N
    OBVIOUS
  <2> QED
    BY <2>2, <2>3
<1>4. Record!Put(r, m.status, m.verdict)
  BY <1>2, <1>3 DEF Record!Put
<1>5. m.verdict \in BOOLEAN
  BY DEF Meta
<1>6. S[r] = meta[r].status
  OBVIOUS
<1>7. CASE m.status \in Record!After(meta[r].status)
  <2>1. Record!Goes(r)
    BY <1>4, <1>5, <1>6, <1>7 DEF Record!Goes
  <2> QED
    BY <2>1 DEF Record!Next
<1>8. CASE r \in lapsed /\ m.status \in {"running"} \cup Terminal
  <2>1. Record!Writes(r)
    BY <1>4, <1>5, <1>8 DEF Record!Writes, Record!Outcome, Terminal
  <2> QED
    BY <2>1 DEF Record!Next
<1> QED
  BY <1>7, <1>8

\* Runner and reaper rename what is next, or have been given up on.
LEMMA RecordRename ==
  ASSUME MInv, NEW r \in Runs, Rename(r), UNCHANGED lapsed,
         \/ proc[r] \in {"begin", "final"}
         \/ reaper[r] = "rename"
  PROVE  Record!Next
<1> USE DEF MInv, TypeOK, StoreTypeOK
<1>1. meta' = [meta EXCEPT ![r] = tmp[r]] /\ tmp[r] \in Meta
  BY DEF Rename
<1>2. tmp[r].status \in {"running"} \cup Terminal
  BY RenameEffect, RecordAfter DEF RecordStage
<1>3. CASE r \notin lapsed
  <2>1. CASE proc[r] = "begin"
    <3>1. meta[r].status = "queued" /\ tmp[r].status = "running"
      BY <1>3, <2>1 DEF RecordStage
    <3> QED
      BY <1>1, <3>1, RecordAfter, RecordPut
  <2>2. CASE proc[r] = "final"
    <3>1. meta[r].status = "running" /\ tmp[r].status \in {"finished", "killed"}
      BY <1>3, <2>2 DEF RecordStage
    <3> QED
      BY <1>1, <3>1, RecordAfter, RecordPut
  <2>3. CASE reaper[r] = "rename"
    <3>1. meta[r].status \in {"queued", "running"} /\ tmp[r].status = "error"
      BY <1>3, <2>3 DEF RecordStage
    <3> QED
      BY <1>1, <3>1, RecordAfter, RecordPut
  <2> QED
    BY <2>1, <2>2, <2>3
<1>4. CASE r \in lapsed
  BY <1>1, <1>2, <1>4, RecordPut
<1> QED
  BY <1>3, <1>4

LEMMA RecordNext == MInv /\ [Next]_mvars => [Record!Next]_(Record!vars)
<1> SUFFICES ASSUME MInv, [Next]_mvars PROVE [Record!Next]_(Record!vars)
  OBVIOUS
<1>0. TypeOK
  BY DEF MInv
<1>1. ASSUME NEW r \in Runs, StartStep(r) PROVE [Record!Next]_(Record!vars)
  <2>1. CASE UNCHANGED store
    BY <1>1, <2>1, RecordQuiet DEF StartStep, Admit, Create, Spawn, Enlist, StartReaper, store
  <2>2. CASE Create(r) /\ PutMeta(r, [status |-> "queued", verdict |-> FALSE])
    <3>1. meta[r].status = "none"
      BY <2>2 DEF Create, MInv, RecordStage, NoMeta
    <3> QED
      BY <1>0, <2>2, <3>1, Written, RecordAfter, RecordPut DEF Create, PutMeta
  <2>3. CASE Spawn(r) /\ PutMeta(r, [status |-> "error", verdict |-> FALSE])
    <3>1. meta[r].status = "queued"
      BY <2>3 DEF Spawn, MInv, RecordStage
    <3> QED
      BY <1>0, <2>3, <3>1, Written, RecordAfter, RecordPut DEF Spawn, PutMeta
  <2> QED
    BY <1>1, <2>1, <2>2, <2>3 DEF StartStep, Admit, Create, Spawn, Enlist, StartReaper
<1>2. ASSUME NEW r \in Runs, RunnerStep(r) PROVE [Record!Next]_(Record!vars)
  <2>1. UNCHANGED lapsed
    BY <1>2 DEF RunnerStep, RunnerBegin, RunnerRunning, RunnerEvent, RunnerFinalize,
                RunnerFinalized, RunnerExits, RunnerDies, SpecimenEnds, server
  <2>2. CASE Rename(r) /\ proc[r] \in {"begin", "final"}
    BY <2>1, <2>2, RecordRename
  <2>3. CASE UNCHANGED meta
    BY <2>1, <2>3, RecordQuiet
  <2>4. (Rename(r) /\ proc[r] \in {"begin", "final"}) \/ UNCHANGED meta
    BY <1>2 DEF RunnerStep, RunnerBegin, RunnerRunning, RunnerEvent, RunnerFinalize, RunnerFinalized,
                RunnerExits, RunnerDies, SpecimenEnds, Dies, Abandoned, WriteTmp, BeginLine, EndLine,
                InsertRow, Close, store
  <2> QED
    BY <2>2, <2>3, <2>4
<1>3. ASSUME NEW r \in Runs, ReapStep(r) PROVE [Record!Next]_(Record!vars)
  <2>1. CASE Wait(r)
    <3>1. CASE lapsed' = lapsed \cup {r}
      <4>1. Record!GiveUp(r)
        BY <2>1, <3>1 DEF Wait, store, Record!GiveUp
      <4> QED
        BY <4>1 DEF Record!Next
    <3>2. CASE lapsed' = lapsed
      BY <2>1, <3>2, RecordQuiet DEF Wait, store
    <3> QED
      BY <2>1, <3>1, <3>2 DEF Wait
  <2>2. CASE Check(r) \/ OpenStore(r) \/ ReadMeta(r) \/ WriteError(r) \/ Pop(r)
    BY <2>2, RecordQuiet DEF Check, OpenStore, ReadMeta, WriteError, Pop, Reconcile, WriteTmp, store
  <2>3. CASE RenameError(r)
    <3>1. CASE Rename(r)
      BY <2>3, <3>1, RecordRename DEF RenameError
    <3>2. CASE UNCHANGED store
      BY <2>3, <3>2, RecordQuiet DEF RenameError, store
    <3> QED
      BY <2>3, <3>1, <3>2 DEF RenameError
  <2> QED
    BY <1>3, <2>1, <2>2, <2>3 DEF ReapStep
<1>4. ASSUME NEW r \in Runs, StopStep(r) PROVE [Record!Next]_(Record!vars)
  BY <1>4, RecordQuiet DEF StopStep, StopRequest, Stop, Dies, Abandoned, store
<1>5. CASE Restart \/ UNCHANGED mvars
  BY <1>5, RecordQuiet DEF Restart, mvars, store, server
<1> QED
  BY <1>1, <1>2, <1>3, <1>4, <1>5, Steps

\* meta.json keeps the promise of RunRecord: whoever writes it (a start that fails,
\* the runner, its reaper), the status only goes on and an outcome stays with its
\* verdict, until the reaper gives up on the runner.
THEOREM RecordRefinement == Spec => RecordSpec
<1>1. Init => Record!Init
  BY DEF Init, StoreInit, NoMeta, Record!Init
<1> QED
  BY <1>1, RecordNext, ManagerInvariance, PTL DEF Spec, RecordSpec, Record!Spec

\* Hence, for a reader: once meta.json shows an outcome, status and verdict stay,
\* unless the reaper has given up on the runner.
THEOREM OutcomeFinal == Spec => Record!Final
<1> DEFINE Stays(r) == meta'[r].status = meta[r].status /\ meta'[r].verdict = meta[r].verdict
<1>1. ASSUME [Record!Next]_(Record!vars), NEW r \in Runs \ lapsed, meta[r].status \in Record!Outcome
      PROVE  Stays(r)
  <2>0. Record!After("finished") = {} /\ Record!After("killed") = {} /\ Record!After("error") = {}
    BY DEF Record!After
  <2>1. Record!After(meta[r].status) = {}
    BY <1>1, <2>0 DEF Record!Outcome
  <2>2. ASSUME NEW q \in Runs, NEW s, NEW d, Record!Put(q, s, d), q # r PROVE Stays(r)
    <3>1. [p \in Runs |-> meta[p].status]'[r] = [p \in Runs |-> meta[p].status][r]
      BY <2>2 DEF Record!Put
    <3>2. [p \in Runs |-> meta[p].verdict]'[r] = [p \in Runs |-> meta[p].verdict][r]
      BY <2>2 DEF Record!Put
    <3> QED
      BY <3>1, <3>2
  <2>3. ASSUME NEW q \in Runs, Record!Goes(q) PROVE Stays(r)
    BY <2>1, <2>2, <2>3 DEF Record!Goes
  <2>4. ASSUME NEW q \in Runs, Record!Overrule(q) PROVE Stays(r)
    BY <2>4 DEF Record!Overrule
  <2>5. ASSUME NEW q \in Runs, Record!Writes(q) PROVE Stays(r)
    BY <1>1, <2>2, <2>5 DEF Record!Writes
  <2>6. ASSUME \/ UNCHANGED Record!vars
               \/ \E q \in Runs : Record!GiveUp(q)
        PROVE  Stays(r)
    <3>1. /\ [p \in Runs |-> meta[p].status]'[r] = [p \in Runs |-> meta[p].status][r]
          /\ [p \in Runs |-> meta[p].verdict]'[r] = [p \in Runs |-> meta[p].verdict][r]
      BY <2>6 DEF Record!GiveUp, Record!vars
    <3> QED
      BY <3>1
  <2> QED
    BY <1>1, <2>3, <2>4, <2>5, <2>6 DEF Record!Next
<1>2. [Record!Next]_(Record!vars) => [Record!Kept]_(Record!vars)
  BY <1>1 DEF Record!Kept, Record!Stays
<1> QED
  BY <1>2, RecordRefinement, PTL DEF RecordSpec, Record!Spec, Record!Final
=============================================================================
