-------------------------- MODULE ReuseExec_proofs --------------------------
(***************************************************************************)
(* IInv is an invariant of ReuseExec, for any number of runs, roots,       *)
(* configurations, process numbers and container generations; what follows *)
(* from it are the safety properties of ReuseExec, and that it implements  *)
(* ExecFence.  A leaf cites the action, the conjunct it preserves and the  *)
(* conjuncts it needs.                                                     *)
(***************************************************************************)
EXTENDS ReuseExec_inv, TLAPS

USE DEF Stoppers, Launching, Inside

\* Every variable keeps its type, whatever any process does.
LEMMA TypeStep == TypeOK /\ [Next]_vars => TypeOK'
<1> SUFFICES ASSUME TypeOK, [Next]_vars PROVE TypeOK'
  OBVIOUS
<1> USE DEF TypeOK, container, record, tracking, locks, lifecycle, workload
<1>1. ASSUME NEW r \in Runs, HostStep(r) PROVE TypeOK'
  <2>1. CASE CreateRun(r)
    BY <2>1 DEF CreateRun
  <2>2. CASE EnterLifecycle(r)
    BY <2>2 DEF EnterLifecycle
  <2>3. CASE RemoveContainer(r)
    BY <2>3 DEF RemoveContainer, Vanish
  <2>4. CASE CreateContainer(r)
    <3>1. cgen' \in 0..MaxGen /\ cid' \in 0..MaxGen
      BY <2>4, MaxGenAssumption DEF CreateContainer
    <3>2. ccfg' = {ConfigOf[r]}
      BY <2>4 DEF CreateContainer
    <3>3. ConfigOf[r] \in Configs
      BY ConfigOfAssumption
    <3> QED
      BY <2>4, <3>1, <3>2, <3>3, MaxGenAssumption DEF CreateContainer
  <2>5. CASE Register(r)
    BY <2>5 DEF Register
  <2>6. CASE Exec(r)
    BY <2>6 DEF Exec
  <2>7. CASE Abandon(r)
    BY <2>7 DEF Abandon
  <2>8. CASE HostGone(r)
    BY <2>8 DEF HostGone
  <2> QED
    BY <1>1, <2>1, <2>2, <2>3, <2>4, <2>5, <2>6, <2>7, <2>8 DEF HostStep
<1>2. ASSUME NEW r \in Runs, StopStep(r) PROVE TypeOK'
  <2>1. ASSUME NEW who \in Stoppers, StopUnstarted(r, who) PROVE TypeOK'
    BY <2>1 DEF StopUnstarted, Retire
  <2>2. ASSUME NEW who \in Stoppers, StopEnter(r, who) PROVE TypeOK'
    BY <2>2 DEF StopEnter
  <2>3. CASE Tombstone(r)
    BY <2>3 DEF Tombstone
  <2>4. CASE StopOpen(r)
    BY <2>4 DEF StopOpen
  <2>5. CASE StopMatch(r)
    BY <2>5 DEF StopMatch
  <2>6. CASE StopAnswer(r)
    BY <2>6 DEF StopAnswer, StopReply, Retire, FreeLock
  <2>7. CASE StopSignal(r)
    <3>1. ASSUME NEW b \in BOOLEAN, StopReply(r, b)
          PROVE  /\ phase' \in [Runs -> {"none", "bare", "reserved", "pending",
                                         "launching", "running", "stopped"}]
                 /\ mark' \in SUBSET Runs /\ owner' \in SUBSET Runs
                 /\ lock' \in [Runs -> Stoppers \cup {"free", "runner"}]
                 /\ step' \in [Runs -> {"idle", "ask", "open", "armed"}]
                 /\ aim' \in [Runs -> Runs]
      BY <3>1 DEF StopReply, Retire, FreeLock
    <3>2. \E b \in BOOLEAN : StopReply(r, b)
      BY <2>7 DEF StopSignal
    <3>3. /\ leader' \in [Runs -> {"none", "live", "zombie", "reaped"}]
          /\ kids' \in SUBSET Runs
          /\ pgid' \in [Runs -> PGIDs \cup {NoPGID}]
      BY <2>7 DEF StopSignal, Signal
    <3>4. UNCHANGED <<container, rid, rgen, lifecycle, host, runner>>
      BY <2>7 DEF StopSignal
    <3> QED
      BY <3>1, <3>2, <3>3, <3>4
  <2>8. CASE StopCrash(r)
    BY <2>8 DEF StopCrash, FreeLock
  <2> QED
    BY <1>2, <2>1, <2>2, <2>3, <2>4, <2>5, <2>6, <2>7, <2>8 DEF StopStep
<1>3. ASSUME NEW r \in Runs, RunnerStep(r) PROVE TypeOK'
  <2>1. CASE RunnerStart(r)
    BY <2>1 DEF RunnerStart
  <2>2. CASE RunnerCheck(r)
    BY <2>2 DEF RunnerCheck
  <2>3. CASE Popen(r)
    BY <2>3 DEF Popen
  <2>4. CASE RunnerRecord(r)
    BY <2>4 DEF RunnerRecord
  <2>5. CASE RunnerDrain(r)
    BY <2>5 DEF RunnerDrain, Signal
  <2>6. CASE RunnerReap(r)
    BY <2>6 DEF RunnerReap
  <2>7. CASE RunnerFinal(r)
    BY <2>7 DEF RunnerFinal
  <2>8. CASE RunnerGone(r)
    BY <2>8 DEF RunnerGone
  <2> QED
    BY <1>3, <2>1, <2>2, <2>3, <2>4, <2>5, <2>6, <2>7, <2>8 DEF RunnerStep
<1>4. ASSUME NEW r \in Runs, WorkloadStep(r) PROVE TypeOK'
  BY <1>4 DEF WorkloadStep, LeaderExit, Kids, InitReap
<1>5. CASE LifecycleStep
  <2>1. ASSUME NEW root \in Roots, IdleBegin(root) PROVE TypeOK'
    BY <2>1 DEF IdleBegin
  <2>2. ASSUME NEW r \in Runs, ProbeGone(r) PROVE TypeOK'
    BY <2>2 DEF ProbeGone
  <2>3. CASE IdleStop
    BY <2>3 DEF IdleStop, Vanish
  <2>4. CASE IdleGiveUp
    BY <2>4 DEF IdleGiveUp
  <2> QED
    BY <1>5, <2>1, <2>2, <2>3, <2>4 DEF LifecycleStep
<1>6. CASE ContainerDies
  BY <1>6 DEF ContainerDies, Vanish
<1>7. CASE ContainerRestarts
  BY <1>7, MaxGenAssumption DEF ContainerRestarts
<1>8. CASE UNCHANGED vars
  BY <1>8 DEF vars
<1> QED
  BY <1>1, <1>2, <1>3, <1>4, <1>5, <1>6, <1>7, <1>8 DEF Next

\* The type invariant, for every instance.
THEOREM TypeCorrect == Spec => []TypeOK
<1>1. Init => TypeOK
  BY MaxGenAssumption DEF Init, TypeOK
<1> QED
  BY <1>1, TypeStep, PTL DEF Spec

-----------------------------------------------------------------------------
\* Every step preserves the inductive invariant.  Under each action: first the
\* conjuncts it cannot disturb, then each of the others.
LEMMA InductiveStep == IInv /\ [Next]_vars => IInv'
<1> SUFFICES ASSUME IInv, [Next]_vars PROVE IInv'
  OBVIOUS
<1> USE DEF container, record, tracking, locks, lifecycle, workload
<1>0. TypeOK /\ TypeOK'
  BY TypeStep DEF IInv
\* The launching host process.
<1>1. ASSUME NEW r \in Runs, CreateRun(r) PROVE IInv'
  <2>1. OwnNumber'
    BY <1>1 DEF IInv, CreateRun, OwnNumber, Held, GroupAlive
  <2>2. LifecycleMutex'
    BY <1>1, <1>0 DEF IInv, TypeOK, CreateRun, LifecycleMutex
  <2>3. \A q \in Runs : HostStage(q)'
    BY <1>1, <1>0 DEF IInv, TypeOK, CreateRun, HostStage
  <2>4. \A q \in Runs : RunnerStage(q)'
    BY <1>1, <1>0 DEF IInv, TypeOK, CreateRun, RunnerStage, Held, GroupAlive
  <2>5. \A q \in Runs : GroupStage(q)'
    BY <1>1, <1>0 DEF IInv, TypeOK, CreateRun, GroupStage, GroupAlive
  <2>6. \A q \in Runs : Tracked(q)'
    BY <1>1, <1>0 DEF IInv, TypeOK, CreateRun, Tracked, GroupAlive, Current
  <2>7. \A q \in Runs : StopStage(q)'
    BY <1>1, <1>0 DEF IInv, TypeOK, CreateRun, StopStage, Held
  <2>8. Scanned'
    BY <1>1, <1>0 DEF IInv, TypeOK, CreateRun, Scanned, Busy, GroupAlive,
        Current
  <2> QED
    BY <1>0, <2>1, <2>2, <2>3, <2>4, <2>5, <2>6, <2>7, <2>8 DEF IInv
<1>2. ASSUME NEW r \in Runs, EnterLifecycle(r) PROVE IInv'
  <2>1. OwnNumber' /\ \A q \in Runs : RunnerStage(q)' /\ GroupStage(q)' /\
        StopStage(q)'
    BY <1>2 DEF IInv, EnterLifecycle, RunnerStage, Held, GroupAlive,
        GroupStage, StopStage, OwnNumber
  <2>2. LifecycleMutex'
    BY <1>2, <1>0 DEF IInv, TypeOK, EnterLifecycle, LifecycleMutex,
        LifecycleFree
  <2>3. \A q \in Runs : HostStage(q)'
    BY <1>2, <1>0 DEF IInv, TypeOK, EnterLifecycle, HostStage, LifecycleFree
  <2>4. \A q \in Runs : Tracked(q)'
    BY <1>2, <1>0 DEF IInv, TypeOK, EnterLifecycle, Tracked, GroupAlive,
        Current, LifecycleFree
  <2>5. Scanned'
    BY <1>2, <1>0 DEF IInv, TypeOK, EnterLifecycle, Scanned, GroupStage,
        Tracked, Busy, GroupAlive, Current, LifecycleFree
  <2> QED
    BY <1>0, <2>1, <2>2, <2>3, <2>4, <2>5 DEF IInv
<1>3. ASSUME NEW r \in Runs, RemoveContainer(r) PROVE IInv'
  <2>1. LifecycleMutex'
    BY <1>3, <1>0 DEF IInv, TypeOK, RemoveContainer, LifecycleMutex, Vanish
  <2>2. \A q \in Runs : HostStage(q)'
    BY <1>3, <1>0 DEF IInv, TypeOK, RemoveContainer, HostStage, Vanish
  <2>3. \A q \in Runs : RunnerStage(q)'
    BY <1>3, <1>0 DEF IInv, TypeOK, RemoveContainer, RunnerStage, Held,
        GroupAlive, Vanish
  <2>4. \A q \in Runs : GroupStage(q)'
    BY <1>3, <1>0 DEF IInv, TypeOK, RemoveContainer, GroupStage, GroupAlive,
        Vanish
  <2>5. \A q \in Runs : Tracked(q)'
    BY <1>3, <1>0 DEF IInv, TypeOK, RemoveContainer, Tracked, GroupAlive,
        Current, Vanish
  <2>6. \A q \in Runs : StopStage(q)'
    BY <1>3, <1>0 DEF IInv, TypeOK, RemoveContainer, StopStage, Held, Vanish
  <2>7. OwnNumber'
    BY <1>3, <1>0 DEF IInv, TypeOK, RemoveContainer, OwnNumber, Held,
        GroupAlive, Vanish
  <2>8. Scanned'
    BY <1>3, <1>0 DEF IInv, TypeOK, RemoveContainer, Scanned, Busy,
        GroupAlive, Current, Vanish
  <2> QED
    BY <1>0, <2>1, <2>2, <2>3, <2>4, <2>5, <2>6, <2>7, <2>8 DEF IInv
<1>4. ASSUME NEW r \in Runs, CreateContainer(r) PROVE IInv'
  <2>1. OwnNumber' /\ \A q \in Runs : RunnerStage(q)' /\ GroupStage(q)' /\
        StopStage(q)'
    BY <1>4 DEF IInv, CreateContainer, RunnerStage, Held, GroupAlive,
        GroupStage, StopStage, OwnNumber
  <2>2. LifecycleMutex'
    BY <1>4, <1>0 DEF IInv, TypeOK, CreateContainer, LifecycleMutex
  <2>3. \A q \in Runs : HostStage(q)'
    BY <1>4, <1>0 DEF IInv, TypeOK, CreateContainer, HostStage
  <2>4. \A q \in Runs : Tracked(q)'
    BY <1>4, <1>0 DEF IInv, TypeOK, CreateContainer, Tracked, GroupAlive,
        Current
  <2>5. Scanned'
    BY <1>4, <1>0 DEF IInv, TypeOK, CreateContainer, Scanned, LifecycleMutex,
        Busy, GroupAlive, Current
  <2> QED
    BY <1>0, <2>1, <2>2, <2>3, <2>4, <2>5 DEF IInv
<1>5. ASSUME NEW r \in Runs, Register(r) PROVE IInv'
  <2>1. OwnNumber'
    BY <1>5 DEF IInv, Register, OwnNumber, Held, GroupAlive
  <2>2. LifecycleMutex'
    BY <1>5, <1>0 DEF IInv, TypeOK, Register, LifecycleMutex
  <2>3. \A q \in Runs : HostStage(q)'
    BY <1>5, <1>0 DEF IInv, TypeOK, Register, HostStage
  <2>4. \A q \in Runs : RunnerStage(q)'
    BY <1>5, <1>0 DEF IInv, TypeOK, Register, RunnerStage, Held, GroupAlive
  <2>5. \A q \in Runs : GroupStage(q)'
    BY <1>5, <1>0 DEF IInv, TypeOK, Register, GroupStage, GroupAlive
  <2>6. \A q \in Runs : Tracked(q)'
    BY <1>5, <1>0 DEF IInv, TypeOK, Register, Tracked, HostStage, GroupAlive,
        Current
  <2>7. \A q \in Runs : StopStage(q)'
    BY <1>5, <1>0 DEF IInv, TypeOK, Register, StopStage, Held
  <2>8. Scanned'
    BY <1>5, <1>0 DEF IInv, TypeOK, Register, Scanned, LifecycleMutex,
        OwnNumber, Busy, GroupAlive, Current
  <2> QED
    BY <1>0, <2>1, <2>2, <2>3, <2>4, <2>5, <2>6, <2>7, <2>8 DEF IInv
<1>6. ASSUME NEW r \in Runs, Exec(r) PROVE IInv'
  <2>1. OwnNumber' /\ \A q \in Runs : GroupStage(q)' /\ StopStage(q)'
    BY <1>6 DEF IInv, Exec, GroupStage, GroupAlive, StopStage, Held, OwnNumber
  <2>2. LifecycleMutex'
    BY <1>6, <1>0 DEF IInv, TypeOK, Exec, LifecycleMutex
  <2>3. \A q \in Runs : HostStage(q)'
    BY <1>6, <1>0 DEF IInv, TypeOK, Exec, HostStage
  <2>4. \A q \in Runs : RunnerStage(q)'
    BY <1>6, <1>0 DEF IInv, TypeOK, Exec, RunnerStage, HostStage, Held,
        GroupAlive
  <2>5. \A q \in Runs : Tracked(q)'
    BY <1>6, <1>0 DEF IInv, TypeOK, Exec, Tracked, GroupAlive, Current
  <2>6. Scanned'
    BY <1>6, <1>0 DEF IInv, TypeOK, Exec, Scanned, Busy, GroupAlive, Current
  <2> QED
    BY <1>0, <2>1, <2>2, <2>3, <2>4, <2>5, <2>6 DEF IInv
<1>7. ASSUME NEW r \in Runs, Abandon(r) PROVE IInv'
  <2>1. OwnNumber'
    BY <1>7 DEF IInv, Abandon, OwnNumber, Held, GroupAlive
  <2>2. LifecycleMutex'
    BY <1>7, <1>0 DEF IInv, TypeOK, Abandon, LifecycleMutex
  <2>3. \A q \in Runs : HostStage(q)'
    BY <1>7, <1>0 DEF IInv, TypeOK, Abandon, HostStage
  <2>4. \A q \in Runs : RunnerStage(q)'
    BY <1>7, <1>0 DEF IInv, TypeOK, Abandon, RunnerStage, Held, GroupAlive
  <2>5. \A q \in Runs : GroupStage(q)'
    BY <1>7, <1>0 DEF IInv, TypeOK, Abandon, GroupStage, GroupAlive
  <2>6. \A q \in Runs : Tracked(q)'
    BY <1>7, <1>0 DEF IInv, TypeOK, Abandon, Tracked, GroupAlive, Current
  <2>7. \A q \in Runs : StopStage(q)'
    BY <1>7, <1>0 DEF IInv, TypeOK, Abandon, StopStage, Held
  <2>8. Scanned'
    BY <1>7, <1>0 DEF IInv, TypeOK, Abandon, Scanned, Busy, GroupAlive,
        Current
  <2> QED
    BY <1>0, <2>1, <2>2, <2>3, <2>4, <2>5, <2>6, <2>7, <2>8 DEF IInv
<1>8. ASSUME NEW r \in Runs, HostGone(r) PROVE IInv'
  <2>1. OwnNumber' /\ \A q \in Runs : GroupStage(q)'
    BY <1>8 DEF IInv, HostGone, GroupStage, GroupAlive, OwnNumber, Held
  <2>2. LifecycleMutex'
    BY <1>8, <1>0 DEF IInv, TypeOK, HostGone, LifecycleMutex
  <2>3. \A q \in Runs : HostStage(q)'
    BY <1>8, <1>0 DEF IInv, TypeOK, HostGone, HostStage
  <2>4. \A q \in Runs : RunnerStage(q)'
    BY <1>8, <1>0 DEF IInv, TypeOK, HostGone, RunnerStage, Held, GroupAlive
  <2>5. \A q \in Runs : Tracked(q)'
    BY <1>8, <1>0 DEF IInv, TypeOK, HostGone, Tracked, GroupAlive, Current
  <2>6. \A q \in Runs : StopStage(q)'
    BY <1>8, <1>0 DEF IInv, TypeOK, HostGone, StopStage, Held
  <2>7. Scanned'
    BY <1>8, <1>0 DEF IInv, TypeOK, HostGone, Scanned, LifecycleMutex, Busy,
        GroupAlive, Current
  <2> QED
    BY <1>0, <2>1, <2>2, <2>3, <2>4, <2>5, <2>6, <2>7 DEF IInv
\* The stops.
<1>9. ASSUME NEW r \in Runs, NEW who \in Stoppers, StopUnstarted(r, who) PROVE IInv'
  <2>1. LifecycleMutex' /\ OwnNumber'
    BY <1>9 DEF IInv, StopUnstarted, Retire, LifecycleMutex, OwnNumber, Held,
        GroupAlive
  <2>2. \A q \in Runs : HostStage(q)'
    BY <1>9, <1>0 DEF IInv, TypeOK, StopUnstarted, HostStage, MayStop, Retire
  <2>3. \A q \in Runs : RunnerStage(q)'
    BY <1>9, <1>0 DEF IInv, TypeOK, StopUnstarted, RunnerStage, Held,
        GroupAlive, MayStop, Retire
  <2>4. \A q \in Runs : GroupStage(q)'
    BY <1>9, <1>0 DEF IInv, TypeOK, StopUnstarted, GroupStage, GroupAlive,
        MayStop, Retire
  <2>5. \A q \in Runs : Tracked(q)'
    BY <1>9, <1>0 DEF IInv, TypeOK, StopUnstarted, Tracked, GroupAlive,
        Current, MayStop, Retire
  <2>6. \A q \in Runs : StopStage(q)'
    BY <1>9, <1>0 DEF IInv, TypeOK, StopUnstarted, StopStage, Held, MayStop,
        Retire
  <2>7. Scanned'
    BY <1>9, <1>0 DEF IInv, TypeOK, StopUnstarted, Scanned, Busy, GroupAlive,
        Current, MayStop, Retire
  <2> QED
    BY <1>0, <2>1, <2>2, <2>3, <2>4, <2>5, <2>6, <2>7 DEF IInv
<1>10. ASSUME NEW r \in Runs, NEW who \in Stoppers, StopEnter(r, who) PROVE IInv'
  <2>1. LifecycleMutex' /\ OwnNumber' /\ Scanned' /\ \A q \in Runs :
        HostStage(q)' /\ GroupStage(q)' /\ Tracked(q)'
    BY <1>10 DEF IInv, StopEnter, LifecycleMutex, HostStage, GroupStage,
        GroupAlive, Tracked, Current, OwnNumber, Held, Scanned, Busy
  <2>2. \A q \in Runs : RunnerStage(q)'
    BY <1>10, <1>0 DEF IInv, TypeOK, StopEnter, RunnerStage, Held, GroupAlive,
        MayStop
  <2>3. \A q \in Runs : StopStage(q)'
    BY <1>10, <1>0 DEF IInv, TypeOK, StopEnter, StopStage, Held, MayStop
  <2> QED
    BY <1>0, <2>1, <2>2, <2>3 DEF IInv
<1>11. ASSUME NEW r \in Runs, Tombstone(r) PROVE IInv'
  <2>1. LifecycleMutex' /\ OwnNumber'
    BY <1>11 DEF IInv, Tombstone, LifecycleMutex, OwnNumber, Held, GroupAlive
  <2>2. \A q \in Runs : HostStage(q)'
    BY <1>11, <1>0 DEF IInv, TypeOK, Tombstone, HostStage
  <2>3. \A q \in Runs : RunnerStage(q)'
    BY <1>11, <1>0 DEF IInv, TypeOK, Tombstone, RunnerStage, Held, GroupAlive
  <2>4. \A q \in Runs : GroupStage(q)'
    BY <1>11, <1>0 DEF IInv, TypeOK, Tombstone, GroupStage, GroupAlive
  <2>5. \A q \in Runs : Tracked(q)'
    BY <1>11, <1>0 DEF IInv, TypeOK, Tombstone, Tracked, GroupAlive, Current
  <2>6. \A q \in Runs : StopStage(q)'
    BY <1>11, <1>0 DEF IInv, TypeOK, Tombstone, StopStage, Held
  <2>7. Scanned'
    BY <1>11, <1>0 DEF IInv, TypeOK, Tombstone, Scanned, Busy, GroupAlive,
        Current
  <2> QED
    BY <1>0, <2>1, <2>2, <2>3, <2>4, <2>5, <2>6, <2>7 DEF IInv
<1>12. ASSUME NEW r \in Runs, StopOpen(r) PROVE IInv'
  <2>1. LifecycleMutex' /\ OwnNumber' /\ Scanned' /\ \A q \in Runs :
        HostStage(q)' /\ RunnerStage(q)' /\ GroupStage(q)' /\ Tracked(q)'
    BY <1>12 DEF IInv, StopOpen, LifecycleMutex, HostStage, RunnerStage, Held,
        GroupAlive, GroupStage, Tracked, Current, OwnNumber, Scanned, Busy
  <2>2. \A q \in Runs : StopStage(q)'
    BY <1>12, <1>0 DEF IInv, TypeOK, StopOpen, StopStage, OwnNumber, Held
  <2> QED
    BY <1>0, <2>1, <2>2 DEF IInv
<1>13. ASSUME NEW r \in Runs, StopMatch(r) PROVE IInv'
  <2>1. LifecycleMutex' /\ OwnNumber' /\ Scanned' /\ \A q \in Runs :
        HostStage(q)' /\ RunnerStage(q)' /\ GroupStage(q)' /\ Tracked(q)'
    BY <1>13 DEF IInv, StopMatch, LifecycleMutex, HostStage, RunnerStage,
        Held, GroupAlive, GroupStage, Tracked, Current, OwnNumber, Scanned,
        Busy
  <2>2. \A q \in Runs : StopStage(q)'
    BY <1>13, <1>0 DEF IInv, TypeOK, StopMatch, StopStage, Held
  <2> QED
    BY <1>0, <2>1, <2>2 DEF IInv
<1>14. ASSUME NEW r \in Runs, StopAnswer(r) PROVE IInv'
  <2>1. LifecycleMutex' /\ OwnNumber'
    BY <1>14 DEF IInv, StopAnswer, StopReply, Retire, FreeLock,
        LifecycleMutex, OwnNumber, Held, GroupAlive
  <2>2. \A q \in Runs : HostStage(q)'
    BY <1>14, <1>0 DEF IInv, TypeOK, StopAnswer, HostStage, StopReply, Retire,
        FreeLock, ControlGone, GroupGone, Members
  <2>3. \A q \in Runs : RunnerStage(q)'
    BY <1>14, <1>0 DEF IInv, TypeOK, StopAnswer, RunnerStage, StopStage, Held,
        GroupAlive, StopReply, Retire, FreeLock, ControlGone, GroupGone,
        Members
  <2>4. \A q \in Runs : GroupStage(q)'
    BY <1>14, <1>0 DEF IInv, TypeOK, StopAnswer, GroupStage, Tracked,
        OwnNumber, GroupAlive, StopReply, Retire, FreeLock, ControlGone,
        GroupGone, Members
  <2>5. \A q \in Runs : Tracked(q)'
    BY <1>14, <1>0 DEF IInv, TypeOK, StopAnswer, Tracked, GroupAlive, Current,
        StopReply, Retire, FreeLock, ControlGone, GroupGone, Members
  <2>6. \A q \in Runs : StopStage(q)'
    BY <1>14, <1>0 DEF IInv, TypeOK, StopAnswer, StopStage, Held, StopReply,
        Retire, FreeLock, ControlGone, GroupGone, Members
  <2>7. Scanned'
    BY <1>14, <1>0 DEF IInv, TypeOK, StopAnswer, Scanned, Busy, GroupAlive,
        Current, StopReply, Retire, FreeLock, ControlGone, GroupGone, Members
  <2> QED
    BY <1>0, <2>1, <2>2, <2>3, <2>4, <2>5, <2>6, <2>7 DEF IInv
<1>15. ASSUME NEW r \in Runs, StopSignal(r) PROVE IInv'
  <2>1. LifecycleMutex'
    BY <1>15 DEF IInv, StopSignal, Signal, StopReply, Retire, FreeLock,
        LifecycleMutex
  <2>2. \A q \in Runs : HostStage(q)'
    BY <1>15, <1>0 DEF IInv, TypeOK, StopSignal, HostStage, Victims, Signal,
        StopReply, Retire, FreeLock, Members
  <2>3. \A q \in Runs : RunnerStage(q)'
    BY <1>15, <1>0 DEF IInv, TypeOK, StopSignal, RunnerStage, StopStage, Held,
        GroupAlive, Victims, Signal, StopReply, Retire, FreeLock, Members
  <2>4. \A q \in Runs : GroupStage(q)'
    BY <1>15, <1>0 DEF IInv, TypeOK, StopSignal, GroupStage, Tracked,
        GroupAlive, Victims, Signal, StopReply, Retire, FreeLock, Members
  <2>5. \A q \in Runs : Tracked(q)'
    BY <1>15, <1>0 DEF IInv, TypeOK, StopSignal, Tracked, GroupAlive, Current,
        Victims, Signal, StopReply, Retire, FreeLock, Members
  <2>6. \A q \in Runs : StopStage(q)'
    BY <1>15, <1>0 DEF IInv, TypeOK, StopSignal, StopStage, Held, Victims,
        Signal, StopReply, Retire, FreeLock, Members
  <2>7. OwnNumber'
    BY <1>15, <1>0 DEF IInv, TypeOK, StopSignal, OwnNumber, Held, GroupAlive,
        Victims, Signal, StopReply, Retire, FreeLock, Members
  <2>8. Scanned'
    BY <1>15, <1>0 DEF IInv, TypeOK, StopSignal, Scanned, Busy, GroupAlive,
        Current, Victims, Signal, StopReply, Retire, FreeLock, Members
  <2> QED
    BY <1>0, <2>1, <2>2, <2>3, <2>4, <2>5, <2>6, <2>7, <2>8 DEF IInv
<1>16. ASSUME NEW r \in Runs, StopCrash(r) PROVE IInv'
  <2>1. LifecycleMutex' /\ OwnNumber' /\ Scanned' /\ \A q \in Runs :
        HostStage(q)' /\ GroupStage(q)' /\ Tracked(q)'
    BY <1>16 DEF IInv, StopCrash, FreeLock, LifecycleMutex, HostStage,
        GroupStage, GroupAlive, Tracked, Current, OwnNumber, Held, Scanned,
        Busy
  <2>2. \A q \in Runs : RunnerStage(q)'
    BY <1>16, <1>0 DEF IInv, TypeOK, StopCrash, RunnerStage, Held, GroupAlive,
        FreeLock
  <2>3. \A q \in Runs : StopStage(q)'
    BY <1>16, <1>0 DEF IInv, TypeOK, StopCrash, StopStage, Held, FreeLock
  <2> QED
    BY <1>0, <2>1, <2>2, <2>3 DEF IInv
\* The in-container runner.
<1>17. ASSUME NEW r \in Runs, RunnerStart(r) PROVE IInv'
  <2>1. LifecycleMutex' /\ OwnNumber' /\ Scanned' /\ \A q \in Runs :
        GroupStage(q)' /\ StopStage(q)'
    BY <1>17 DEF IInv, RunnerStart, LifecycleMutex, GroupStage, GroupAlive,
        StopStage, Held, OwnNumber, Scanned, Busy, Current
  <2>2. \A q \in Runs : HostStage(q)'
    BY <1>17, <1>0 DEF IInv, TypeOK, RunnerStart, HostStage
  <2>3. \A q \in Runs : RunnerStage(q)'
    BY <1>17, <1>0 DEF IInv, TypeOK, RunnerStart, RunnerStage, Held,
        GroupAlive
  <2>4. \A q \in Runs : Tracked(q)'
    BY <1>17, <1>0 DEF IInv, TypeOK, RunnerStart, Tracked, GroupAlive, Current
  <2> QED
    BY <1>0, <2>1, <2>2, <2>3, <2>4 DEF IInv
<1>18. ASSUME NEW r \in Runs, RunnerCheck(r) PROVE IInv'
  <2>1. LifecycleMutex' /\ OwnNumber'
    BY <1>18 DEF IInv, RunnerCheck, LifecycleMutex, OwnNumber, Held,
        GroupAlive
  <2>2. \A q \in Runs : HostStage(q)'
    BY <1>18, <1>0 DEF IInv, TypeOK, RunnerCheck, HostStage
  <2>3. \A q \in Runs : RunnerStage(q)'
    BY <1>18, <1>0 DEF IInv, TypeOK, RunnerCheck, RunnerStage, Held,
        GroupAlive
  <2>4. \A q \in Runs : GroupStage(q)'
    BY <1>18, <1>0 DEF IInv, TypeOK, RunnerCheck, GroupStage, GroupAlive
  <2>5. \A q \in Runs : Tracked(q)'
    BY <1>18, <1>0 DEF IInv, TypeOK, RunnerCheck, Tracked, GroupAlive, Current
  <2>6. \A q \in Runs : StopStage(q)'
    BY <1>18, <1>0 DEF IInv, TypeOK, RunnerCheck, StopStage, Held
  <2>7. Scanned'
    BY <1>18, <1>0 DEF IInv, TypeOK, RunnerCheck, Scanned, Busy, GroupAlive,
        Current
  <2> QED
    BY <1>0, <2>1, <2>2, <2>3, <2>4, <2>5, <2>6, <2>7 DEF IInv
<1>19. ASSUME NEW r \in Runs, Popen(r) PROVE IInv'
  <2>1. LifecycleMutex'
    BY <1>19 DEF IInv, Popen, LifecycleMutex
  <2>2. \A q \in Runs : HostStage(q)'
    BY <1>19, <1>0 DEF IInv, TypeOK, Popen, HostStage, FreeNumber
  <2>3. \A q \in Runs : RunnerStage(q)'
    BY <1>19, <1>0 DEF IInv, TypeOK, Popen, RunnerStage, Held, GroupAlive,
        FreeNumber
  <2>4. \A q \in Runs : GroupStage(q)'
    BY <1>19, <1>0 DEF IInv, TypeOK, Popen, GroupStage, RunnerStage,
        GroupAlive, FreeNumber
  <2>5. \A q \in Runs : Tracked(q)'
    BY <1>19, <1>0 DEF IInv, TypeOK, Popen, Tracked, GroupAlive, Current,
        FreeNumber
  <2>6. \A q \in Runs : StopStage(q)'
    BY <1>19, <1>0 DEF IInv, TypeOK, Popen, StopStage, RunnerStage, Held,
        FreeNumber
  <2>7. OwnNumber'
    BY <1>19, <1>0 DEF IInv, TypeOK, Popen, OwnNumber, Held, GroupAlive,
        FreeNumber
  <2>8. Scanned'
    BY <1>19, <1>0 DEF IInv, TypeOK, Popen, Scanned, RunnerStage, Tracked,
        Busy, GroupAlive, Current, FreeNumber
  <2> QED
    BY <1>0, <2>1, <2>2, <2>3, <2>4, <2>5, <2>6, <2>7, <2>8 DEF IInv
<1>20. ASSUME NEW r \in Runs, RunnerRecord(r) PROVE IInv'
  <2>1. LifecycleMutex'
    BY <1>20 DEF IInv, RunnerRecord, LifecycleMutex
  <2>2. \A q \in Runs : HostStage(q)'
    BY <1>20, <1>0 DEF IInv, TypeOK, RunnerRecord, HostStage
  <2>3. \A q \in Runs : RunnerStage(q)'
    BY <1>20, <1>0 DEF IInv, TypeOK, RunnerRecord, RunnerStage, Held,
        GroupAlive
  <2>4. \A q \in Runs : GroupStage(q)'
    BY <1>20, <1>0 DEF IInv, TypeOK, RunnerRecord, GroupStage, GroupAlive
  <2>5. \A q \in Runs : Tracked(q)'
    BY <1>20, <1>0 DEF IInv, TypeOK, RunnerRecord, Tracked, RunnerStage,
        GroupAlive, Current
  <2>6. \A q \in Runs : StopStage(q)'
    BY <1>20, <1>0 DEF IInv, TypeOK, RunnerRecord, StopStage, RunnerStage,
        Held
  <2>7. OwnNumber'
    BY <1>20, <1>0 DEF IInv, TypeOK, RunnerRecord, OwnNumber, Held, GroupAlive
  <2>8. Scanned'
    BY <1>20, <1>0 DEF IInv, TypeOK, RunnerRecord, Scanned, RunnerStage, Busy,
        GroupAlive, Current
  <2> QED
    BY <1>0, <2>1, <2>2, <2>3, <2>4, <2>5, <2>6, <2>7, <2>8 DEF IInv
<1>21. ASSUME NEW r \in Runs, RunnerDrain(r) PROVE IInv'
  <2>1. LifecycleMutex'
    BY <1>21 DEF IInv, RunnerDrain, LifecycleMutex
  <2>2. \A q \in Runs : HostStage(q)'
    BY <1>21, <1>0 DEF IInv, TypeOK, RunnerDrain, HostStage, Victims, Signal
  <2>3. \A q \in Runs : RunnerStage(q)'
    BY <1>21, <1>0 DEF IInv, TypeOK, RunnerDrain, RunnerStage, Held,
        GroupAlive, Victims, Signal
  <2>4. \A q \in Runs : GroupStage(q)'
    BY <1>21, <1>0 DEF IInv, TypeOK, RunnerDrain, GroupStage, GroupAlive,
        Victims, Signal
  <2>5. \A q \in Runs : Tracked(q)'
    BY <1>21, <1>0 DEF IInv, TypeOK, RunnerDrain, Tracked, GroupAlive,
        Current, Victims, Signal
  <2>6. \A q \in Runs : StopStage(q)'
    BY <1>21, <1>0 DEF IInv, TypeOK, RunnerDrain, StopStage, Held, Victims,
        Signal
  <2>7. OwnNumber'
    BY <1>21, <1>0 DEF IInv, TypeOK, RunnerDrain, OwnNumber, Held, GroupAlive,
        Victims, Signal
  <2>8. Scanned'
    BY <1>21, <1>0 DEF IInv, TypeOK, RunnerDrain, Scanned, Busy, GroupAlive,
        Current, Victims, Signal
  <2> QED
    BY <1>0, <2>1, <2>2, <2>3, <2>4, <2>5, <2>6, <2>7, <2>8 DEF IInv
<1>22. ASSUME NEW r \in Runs, RunnerReap(r) PROVE IInv'
  <2>1. LifecycleMutex'
    BY <1>22 DEF IInv, RunnerReap, LifecycleMutex
  <2>2. \A q \in Runs : HostStage(q)'
    BY <1>22, <1>0 DEF IInv, TypeOK, RunnerReap, HostStage
  <2>3. \A q \in Runs : RunnerStage(q)'
    BY <1>22, <1>0 DEF IInv, TypeOK, RunnerReap, RunnerStage, Held, GroupAlive
  <2>4. \A q \in Runs : GroupStage(q)'
    BY <1>22, <1>0 DEF IInv, TypeOK, RunnerReap, GroupStage, RunnerStage,
        GroupAlive
  <2>5. \A q \in Runs : Tracked(q)'
    BY <1>22, <1>0 DEF IInv, TypeOK, RunnerReap, Tracked, GroupAlive, Current
  <2>6. \A q \in Runs : StopStage(q)'
    BY <1>22, <1>0 DEF IInv, TypeOK, RunnerReap, StopStage, Held
  <2>7. OwnNumber'
    BY <1>22, <1>0 DEF IInv, TypeOK, RunnerReap, OwnNumber, Held, GroupAlive
  <2>8. Scanned'
    BY <1>22, <1>0 DEF IInv, TypeOK, RunnerReap, Scanned, Busy, GroupAlive,
        Current
  <2> QED
    BY <1>0, <2>1, <2>2, <2>3, <2>4, <2>5, <2>6, <2>7, <2>8 DEF IInv
<1>23. ASSUME NEW r \in Runs, RunnerFinal(r) PROVE IInv'
  <2>1. LifecycleMutex' /\ OwnNumber'
    BY <1>23 DEF IInv, RunnerFinal, LifecycleMutex, OwnNumber, Held,
        GroupAlive
  <2>2. \A q \in Runs : HostStage(q)'
    BY <1>23, <1>0 DEF IInv, TypeOK, RunnerFinal, HostStage
  <2>3. \A q \in Runs : RunnerStage(q)'
    BY <1>23, <1>0 DEF IInv, TypeOK, RunnerFinal, RunnerStage, Held,
        GroupAlive
  <2>4. \A q \in Runs : GroupStage(q)'
    BY <1>23, <1>0 DEF IInv, TypeOK, RunnerFinal, GroupStage, RunnerStage,
        GroupAlive
  <2>5. \A q \in Runs : Tracked(q)'
    BY <1>23, <1>0 DEF IInv, TypeOK, RunnerFinal, Tracked, GroupAlive, Current
  <2>6. \A q \in Runs : StopStage(q)'
    BY <1>23, <1>0 DEF IInv, TypeOK, RunnerFinal, StopStage, Held
  <2>7. Scanned'
    BY <1>23, <1>0 DEF IInv, TypeOK, RunnerFinal, Scanned, Busy, GroupAlive,
        Current
  <2> QED
    BY <1>0, <2>1, <2>2, <2>3, <2>4, <2>5, <2>6, <2>7 DEF IInv
<1>24. ASSUME NEW r \in Runs, RunnerGone(r) PROVE IInv'
  <2>1. LifecycleMutex' /\ OwnNumber' /\ Scanned' /\ \A q \in Runs :
        GroupStage(q)'
    BY <1>24 DEF IInv, RunnerGone, LifecycleMutex, GroupStage, GroupAlive,
        OwnNumber, Held, Scanned, Busy, Current
  <2>2. \A q \in Runs : HostStage(q)'
    BY <1>24, <1>0 DEF IInv, TypeOK, RunnerGone, HostStage
  <2>3. \A q \in Runs : RunnerStage(q)'
    BY <1>24, <1>0 DEF IInv, TypeOK, RunnerGone, RunnerStage, Held, GroupAlive
  <2>4. \A q \in Runs : Tracked(q)'
    BY <1>24, <1>0 DEF IInv, TypeOK, RunnerGone, Tracked, GroupAlive, Current
  <2>5. \A q \in Runs : StopStage(q)'
    BY <1>24, <1>0 DEF IInv, TypeOK, RunnerGone, StopStage, Held
  <2> QED
    BY <1>0, <2>1, <2>2, <2>3, <2>4, <2>5 DEF IInv
\* The workload.
<1>25. ASSUME NEW r \in Runs, LeaderExit(r) PROVE IInv'
  <2>1. LifecycleMutex' /\ \A q \in Runs : HostStage(q)'
    BY <1>25 DEF IInv, LeaderExit, LifecycleMutex, HostStage
  <2>2. \A q \in Runs : RunnerStage(q)'
    BY <1>25, <1>0 DEF IInv, TypeOK, LeaderExit, RunnerStage, Held, GroupAlive
  <2>3. \A q \in Runs : GroupStage(q)'
    BY <1>25, <1>0 DEF IInv, TypeOK, LeaderExit, GroupStage, GroupAlive
  <2>4. \A q \in Runs : Tracked(q)'
    BY <1>25, <1>0 DEF IInv, TypeOK, LeaderExit, Tracked, GroupAlive, Current
  <2>5. \A q \in Runs : StopStage(q)'
    BY <1>25, <1>0 DEF IInv, TypeOK, LeaderExit, StopStage, Held
  <2>6. OwnNumber'
    BY <1>25, <1>0 DEF IInv, TypeOK, LeaderExit, OwnNumber, Held, GroupAlive
  <2>7. Scanned'
    BY <1>25, <1>0 DEF IInv, TypeOK, LeaderExit, Scanned, Busy, GroupAlive,
        Current
  <2> QED
    BY <1>0, <2>1, <2>2, <2>3, <2>4, <2>5, <2>6, <2>7 DEF IInv
<1>26. ASSUME NEW r \in Runs, Kids(r) PROVE IInv'
  <2>1. LifecycleMutex' /\ \A q \in Runs : HostStage(q)' /\ StopStage(q)'
    BY <1>26 DEF IInv, Kids, LifecycleMutex, HostStage, StopStage, Held
  <2>2. \A q \in Runs : RunnerStage(q)'
    BY <1>26, <1>0 DEF IInv, TypeOK, Kids, RunnerStage, Held, GroupAlive
  <2>3. \A q \in Runs : GroupStage(q)'
    BY <1>26, <1>0 DEF IInv, TypeOK, Kids, GroupStage, GroupAlive
  <2>4. \A q \in Runs : Tracked(q)'
    BY <1>26, <1>0 DEF IInv, TypeOK, Kids, Tracked, GroupAlive, Current
  <2>5. OwnNumber'
    BY <1>26, <1>0 DEF IInv, TypeOK, Kids, OwnNumber, Held, GroupAlive
  <2>6. Scanned'
    BY <1>26, <1>0 DEF IInv, TypeOK, Kids, Scanned, Busy, GroupAlive, Current
  <2> QED
    BY <1>0, <2>1, <2>2, <2>3, <2>4, <2>5, <2>6 DEF IInv
<1>27. ASSUME NEW r \in Runs, InitReap(r) PROVE IInv'
  <2>1. LifecycleMutex' /\ \A q \in Runs : HostStage(q)'
    BY <1>27 DEF IInv, InitReap, LifecycleMutex, HostStage
  <2>2. \A q \in Runs : RunnerStage(q)'
    BY <1>27, <1>0 DEF IInv, TypeOK, InitReap, RunnerStage, Held, GroupAlive
  <2>3. \A q \in Runs : GroupStage(q)'
    BY <1>27, <1>0 DEF IInv, TypeOK, InitReap, GroupStage, GroupAlive
  <2>4. \A q \in Runs : Tracked(q)'
    BY <1>27, <1>0 DEF IInv, TypeOK, InitReap, Tracked, GroupAlive, Current
  <2>5. \A q \in Runs : StopStage(q)'
    BY <1>27, <1>0 DEF IInv, TypeOK, InitReap, StopStage, Held
  <2>6. OwnNumber'
    BY <1>27, <1>0 DEF IInv, TypeOK, InitReap, OwnNumber, Held, GroupAlive
  <2>7. Scanned'
    BY <1>27, <1>0 DEF IInv, TypeOK, InitReap, Scanned, Busy, GroupAlive,
        Current
  <2> QED
    BY <1>0, <2>1, <2>2, <2>3, <2>4, <2>5, <2>6, <2>7 DEF IInv
\* The idle retirement.
<1>28. ASSUME NEW root \in Roots, IdleBegin(root) PROVE IInv'
  <2>1. OwnNumber' /\ \A q \in Runs : HostStage(q)' /\ RunnerStage(q)' /\
        GroupStage(q)' /\ Tracked(q)' /\ StopStage(q)'
    BY <1>28 DEF IInv, IdleBegin, HostStage, RunnerStage, Held, GroupAlive,
        GroupStage, Tracked, Current, StopStage, OwnNumber
  <2>2. LifecycleMutex'
    BY <1>28, <1>0 DEF IInv, TypeOK, IdleBegin, LifecycleMutex, LifecycleFree
  <2>3. Scanned'
    BY <1>28, <1>0 DEF IInv, TypeOK, IdleBegin, Scanned, GroupStage, Tracked,
        Busy, GroupAlive, Current, LifecycleFree
  <2> QED
    BY <1>0, <2>1, <2>2, <2>3 DEF IInv
<1>29. ASSUME NEW r \in Runs, ProbeGone(r) PROVE IInv'
  <2>1. LifecycleMutex' /\ OwnNumber' /\ \A q \in Runs : HostStage(q)' /\
        RunnerStage(q)' /\ GroupStage(q)' /\ Tracked(q)' /\ StopStage(q)'
    BY <1>29 DEF IInv, ProbeGone, LifecycleMutex, HostStage, RunnerStage,
        Held, GroupAlive, GroupStage, Tracked, Current, StopStage, OwnNumber
  <2>2. Scanned'
    BY <1>29, <1>0 DEF IInv, TypeOK, ProbeGone, Scanned, GroupStage, Tracked,
        OwnNumber, Busy, GroupAlive, Current, ControlGone, GroupGone, Members
  <2> QED
    BY <1>0, <2>1, <2>2 DEF IInv
<1>30. CASE IdleStop
  <2>1. LifecycleMutex'
    BY <1>30, <1>0 DEF IInv, TypeOK, IdleStop, LifecycleMutex, Vanish
  <2>2. \A q \in Runs : HostStage(q)'
    BY <1>30, <1>0 DEF IInv, TypeOK, IdleStop, HostStage, Vanish
  <2>3. \A q \in Runs : RunnerStage(q)'
    BY <1>30, <1>0 DEF IInv, TypeOK, IdleStop, RunnerStage, Held, GroupAlive,
        Vanish
  <2>4. \A q \in Runs : GroupStage(q)'
    BY <1>30, <1>0 DEF IInv, TypeOK, IdleStop, GroupStage, GroupAlive, Vanish
  <2>5. \A q \in Runs : Tracked(q)'
    BY <1>30, <1>0 DEF IInv, TypeOK, IdleStop, Tracked, GroupAlive, Current,
        Vanish
  <2>6. \A q \in Runs : StopStage(q)'
    BY <1>30, <1>0 DEF IInv, TypeOK, IdleStop, StopStage, Held, Vanish
  <2>7. OwnNumber'
    BY <1>30, <1>0 DEF IInv, TypeOK, IdleStop, OwnNumber, Held, GroupAlive,
        Vanish
  <2>8. Scanned'
    BY <1>30, <1>0 DEF IInv, TypeOK, IdleStop, Scanned, Busy, GroupAlive,
        Current, Vanish
  <2> QED
    BY <1>0, <2>1, <2>2, <2>3, <2>4, <2>5, <2>6, <2>7, <2>8 DEF IInv
<1>31. CASE IdleGiveUp
  <2>1. OwnNumber' /\ \A q \in Runs : HostStage(q)' /\ RunnerStage(q)' /\
        GroupStage(q)' /\ Tracked(q)' /\ StopStage(q)'
    BY <1>31 DEF IInv, IdleGiveUp, HostStage, RunnerStage, Held, GroupAlive,
        GroupStage, Tracked, Current, StopStage, OwnNumber
  <2>2. LifecycleMutex'
    BY <1>31, <1>0 DEF IInv, TypeOK, IdleGiveUp, LifecycleMutex
  <2>3. Scanned'
    BY <1>31, <1>0 DEF IInv, TypeOK, IdleGiveUp, Scanned, LifecycleMutex,
        Busy, GroupAlive, Current
  <2> QED
    BY <1>0, <2>1, <2>2, <2>3 DEF IInv
\* The container.
<1>32. CASE ContainerDies
  <2>1. LifecycleMutex'
    BY <1>32 DEF IInv, ContainerDies, LifecycleMutex
  <2>2. \A q \in Runs : HostStage(q)'
    BY <1>32, <1>0 DEF IInv, TypeOK, ContainerDies, HostStage, Vanish
  <2>3. \A q \in Runs : RunnerStage(q)'
    BY <1>32, <1>0 DEF IInv, TypeOK, ContainerDies, RunnerStage, Held,
        GroupAlive, Vanish
  <2>4. \A q \in Runs : GroupStage(q)'
    BY <1>32, <1>0 DEF IInv, TypeOK, ContainerDies, GroupStage, GroupAlive,
        Vanish
  <2>5. \A q \in Runs : Tracked(q)'
    BY <1>32, <1>0 DEF IInv, TypeOK, ContainerDies, Tracked, GroupAlive,
        Current, Vanish
  <2>6. \A q \in Runs : StopStage(q)'
    BY <1>32, <1>0 DEF IInv, TypeOK, ContainerDies, StopStage, Held, Vanish
  <2>7. OwnNumber'
    BY <1>32, <1>0 DEF IInv, TypeOK, ContainerDies, OwnNumber, Held,
        GroupAlive, Vanish
  <2>8. Scanned'
    BY <1>32, <1>0 DEF IInv, TypeOK, ContainerDies, Scanned, Busy, GroupAlive,
        Current, Vanish
  <2> QED
    BY <1>0, <2>1, <2>2, <2>3, <2>4, <2>5, <2>6, <2>7, <2>8 DEF IInv
<1>33. CASE ContainerRestarts
  <2>1. LifecycleMutex' /\ OwnNumber' /\ \A q \in Runs : HostStage(q)' /\
        RunnerStage(q)' /\ GroupStage(q)' /\ StopStage(q)'
    BY <1>33 DEF IInv, ContainerRestarts, LifecycleMutex, HostStage,
        RunnerStage, Held, GroupAlive, GroupStage, StopStage, OwnNumber
  <2>2. \A q \in Runs : Tracked(q)'
    BY <1>33, <1>0 DEF IInv, TypeOK, ContainerRestarts, Tracked, GroupAlive,
        Current
  <2>3. Scanned'
    BY <1>33, <1>0 DEF IInv, TypeOK, ContainerRestarts, Scanned, Tracked,
        Busy, GroupAlive, Current
  <2> QED
    BY <1>0, <2>1, <2>2, <2>3 DEF IInv
\* All of them.
<1>34. ASSUME NEW r \in Runs, HostStep(r) PROVE IInv'
  BY <1>34, <1>1, <1>2, <1>3, <1>4, <1>5, <1>6, <1>7, <1>8 DEF HostStep
<1>35. ASSUME NEW r \in Runs, StopStep(r) PROVE IInv'
  BY <1>35, <1>9, <1>10, <1>11, <1>12, <1>13, <1>14, <1>15, <1>16 DEF StopStep
<1>36. ASSUME NEW r \in Runs, RunnerStep(r) PROVE IInv'
  BY <1>36, <1>17, <1>18, <1>19, <1>20, <1>21, <1>22, <1>23, <1>24 DEF RunnerStep
<1>37. ASSUME NEW r \in Runs, WorkloadStep(r) PROVE IInv'
  BY <1>37, <1>25, <1>26, <1>27 DEF WorkloadStep
<1>38. CASE LifecycleStep
  BY <1>38, <1>28, <1>29, <1>30, <1>31 DEF LifecycleStep
<1>39. CASE UNCHANGED vars
  BY <1>39, <1>0 DEF vars, IInv, LifecycleMutex, HostStage, RunnerStage, GroupStage, Tracked,
     StopStage, OwnNumber, Scanned, Busy, Held, GroupAlive, Current
<1> QED
  BY <1>34, <1>35, <1>36, <1>37, <1>38, <1>39, <1>32, <1>33 DEF Next

\* Nothing is launched, listed, locked or scanned at first.
LEMMA InitIInv == Init => IInv
<1> SUFFICES ASSUME Init PROVE IInv
  OBVIOUS
<1>1. TypeOK
  BY MaxGenAssumption DEF Init, TypeOK
<1>2. LifecycleMutex /\ OwnNumber /\ Scanned
  BY DEF Init, LifecycleMutex, OwnNumber, Scanned, Held, GroupAlive
<1>3. ASSUME NEW r \in Runs
      PROVE HostStage(r) /\ RunnerStage(r) /\ GroupStage(r) /\ Tracked(r) /\ StopStage(r)
  BY MaxGenAssumption DEF Init, HostStage, RunnerStage, GroupStage, Tracked, StopStage, Held,
     GroupAlive
<1> QED
  BY <1>1, <1>2, <1>3 DEF IInv

\* The inductive invariant, for every instance.
THEOREM Invariance == Spec => []IInv
  BY InitIInv, InductiveStep, PTL DEF Spec

-----------------------------------------------------------------------------
(* What follows from it.                                                   *)

\* A retired record means that no workload is left: what `reuse kill`, `reap`,
\* DockerRuntime.stop and the runner's own retirement tell their callers.
THEOREM RetiredIsGoneHolds == Spec => []RetiredIsGone
<1>1. IInv => RetiredIsGone
  BY DEF IInv, GroupStage, RetiredIsGone
<1> QED
  BY <1>1, Invariance, PTL

\* A live workload is listed by its marker and is in the container its record
\* names, so that list_live, the busy guard and every later stop find it.
THEOREM TrackedWhileAliveHolds == Spec => []TrackedWhileAlive
<1>1. IInv => TrackedWhileAlive
  <2> SUFFICES ASSUME IInv, NEW r \in Runs, GroupAlive(r)
               PROVE r \in mark /\ Current(r)
    BY DEF TrackedWhileAlive
  <2>1. phase[r] \in {"launching", "running"}
    BY DEF IInv, TypeOK, GroupStage, GroupAlive
  <2> QED
    BY <2>1 DEF IInv, Tracked
<1> QED
  BY <1>1, Invariance, PTL

\* As long as its runner lives, a group with members has its leader unreaped:
\* control() can identify it.
THEOREM AnchoredHolds == Spec => []Anchored
<1>1. IInv => Anchored
  BY DEF IInv, TypeOK, Anchored, RunnerStage, GroupStage, GroupAlive
<1> QED
  BY <1>1, Invariance, PTL

\* No stop signals the group of another run, however process numbers are
\* reused between control()'s pidfd_open, its token comparison and the signal.
THEOREM SignalsOwnGroupHolds == Spec => SignalsOwnGroup
<1>1. ASSUME IInv, NEW r \in Runs, NEW q \in Runs, StopSignal(r), q # r
      PROVE  leader'[q] = leader[q] /\ (q \in kids' <=> q \in kids)
  <2>1. Victims(r) = {r}
    BY <1>1 DEF IInv, StopStage, StopSignal, Victims
  <2> QED
    BY <1>1, <2>1 DEF StopSignal, Signal, workload, IInv, TypeOK
<1>2. IInv => [\A r, q \in Runs : StopSignal(r) /\ q # r =>
                 leader'[q] = leader[q] /\ (q \in kids' <=> q \in kids)]_vars
  BY <1>1
<1> QED
  BY <1>2, Invariance, PTL DEF SignalsOwnGroup

\* No replacement and no idle stop takes down a busy run of its runs root.
THEOREM PeersSurviveHolds == Spec => PeersSurvive
<1>1. ASSUME IInv, NEW r \in Runs, NEW q \in Runs, RemoveContainer(r), RootOf[q] = RootOf[r]
      PROVE  ~Busy(q)
  BY <1>1 DEF IInv, Scanned, RemoveContainer
<1>2. ASSUME IInv, NEW q \in Runs, IdleStop, RootOf[q] \in idler
      PROVE  ~Busy(q)
  BY <1>2 DEF IInv, Scanned, IdleStop
<1>3. IInv => [/\ \A r, q \in Runs : RemoveContainer(r) /\ RootOf[q] = RootOf[r] => ~Busy(q)
               /\ \A q \in Runs : IdleStop /\ RootOf[q] \in idler => ~Busy(q)]_vars
  BY <1>1, <1>2
<1> QED
  BY <1>3, Invariance, PTL DEF PeersSurvive

-----------------------------------------------------------------------------
(* The refinement. *)

\* A step that leaves every record where it is and starts nothing is an End.
LEMMA FenceQuiet ==
  ASSUME \A q \in Runs : FenceState(q)' = FenceState(q),
         \A q \in Runs : GroupAlive(q)' => GroupAlive(q)
  PROVE  Fence!Next
BY DEF Fence!Next, Fence!End

\* A step that only reserves a run is its admission.
LEMMA FenceAdmits ==
  ASSUME NEW r \in Runs, FenceState(r) = "open", FenceState(r)' = "admitted",
         \A q \in Runs \ {r} : FenceState(q)' = FenceState(q),
         \A q \in Runs : GroupAlive(q)' = GroupAlive(q)
  PROVE  Fence!Next
<1>1. Fence!Admit(r)
  BY DEF Fence!Admit
<1> QED
  BY <1>1 DEF Fence!Next

\* A step that only forks an admitted run's workload is its launch.
LEMMA FenceLaunches ==
  ASSUME NEW r \in Runs, FenceState(r) = "admitted", FenceState(r)' = "launched",
         GroupAlive(r)',
         \A q \in Runs \ {r} : FenceState(q)' = FenceState(q),
         \A q \in Runs \ {r} : GroupAlive(q)' = GroupAlive(q)
  PROVE  Fence!Next
<1>1. Fence!Launch(r)
  BY DEF Fence!Launch
<1> QED
  BY <1>1 DEF Fence!Next

\* A step that retires a run and leaves it without a group is its retirement.
LEMMA FenceRetires ==
  ASSUME NEW r \in Runs, FenceState(r)' = "retired", ~GroupAlive(r)',
         \A q \in Runs \ {r} : FenceState(q)' = FenceState(q),
         \A q \in Runs \ {r} : GroupAlive(q)' = GroupAlive(q)
  PROVE  Fence!Next
<1>1. Fence!Retire(r)
  BY DEF Fence!Retire
<1> QED
  BY <1>1 DEF Fence!Next

\* Every step maps to a step of the fence or to a stutter.
LEMMA FenceStep == IInv /\ [Next]_vars => [Fence!Next]_(Fence!vars)
<1> SUFFICES ASSUME IInv, [Next]_vars PROVE [Fence!Next]_(Fence!vars)
  OBVIOUS
<1> USE DEF container, record, tracking, locks, lifecycle, workload, IInv, TypeOK, Held, GroupAlive, FenceState
<1>0. TypeOK'
  BY TypeStep
<1>1. ASSUME NEW r \in Runs, HostStep(r) PROVE Fence!Next
  <2>1. CASE CreateRun(r)
    <3>1. CASE phase'[r] = "reserved" /\ phase[r] = "none"
      <4>1. FenceState(r) = "open" /\ FenceState(r)' = "admitted"
        BY <1>0, <2>1, <3>1 DEF CreateRun, GroupStage
      <4>2. /\ \A q \in Runs \ {r} : FenceState(q)' = FenceState(q)
            /\ \A q \in Runs : GroupAlive(q)' = GroupAlive(q)
        BY <1>0, <2>1 DEF CreateRun
      <4> HIDE DEF FenceState, GroupAlive
      <4> QED
        BY <4>1, <4>2, FenceAdmits
    <3>2. CASE ~(phase'[r] = "reserved" /\ phase[r] = "none")
      BY <1>0, <2>1, <3>2, FenceQuiet DEF CreateRun, GroupStage
    <3> QED
      BY <3>1, <3>2
  <2>2. CASE EnterLifecycle(r)
    BY <2>2, FenceQuiet DEF EnterLifecycle
  <2>3. CASE RemoveContainer(r)
    BY <1>0, <2>3, FenceQuiet DEF RemoveContainer, Vanish
  <2>4. CASE CreateContainer(r)
    BY <2>4, FenceQuiet DEF CreateContainer
  <2>5. CASE Register(r)
    BY <1>0, <2>5, FenceQuiet DEF Register, GroupStage
  <2>6. CASE Exec(r)
    BY <2>6, FenceQuiet DEF Exec
  <2>7. CASE Abandon(r)
    BY <1>0, <2>7, FenceRetires DEF Abandon, GroupStage
  <2>8. CASE HostGone(r)
    BY <2>8, FenceQuiet DEF HostGone
  <2> QED
    BY <1>1, <2>1, <2>2, <2>3, <2>4, <2>5, <2>6, <2>7, <2>8 DEF HostStep
<1>2. ASSUME NEW r \in Runs, StopStep(r) PROVE Fence!Next
  <2>1. ASSUME NEW who \in Stoppers, StopUnstarted(r, who) PROVE Fence!Next
    BY <1>0, <2>1, FenceRetires DEF StopUnstarted, Retire, GroupStage
  <2>2. ASSUME NEW who \in Stoppers, StopEnter(r, who) PROVE Fence!Next
    BY <2>2, FenceQuiet DEF StopEnter
  <2>3. CASE Tombstone(r)
    <3>1. CASE phase'[r] = "stopped"
      BY <1>0, <2>3, <3>1, FenceRetires DEF Tombstone, GroupStage
    <3>2. CASE phase'[r] = "bare"
      BY <1>0, <2>3, <3>2, FenceQuiet DEF Tombstone, GroupStage
    <3> QED
      BY <2>3, <3>1, <3>2 DEF Tombstone
  <2>4. CASE StopOpen(r)
    BY <2>4, FenceQuiet DEF StopOpen
  <2>5. CASE StopMatch(r)
    BY <2>5, FenceQuiet DEF StopMatch
  <2>6. CASE StopAnswer(r)
    <3>1. CASE phase' = phase
      BY <2>6, <3>1, FenceQuiet DEF StopAnswer, StopReply
    <3>2. CASE phase' = [phase EXCEPT ![r] = "stopped"]
      <4>1. IInv'
        BY InductiveStep
      <4>2. ~GroupAlive(r)'
        BY <3>2, <4>1 DEF GroupStage
      <4> QED
        BY <1>0, <2>6, <3>2, <4>2, FenceRetires DEF StopAnswer
    <3> QED
      BY <2>6, <3>1, <3>2 DEF StopAnswer, StopReply, Retire
  <2>7. CASE StopSignal(r)
    <3>0. \A q \in Runs \ {r} : FenceState(q)' = FenceState(q) /\ GroupAlive(q)' = GroupAlive(q)
      BY <1>0, <2>7 DEF StopSignal, StopReply, Retire, Signal, Victims, StopStage
    <3>1. CASE phase' = phase
      BY <1>0, <2>7, <3>1, FenceQuiet DEF StopSignal, Signal
    <3>2. CASE phase' = [phase EXCEPT ![r] = "stopped"]
      <4>1. IInv'
        BY InductiveStep
      <4>2. ~GroupAlive(r)'
        BY <3>2, <4>1 DEF GroupStage
      <4>3. FenceState(r)' = "retired"
        BY <3>2
      <4> QED
        BY <3>0, <4>2, <4>3, FenceRetires
    <3> QED
      BY <2>7, <3>1, <3>2 DEF StopSignal, StopReply, Retire
  <2>8. CASE StopCrash(r)
    BY <2>8, FenceQuiet DEF StopCrash
  <2> QED
    BY <1>2, <2>1, <2>2, <2>3, <2>4, <2>5, <2>6, <2>7, <2>8 DEF StopStep
<1>3. ASSUME NEW r \in Runs, RunnerStep(r) PROVE Fence!Next
  <2>1. CASE RunnerStart(r)
    BY <2>1, FenceQuiet DEF RunnerStart
  <2>2. CASE RunnerCheck(r)
    BY <1>0, <2>2, FenceQuiet DEF RunnerCheck, RunnerStage
  <2>3. CASE Popen(r)
    <3>1. FenceState(r) = "admitted" /\ FenceState(r)' = "launched" /\ GroupAlive(r)'
      BY <1>0, <2>3 DEF Popen, RunnerStage
    <3>2. \A q \in Runs \ {r} : FenceState(q)' = FenceState(q) /\ GroupAlive(q)' = GroupAlive(q)
      BY <1>0, <2>3 DEF Popen
    <3> HIDE DEF FenceState, GroupAlive
    <3> QED
      BY <3>1, <3>2, FenceLaunches
  <2>4. CASE RunnerRecord(r)
    BY <1>0, <2>4, FenceQuiet DEF RunnerRecord, RunnerStage
  <2>5. CASE RunnerDrain(r)
    BY <1>0, <2>5, FenceQuiet DEF RunnerDrain, Signal
  <2>6. CASE RunnerReap(r)
    BY <1>0, <2>6, FenceQuiet DEF RunnerReap, RunnerStage
  <2>7. CASE RunnerFinal(r)
    BY <1>0, <2>7, FenceRetires DEF RunnerFinal, RunnerStage
  <2>8. CASE RunnerGone(r)
    BY <2>8, FenceQuiet DEF RunnerGone
  <2> QED
    BY <1>3, <2>1, <2>2, <2>3, <2>4, <2>5, <2>6, <2>7, <2>8 DEF RunnerStep
<1>4. ASSUME NEW r \in Runs, WorkloadStep(r) PROVE Fence!Next
  BY <1>0, <1>4, FenceQuiet DEF WorkloadStep, LeaderExit, Kids, InitReap
<1>5. CASE LifecycleStep
  BY <1>0, <1>5, FenceQuiet DEF LifecycleStep, IdleBegin, ProbeGone, IdleStop, IdleGiveUp, Vanish
<1>6. CASE ContainerDies \/ ContainerRestarts
  BY <1>0, <1>6, FenceQuiet DEF ContainerDies, ContainerRestarts, Vanish
<1>7. CASE UNCHANGED vars
  BY <1>7 DEF vars, Fence!vars
<1> QED
  BY <1>1, <1>2, <1>3, <1>4, <1>5, <1>6, <1>7 DEF Next

\* The record implements the fence: one admission, one launch, and nothing
\* alive after retirement.
THEOREM Refinement == Spec => FenceSpec
<1>1. Init => Fence!Init
  BY DEF Init, Fence!Init, FenceState, GroupAlive
<1> QED
  BY <1>1, FenceStep, Invariance, PTL DEF Spec, FenceSpec, Fence!Spec

\* Hence whatever lives was launched and not retired.
THEOREM OnlyLaunchedLive == Spec => []Fence!RetiredNotLive
<1>1. IInv => Fence!RetiredNotLive
  BY DEF IInv, TypeOK, GroupStage, GroupAlive, Fence!RetiredNotLive, FenceState
<1> QED
  BY <1>1, Invariance, PTL
=============================================================================
