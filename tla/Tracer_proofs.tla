---------------------------- MODULE Tracer_proofs ----------------------------
(***************************************************************************)
(* That the network policy holds, that nothing runs after a run, and that  *)
(* a run cut short says why: for any number of tasks and any interleaving. *)
(***************************************************************************)
EXTENDS Tracer, TLAPS

USE RootAssumption, KillOnAssumption, PosturesAssumption
USE DEF kernel, policy, ends, tracer, handler, after,
        Egress, Calls, Stops, Absent, Still, Executes, Stepping, Ways, Exempt

LEMMA TracerInvInit == Init => TracerInv
<1> SUFFICES ASSUME Init PROVE TracerInv
  OBVIOUS
<1>1. tpc \in {"window", "seek", "wait"}
  BY DEF Init
<1>2. TypeOK /\ NoEgress /\ Quiet /\ KillsHaveReason
  BY <1>1 DEF Init, TypeOK, NoEgress, Performing, InWindow, Forbidden, Quiet,
              KillsHaveReason
<1>3. Gated /\ Known
  BY <1>1 DEF Init, Gated, Known, Forbidden, Alone
<1> QED
  BY <1>2, <1>3 DEF TracerInv, Init

LEMMA TracerInvStep == TracerInv /\ [Next]_vars => TracerInv'
<1> SUFFICES ASSUME TracerInv, [Next]_vars PROVE TracerInv'
  OBVIOUS
<1> USE DEF TracerInv, TypeOK, NoEgress, Quiet, KillsHaveReason, Gated, Known,
            Forbidden, Alone, Performing, InWindow
<1>1. ASSUME NEW t \in Tasks, Enter(t) PROVE TracerInv'
  <2>1. TypeOK'
    BY <1>1 DEF Enter
  <2>2. \A u \in Tasks \ {t} : st'[u] = st[u] /\ call'[u] = call[u]
    BY <1>1 DEF Enter
  <2>3. st[t] = "run" /\ st'[t] = "enter" /\ call'[t] \in Calls /\ grp' = grp
    BY <1>1 DEF Enter
  <2>4. Gated'
    <3>1. \A u \in Tasks : Alone(u) => Alone(u)'
      BY <2>2, <2>3
    <3>2. /\ UNCHANGED <<posture, tpc, cur>>
          /\ tpc = "check" => cur # t
      BY <1>1, <2>3 DEF Enter
    <3> QED
      BY <1>1, <2>1, <2>2, <2>3, <3>1, <3>2 DEF Enter
  <2>5. Known'
    BY <1>1, <2>1, <2>2, <2>3 DEF Enter
  <2> QED
    BY <1>1, <2>1, <2>4, <2>5, <2>2, <2>3 DEF Enter
<1>0. ASSUME NEW t \in Tasks, NEW u \in Tasks, Rewrite(u, t) PROVE TracerInv'
  <2>1. /\ st[t] \in {"enter", "sys"} /\ call[t] \in {"permitted", "sink"}
        /\ u # t /\ st[u] \in Executes
        /\ UNCHANGED <<st, grp, kid, mem, tracer>>
    BY <1>0 DEF Rewrite
  <2>2. call' = [call EXCEPT ![t] = "connect"]
    BY <1>0 DEF Rewrite
  <2>3. call[t] = "sink" => grp[u] # grp[t]
    BY <2>1
  <2>4. way' \in [Tasks -> Ways] /\ way'[t] \in {"permitted", "process"}
        /\ \A v \in Tasks \ {t} : way'[v] = way[v]
    BY <1>0, <2>1, <2>3 DEF Rewrite
  <2>5. TypeOK'
    BY <2>1, <2>2, <2>4
  <2>6. NoEgress'
    BY <2>1, <2>2, <2>4
  <2>7. Gated'
    BY <2>1, <2>2, <2>4
  <2> QED
    BY <2>1, <2>5, <2>6, <2>7
<1>2. ASSUME NEW t \in Tasks, Perform(t) PROVE TracerInv'
  BY <1>2 DEF Perform
<1>3. ASSUME NEW t \in Tasks, Pause(t) PROVE TracerInv'
  BY <1>3 DEF Pause
<1>4. ASSUME NEW t \in Tasks, Die(t) PROVE TracerInv'
  BY <1>4 DEF Die, Killed
<1>5. ASSUME NEW t \in Tasks, NEW u \in Tasks, Clone(t, u) PROVE TracerInv'
  <2>1. TypeOK'
    BY <1>5 DEF Clone, Born
  <2>2. \A v \in Tasks \ {t, u} : st'[v] = st[v] /\ call'[v] = call[v] /\ grp'[v] = grp[v]
    BY <1>5 DEF Clone, Born
  <2>3. /\ st[t] = "sys" /\ call[t] = "clone" /\ st'[t] = "event" /\ call'[t] = "other"
        /\ st[u] = "none" /\ st'[u] = "born" /\ t # u /\ grp'[t] = grp[t]
        /\ grp'[u] \in {grp[t], u}
    BY <1>5 DEF Clone, Born
  <2>4. ASSUME NEW v \in Tasks, st'[v] \in {"enter", "sys"}, call'[v] = "sink"
        PROVE Alone(v)'
    <3>1. v \notin {t, u} /\ Alone(v)
      BY <2>2, <2>3, <2>4
    <3>2. grp[t] # grp[v] /\ grp[v] # u
      BY <2>3, <2>4, <3>1, <2>2
    <3> QED
      BY <2>2, <2>3, <3>1, <3>2
  <2>5. Gated'
    BY <1>5, <2>1, <2>2, <2>3, <2>4 DEF Clone
  <2>6. Known'
    BY <1>5, <2>1, <2>2, <2>3 DEF Clone, Born
  <2> QED
    BY <1>5, <2>1, <2>2, <2>3, <2>5, <2>6 DEF Clone
<1>6. ASSUME NEW t \in Tasks, Take(t) PROVE TracerInv'
  BY <1>6 DEF Take
<1>7. ASSUME NEW t \in Tasks, Reap(t) PROVE TracerInv'
  BY <1>7 DEF Reap, Reapable, Counts, Raise
<1>8. ASSUME NEW t \in Tasks, Quit(t) PROVE TracerInv'
  <2>1. /\ TypeOK' /\ tpc = "quit" /\ traced' \subseteq traced
        /\ UNCHANGED <<kernel, posture, tpc, cur, policy, ends>>
    BY <1>8 DEF Quit, Killed
  <2>2. \A u \in Tasks :
          /\ st'[u] \in {st[u], "dead", "gone"}
          /\ u \notin traced' => st'[u] \in Still
          /\ st'[u] = "none" <=> st[u] = "none" /\ u # t
          /\ st[u] \in Absent => st'[u] \in Absent
    BY <1>8 DEF Quit, Killed
  <2>3. Gated'
    BY <2>1, <2>2
  <2>4. \A u \in Tasks : IF st'[u] = "none" THEN grp[u] = u ELSE st'[grp[u]] # "none"
    BY <2>1, <2>2
  <2>5. Known'
    BY <2>1, <2>2, <2>4
  <2>6. NoEgress'
    BY <2>1, <2>2
  <2> QED
    BY <2>1, <2>3, <2>5, <2>6
<1>9. CASE LoopEnds \/ Done
  BY <1>9 DEF LoopEnds, Done
<1>10. CASE StepSyscall
  <2>1. CASE Pass
    BY <1>10, <2>1 DEF StepSyscall, Counts, Pass, Decide
  <2>2. CASE Lose
    BY <1>10, <2>2 DEF StepSyscall, Counts, Lose
  <2>3. CASE Redirect
    BY <1>10, <2>3 DEF StepSyscall, Counts, Redirect, Decide
  <2>4. CASE Block
    BY <1>10, <2>4 DEF StepSyscall, Counts, Block, Decide, RequestKill, BlockReason
  <2>5. CASE Leave
    BY <1>10, <2>5 DEF StepSyscall, Counts, Leave, Decide, RequestKill, TouchesDecoy
  <2>6. CASE Unreadable
    BY <1>10, <2>6 DEF StepSyscall, Counts, Unreadable
  <2> QED
    BY <1>10, <2>1, <2>2, <2>3, <2>4, <2>5, <2>6 DEF StepSyscall
<1>11. CASE Break
  BY <1>11 DEF Break, Killed
<1>12. CASE GoOn
  <2>1. CASE st[cur] = "dead"
    BY <1>12, <2>1 DEF GoOn, Raise
  <2>2. CASE st[cur] # "dead"
    <3>1. /\ TypeOK' /\ tpc = "check" /\ tpc' = "wait" /\ st'[cur] \in Executes
          /\ st[cur] = "enter" <=> st'[cur] = "sys"
          /\ UNCHANGED <<kernel, posture, cur, traced, policy, ends>>
      BY <1>12, <2>2 DEF GoOn
    <3>2. \A t \in Tasks \ {cur} : st'[t] = st[t]
      BY <1>12, <2>2 DEF GoOn
    <3>3. \A t \in Tasks : Alone(t) => Alone(t)'
      BY <2>2, <3>1, <3>2
    <3>4. Gated'
      BY <3>1, <3>2, <3>3
    <3> QED
      BY <3>1, <3>2, <3>4
  <2> QED
    BY <2>1, <2>2
<1>13. CASE Proceed
  <2>1. CASE st[cur] = "pause"
    BY <1>13, <2>1 DEF Proceed, Counts
  <2>2. CASE st[cur] = "event"
    <3>1. /\ TypeOK' /\ tpc = "event" /\ tpc' = "wait"
          /\ cur # kid[cur] /\ st'[cur] = "sys" /\ st'[kid[cur]] = "run"
          /\ st[kid[cur]] = "born" /\ kid[cur] \in traced
          /\ UNCHANGED <<kernel, posture, cur, traced, block, asked, ends>>
      BY <1>13, <2>2 DEF Proceed, Counts
    <3>2. \A t \in Tasks \ {cur, kid[cur]} : st'[t] = st[t]
      BY <1>13, <2>2 DEF Proceed
    <3>3. \A t \in Tasks : Alone(t) => Alone(t)'
      BY <2>2, <3>1, <3>2
    <3>4. Gated'
      BY <2>2, <3>1, <3>2, <3>3
    <3> QED
      BY <2>2, <3>1, <3>2, <3>4
  <2> QED
    BY <1>13, <2>1, <2>2 DEF Proceed
<1>14. CASE EventRaises
  BY <1>14 DEF EventRaises, Raise
<1>15. CASE WindowCall
  BY <1>15 DEF WindowCall, GateEgress, NotRead, RequestKill, BlockReason, Counts
<1>16. ASSUME NEW u \in Tasks, WindowFork(u) PROVE TracerInv'
  BY <1>16 DEF WindowFork, Born
<1>17. CASE WindowEnds \/ WindowRaises \/ WindowDead
  BY <1>17 DEF WindowEnds, WindowRaises, WindowDead, Reapable
<1>18. CASE Expire \/ Strike
  BY <1>18 DEF Expire, Strike, Killed
<1>19. CASE UNCHANGED vars
  BY <1>19 DEF vars
<1> QED
  BY <1>0, <1>1, <1>2, <1>3, <1>4, <1>5, <1>6, <1>7, <1>8, <1>9, <1>10, <1>11,
     <1>12, <1>13, <1>14, <1>15, <1>16, <1>17, <1>18, <1>19
     DEF Next, Specimen, Loop, Window, Watchdog

\* The inductive invariant holds for any number of tasks.
THEOREM TracerInvariance == Spec => []TracerInv
  BY TracerInvInit, TracerInvStep, PTL DEF Spec

\* The network policy holds but for the ways of Exempt: a call goes on only
\* after the tracer has decided on it, one that is to be blocked is not
\* performed, and no thread can change the address of one that is redirected.
THEOREM NoEgressHolds == Spec => []NoEgress
<1>1. TracerInv => NoEgress
  BY DEF TracerInv
<1> QED
  BY <1>1, TracerInvariance, PTL

\* Nothing of the specimen executes once run has ended, by whatever exit.
THEOREM QuietHolds == Spec => []Quiet
<1>1. TracerInv => Quiet
  BY DEF TracerInv
<1> QED
  BY <1>1, TracerInvariance, PTL

\* A run whose tasks are terminated reports a reason, or raises.
THEOREM KillsHaveReasonHolds == Spec => []KillsHaveReason
<1>1. TracerInv => KillsHaveReason
  BY DEF TracerInv
<1> QED
  BY <1>1, TracerInvariance, PTL
=============================================================================
