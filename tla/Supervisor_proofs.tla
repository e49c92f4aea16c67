-------------------------- MODULE Supervisor_proofs --------------------------
(***************************************************************************)
(* That runners fail closed, for any number of runs, recoveries and        *)
(* generations of the container.                                           *)
(***************************************************************************)
EXTENDS Supervisor, TLAPS

USE MaxGenAssumption, MaxRestartsAssumption DEF BringUp, Recovery, Watching

LEMMA SupInvInit == Init => SupInv
  BY DEF Init, SupInv, TypeOK

LEMMA SupInvStep == SupInv /\ [Next]_vars => SupInv'
<1> SUFFICES ASSUME SupInv, [Next]_vars PROVE SupInv'
  OBVIOUS
<1> USE DEF SupInv, TypeOK, InPlace, daemon, runs
<1>0. ASSUME BringUpFails PROVE SupInv'
  BY <1>0 DEF BringUpFails, Exits
<1>1. CASE Create \/ RestartedInPlace
  <2>1. gen' = gen + 1 /\ UNCHANGED runs
    BY <1>1 DEF Create, RestartedInPlace, Boot
  <2>2. \A r \in Runs : ~InPlace(r)'
    BY <2>1
  <2> QED
    BY <1>1, <2>1, <2>2 DEF Create, RestartedInPlace, Boot
<1>2. CASE Killed
  BY <1>2 DEF Killed
<1>3. CASE ServiceChanges
  <2>1. up' \in SUBSET {"sink", "service"}
    BY <1>3 DEF ServiceChanges
  <2> QED
    BY <1>3, <2>1 DEF ServiceChanges
<1>4. CASE Shutdown \/ SinkFails
  <2>1. up' \in SUBSET {"sink", "service"}
    BY <1>4 DEF Shutdown, SinkFails
  <2> QED
    BY <1>4, <2>1 DEF Shutdown, SinkFails
<1>5. CASE Clear
  BY <1>5 DEF Clear, Continue
<1>6. CASE Start
  BY <1>6 DEF Start, Continue, Exits
<1>7. CASE Setup
  BY <1>0, <1>7 DEF Setup, Continue
<1>8. CASE Verify
  BY <1>0, <1>8 DEF Verify, Asked, Continue
<1>9. CASE MarkReady
  BY <1>9 DEF MarkReady, Continue
<1>10. CASE Sleep
  BY <1>10 DEF Sleep, Continue, Exits
<1>11. CASE Look
  BY <1>11 DEF Look, Asked, Continue
<1>12. CASE Unready
  <2>1. cst = "running" /\ gen > 0 /\ restarts \in 0..MaxRestarts
    BY <1>12 DEF Unready
  <2>2. marker' = 0 /\ restarts' = restarts + 1 /\ UNCHANGED <<gen, stop, runs>>
    BY <1>12 DEF Unready
  <2>3. CASE restarts < MaxRestarts
    <3>1. pc' = "heal" /\ UNCHANGED <<cst, up>>
      BY <1>12, <2>3 DEF Unready
    <3>2. restarts' \in 0..MaxRestarts
      BY <2>1, <2>2, <2>3
    <3> QED
      BY <2>1, <2>2, <3>1, <3>2
  <2>4. CASE ~(restarts < MaxRestarts)
    <3>1. cst' = "stopped" /\ pc' = "exited" /\ up' = {}
      BY <1>12, <2>4 DEF Unready, Exits
    <3> QED
      BY <2>1, <2>2, <3>1
  <2> QED
    BY <2>3, <2>4
<1>13. CASE Heal
  BY <1>13 DEF Heal, Continue, Exits
<1>14. CASE HealProbe
  BY <1>14 DEF HealProbe, Continue
<1>15. CASE Recheck
  <2>1. pc \in Recovery /\ pc' \in (Recovery \cup {"sleep"})
    BY <1>15 DEF Recheck, Asked, Continue
  <2>2. UNCHANGED <<daemon, marker, up, stop, restarts, runs>>
    BY <1>15 DEF Recheck, Asked
  <2> QED
    BY <2>1, <2>2
<1>16. ASSUME NEW r \in Runs, RunStep(r) PROVE SupInv'
  <2>1. CASE Register(r)
    BY <2>1 DEF Register, RunGoes, InPlace
  <2>2. CASE Check(r)
    BY <2>2 DEF Check, ReadyFor, RunGoes, InPlace
  <2>3. CASE WaitReady(r) \/ WaitFails(r) \/ Launch(r) \/ LaunchFails(r)
    BY <2>3 DEF WaitReady, WaitFails, Launch, LaunchFails, RunGoes, InPlace
  <2> QED
    BY <1>16, <2>1, <2>2, <2>3 DEF RunStep
<1>17. CASE UNCHANGED vars
  BY <1>17 DEF vars
<1> QED
  BY <1>1, <1>2, <1>3, <1>4, <1>5, <1>6, <1>7, <1>8, <1>9, <1>10,
     <1>11, <1>12, <1>13, <1>14, <1>15, <1>16, <1>17 DEF Next, Supervise, Environment

\* The inductive invariant holds: the marker lags behind the supervisor.
THEOREM SupervisorInvariance == Spec => []SupInv
  BY SupInvInit, SupInvStep, PTL DEF Spec

\* The runner fails closed: no check passes on services that the supervisor is
\* bringing up or repairing, and no workload starts before they were ready once
\* in its generation, whatever markers other generations left.
THEOREM LaunchFailsClosedHolds == Spec => LaunchFailsClosed
<1>1. ASSUME SupInv, NEW r \in Runs
      PROVE  /\ Check(r) => pc \notin BringUp \cup Recovery
             /\ Launch(r) => pc \notin BringUp
  <2>1. Check(r) => marker = gen
    BY DEF Check, InPlace, ReadyFor
  <2>2. Launch(r) => run[r] = "checked" /\ InPlace(r)
    BY DEF Launch, RunGoes
  <2> QED
    BY <1>1, <2>1, <2>2 DEF SupInv
<1>2. SupInv => [\A r \in Runs : /\ Check(r) => pc \notin BringUp \cup Recovery
                                 /\ Launch(r) => pc \notin BringUp]_vars
  BY <1>1
<1> QED
  BY <1>2, SupervisorInvariance, PTL DEF LaunchFailsClosed
=============================================================================
