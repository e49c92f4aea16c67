---------------------------- MODULE Execute_proofs ----------------------------
(***************************************************************************)
(* Proofs about Execute: the samples are sealed, no history is charged, a  *)
(* breach fails the run, and a run that is returned is over.               *)
(***************************************************************************)
EXTENDS Execute_inv, TLAPS

LEMMA Numbers == MaxCount \in Nat /\ None = -1 /\ Unset = -2
BY ExecuteAssumption DEF None, Unset

LEMMA InitIInv == Init => IInv
<1> SUFFICES ASSUME Init PROVE IInv OBVIOUS
<1> USE Numbers
<1>1. PICK n \in 0..MaxCount : count = [all |-> n, own |-> n] /\ (mode # "shared" => n = 0)
  BY DEF Init
<1>2. TypeOK
  <2>1. count \in [all : 0..MaxCount, own : 0..MaxCount] /\ count.own <= count.all
        /\ before \in 0..MaxCount
    BY <1>1 DEF Init
  <2>2. baseline \in [value : Unset..MaxCount, whole : BOOLEAN]
        /\ out \in [value : None..MaxCount, hits : 0..MaxCount]
        /\ got \in None..MaxCount /\ last \in None..MaxCount /\ shown \in None..MaxCount
    BY DEF Init
  <2>3. meta \in [status : {"queued", "running"} \cup Terminal, fatal : BOOLEAN] BY DEF Init
  <2> QED BY <2>1, <2>2, <2>3 DEF Init, TypeOK
<1>3. Phases BY DEF Init, Phases, Stopped, Judging, Judged
<1>4. Sampling BY <1>1 DEF Init, Sampling
<1>5. Writing /\ Leaving /\ Ending BY DEF Init, Writing, Leaving, Ending, Terminal, Judged
<1>6. NoInherited /\ BreachFails BY <1>1 DEF Init, NoInherited, BreachFails
<1> QED BY <1>2, <1>3, <1>4, <1>5, <1>6 DEF IInv

-----------------------------------------------------------------------------
(* The container and its runner.                                           *)

\* The counter goes up, the cgroup comes and goes.
LEMMA KernelIInv == IInv /\ (Breach \/ ContainerComes \/ ContainerGoes) => IInv'
<1> SUFFICES ASSUME IInv, Breach \/ ContainerComes \/ ContainerGoes PROVE IInv' OBVIOUS
<1> USE Numbers
<1>0. TypeOK /\ Phases /\ Sampling /\ Writing /\ Leaving /\ Ending /\ NoInherited /\ BreachFails
  BY DEF IInv
<1>1. /\ UNCHANGED <<workload, samples, thread, host, meta, pc, closed, out>>
      /\ cgroup' \in {"none", "live", "gone"}
      /\ count' \in [all : 0..MaxCount, own : 0..MaxCount] /\ count'.own <= count'.all
      /\ count.all <= count'.all
  <2>1. CASE Breach
    <3>1. count.all \in Nat /\ count.own \in Nat BY <1>0 DEF TypeOK
    <3>2. count' = [all |-> count.all + 1, own |-> count.own + 1]
          \/ count' = [all |-> count.all + 1, own |-> count.own]
      BY <1>0, <2>1 DEF Breach, TypeOK
    <3> QED BY <1>0, <2>1, <3>1, <3>2 DEF Breach, TypeOK
  <2>2. CASE ContainerComes \/ ContainerGoes
    BY <1>0, <2>2 DEF ContainerComes, ContainerGoes, TypeOK
  <2> QED BY <2>1, <2>2
<1> USE DEF workload, samples, thread, host
<1>2. TypeOK' BY <1>0, <1>1 DEF TypeOK
<1>3. Phases' BY <1>0, <1>1 DEF Phases, Hits
<1>4. Sampling' BY <1>0, <1>1 DEF Sampling, TypeOK
<1>5. Writing' /\ Leaving' /\ Ending' BY <1>0, <1>1 DEF Writing, Leaving, Ending, Gone, Spared
<1>6. NoInherited' BY <1>0, <1>1 DEF NoInherited, TypeOK
<1>7. BreachFails' BY <1>0, <1>1 DEF BreachFails
<1> QED BY <1>2, <1>3, <1>4, <1>5, <1>6, <1>7 DEF IInv

\* What the runner writes, its end and that of the specimen.
LEMMA RunnerIInv ==
  IInv /\ (RunnerReads \/ RunnerWrites \/ RunnerDies \/ SpecimenStarts \/ SpecimenEnds \/ ClientExits)
    => IInv'
<1> SUFFICES ASSUME IInv, \/ RunnerReads \/ RunnerWrites \/ RunnerDies
                          \/ SpecimenStarts \/ SpecimenEnds \/ ClientExits
             PROVE IInv'
  OBVIOUS
<1> USE Numbers
<1>0. TypeOK /\ Phases /\ Sampling /\ Writing /\ Leaving /\ Ending /\ NoInherited /\ BreachFails
  BY DEF IInv
<1>1. UNCHANGED <<kernel, samples, thread, host, pc, closed, out>>
  BY DEF RunnerReads, RunnerWrites, RunnerDies, SpecimenStarts, SpecimenEnds, ClientExits, rest
<1> USE DEF kernel, samples, thread, host
<1>2. TypeOK'
  BY <1>0, <1>1 DEF TypeOK, RunnerReads, RunnerWrites, RunnerDies, SpecimenStarts, SpecimenEnds,
                    ClientExits, Taken, Terminal
<1>3. Phases'
  BY <1>0, <1>1 DEF Phases, Hits, RunnerReads, RunnerWrites, RunnerDies, SpecimenStarts, SpecimenEnds,
                    ClientExits, Writing
<1>4. Sampling' /\ NoInherited' BY <1>0, <1>1 DEF Sampling, NoInherited
<1>5. Writing'
  BY <1>0, <1>1 DEF Writing, TypeOK, RunnerReads, RunnerWrites, RunnerDies, SpecimenStarts,
                    SpecimenEnds, ClientExits, Terminal
<1>6. Leaving'
  BY <1>0, <1>1 DEF Leaving, Writing, TypeOK, RunnerReads, RunnerWrites, RunnerDies, SpecimenStarts,
                    SpecimenEnds, ClientExits, Taken, Terminal
<1>7. Ending'
  BY <1>0, <1>1 DEF Ending, Gone, Spared, Writing, Leaving, TypeOK, RunnerReads, RunnerWrites,
                    RunnerDies, SpecimenStarts, SpecimenEnds, ClientExits, Taken, Terminal, Judged
<1>8. BreachFails'
  BY <1>0, <1>1 DEF BreachFails, Ending, Writing, TypeOK, RunnerReads, RunnerWrites, RunnerDies,
                    SpecimenStarts, SpecimenEnds, ClientExits, Judged
<1> QED BY <1>2, <1>3, <1>4, <1>5, <1>6, <1>7, <1>8 DEF IInv

-----------------------------------------------------------------------------
(* The samples.                                                            *)

\* Merging a reading that is behind the counter.
LEMMA MergeSampling ==
  ASSUME TypeOK, Sampling, NEW n \in None..MaxCount, n <= count.all, Merge(n),
         UNCHANGED <<count, before, mode, got>>
  PROVE  /\ Sampling'
         /\ baseline' \in [value : Unset..MaxCount, whole : BOOLEAN]
         /\ last' \in None..MaxCount /\ shown' \in None..MaxCount /\ invalid' \in BOOLEAN
<1> USE Numbers
<1>1. \/ baseline' = [value |-> n, whole |-> n = count.all]
      \/ baseline' = baseline
  BY DEF Merge
<1>2. baseline' \in [value : Unset..MaxCount, whole : BOOLEAN]
  <2>1. CASE baseline' = baseline BY <2>1 DEF TypeOK
  <2>2. CASE baseline' = [value |-> n, whole |-> n = count.all]
    <3>1. n \in Unset..MaxCount /\ (n = count.all) \in BOOLEAN OBVIOUS
    <3> QED BY <2>2, <3>1, Zenon
  <2> QED BY <1>1, <2>1, <2>2
<1>8. \/ baseline'.value = n /\ (baseline'.whole => n = count.all)
      \/ baseline'.value = baseline.value /\ (baseline'.whole => baseline.whole)
  <2>1. CASE baseline' = baseline BY <2>1
  <2>2. CASE baseline' = [value |-> n, whole |-> n = count.all]
    <3>1. baseline'.value = n BY <2>2
    <3>2. baseline'.whole = (n = count.all) BY <2>2, Zenon
    <3> QED BY <3>1, <3>2
  <2> QED BY <1>1, <2>1, <2>2
<1>9. baseline'.value \in Int /\ baseline.value \in Int /\ before \in Int /\ count.all \in Int
  BY <1>2 DEF TypeOK
<1>3. last' \in None..MaxCount /\ shown' \in None..MaxCount /\ invalid' \in BOOLEAN
  BY DEF Merge, TypeOK
<1>4. last' <= count.all BY DEF Merge, Sampling
<1>5. baseline'.whole => before <= baseline'.value
  BY <1>8, <1>9 DEF Sampling
<1>6. mode = "shared" /\ ~invalid' /\ baseline'.value >= 0 => baseline'.value <= last'
  <2>1. \/ baseline.value = Unset /\ baseline'.value = n
        \/ baseline'.value = baseline.value
    BY DEF Merge
  <2>2. last \in Int /\ last' = IF n = None \/ (mode # "shared" /\ n < last) THEN last ELSE n
    BY DEF Merge, TypeOK
  <2>3. invalid' = (invalid \/ (mode = "shared" /\ n # None /\ n < last)) BY DEF Merge
  <2>4. HAVE mode = "shared" /\ ~invalid' /\ baseline'.value >= 0
  <2>5. ~invalid /\ ~(n # None /\ n < last) BY <2>3, <2>4, Zenon
  <2> QED BY <1>9, <2>1, <2>2, <2>4, <2>5 DEF Sampling
<1>7. mode # "shared" => last' = shown' BY DEF Merge, Sampling, TypeOK
<1> QED BY <1>2, <1>3, <1>4, <1>5, <1>6, <1>7 DEF Sampling

\* The sampler's thread: nothing is merged once the host has taken the lock to stop.
LEMMA SamplerIInv == IInv /\ Sampler => IInv'
<1> SUFFICES ASSUME IInv, Sampler PROVE IInv' OBVIOUS
<1> USE Numbers
<1>0. TypeOK /\ Phases /\ Sampling /\ Writing /\ Leaving /\ Ending /\ NoInherited /\ BreachFails
  BY DEF IInv
<1>1. UNCHANGED <<kernel, workload, host, meta, pc, closed, out>>
  BY DEF Sampler, Resolve, Read, Publish, Rest, sampling
<1> USE DEF kernel, workload, host
<1>2. /\ sampler' \in {"off", "resolve", "read", "merge", "rest", "over"} /\ known' \in BOOLEAN
      /\ sampler # "off" /\ got' \in None..MaxCount /\ got' <= count.all
  <2>1. CASE Read
    <3>1. \A n \in Readings : n \in None..MaxCount /\ n <= count.all
      BY <1>0 DEF Readings, TypeOK
    <3> QED BY <1>0, <2>1, <3>1 DEF Read, TypeOK
  <2>2. CASE Resolve \/ Rest BY <1>0, <2>2 DEF Resolve, Rest, TypeOK, Sampling
  <2>3. CASE Publish BY <1>0, <2>3 DEF Publish, TypeOK, Sampling
  <2> QED BY <2>1, <2>2, <2>3 DEF Sampler
<1>3. /\ Sampling'
      /\ baseline' \in [value : Unset..MaxCount, whole : BOOLEAN]
      /\ last' \in None..MaxCount /\ shown' \in None..MaxCount /\ invalid' \in BOOLEAN
      /\ ~closed \/ UNCHANGED samples
  <2>1. CASE Publish /\ ~closed /\ Merge(got)
    <3>1. got \in None..MaxCount /\ got <= count.all /\ UNCHANGED got
      BY <1>0, <2>1 DEF TypeOK, Sampling, Publish
    <3> QED BY <1>0, <1>1, <2>1, <3>1, MergeSampling
  <2>2. CASE UNCHANGED samples
    BY <1>0, <1>1, <1>2, <2>2 DEF Sampling, TypeOK, samples
  <2> QED BY <2>1, <2>2 DEF Sampler, Resolve, Read, Publish, Rest
<1>4. TypeOK' BY <1>0, <1>1, <1>2, <1>3 DEF TypeOK
<1>5. Phases'
  <2>1. pc \in Judging => UNCHANGED samples BY <1>0, <1>3 DEF Phases, Stopped
  <2> QED BY <1>0, <1>1, <1>2, <2>1 DEF Phases, Hits, samples
<1>6. Writing' /\ Leaving' /\ Ending' BY <1>0, <1>1 DEF Writing, Leaving, Ending, Gone, Spared
<1>7. NoInherited'
  <2>1. CASE UNCHANGED samples BY <1>0, <1>1, <2>1 DEF NoInherited, samples
  <2>2. CASE ~closed
    <3>1. out.hits = 0 BY <1>0, <1>2, <2>2 DEF Phases, Stopped, Judging
    <3> QED BY <1>0, <1>1, <3>1 DEF NoInherited, Sampling, TypeOK
  <2> QED BY <1>3, <2>1, <2>2
<1>8. BreachFails'
  <2>1. pc = "returned" => UNCHANGED samples BY <1>0, <1>3 DEF Phases, Stopped, Judging, Judged
  <2> QED BY <1>0, <1>1, <2>1 DEF BreachFails, samples
<1> QED BY <1>3, <1>4, <1>5, <1>6, <1>7, <1>8 DEF IInv

\* The host seals, waits, reads once more and makes up the account.
LEMMA StopIInv == IInv /\ (Seal \/ Join \/ FinalRead \/ Out) => IInv'
<1> SUFFICES ASSUME IInv, Seal \/ Join \/ FinalRead \/ Out PROVE IInv' OBVIOUS
<1> USE Numbers
<1>0. TypeOK /\ Phases /\ Sampling /\ Writing /\ Leaving /\ Ending /\ NoInherited /\ BreachFails
  BY DEF IInv
<1>1. /\ UNCHANGED <<kernel, workload, host, meta, thread>>
      /\ pc \in {"seal", "join", "read", "publish"} /\ pc' \in {"join", "read", "publish", "judge"}
      /\ pc' = "judge" <=> Out
      /\ closed' /\ closed' \in BOOLEAN
  BY <1>0 DEF Seal, Join, FinalRead, Out, stopping, Phases, Stopped, TypeOK
<1> USE DEF kernel, workload, host, thread
<1>2. /\ Sampling'
      /\ baseline' \in [value : Unset..MaxCount, whole : BOOLEAN]
      /\ last' \in None..MaxCount /\ shown' \in None..MaxCount /\ invalid' \in BOOLEAN
      /\ Out => UNCHANGED samples
  <2>1. CASE \E n \in Readings : FinalRead /\ Merge(n)
    <3> PICK n \in Readings : FinalRead /\ Merge(n) BY <2>1
    <3>1. n \in None..MaxCount /\ n <= count.all BY <1>0 DEF Readings, TypeOK
    <3>2. ~Out BY DEF FinalRead, Out
    <3> QED BY <1>0, <1>1, <3>1, <3>2, MergeSampling
  <2>2. CASE UNCHANGED samples
    BY <1>0, <1>1, <2>2 DEF Sampling, TypeOK, samples
  <2> QED BY <2>1, <2>2 DEF Seal, Join, FinalRead, Out
<1>3. out.hits = 0 /\ (~Out => out' = out)
  BY <1>0, <1>1 DEF Phases, Judging, Judged, Seal, Join, FinalRead, Out
<1>4. Out => /\ out'.hits = Hits /\ out' \in [value : None..MaxCount, hits : 0..MaxCount]
             /\ (baseline.whole \/ mode # "shared" => Hits <= count.all - before)
  <2> HAVE Out
  <2>1. out' = [value |-> last, hits |-> Hits] BY DEF Out
  <2>2. Hits \in 0..MaxCount /\ (baseline.whole \/ mode # "shared" => Hits <= count.all - before)
    BY <1>0 DEF Hits, TypeOK, Sampling
  <2> QED BY <1>0, <2>1, <2>2 DEF TypeOK
<1>5. TypeOK' BY <1>0, <1>1, <1>2, <1>3, <1>4 DEF TypeOK
<1>6. Phases'
  BY <1>0, <1>1, <1>2, <1>3, <1>4 DEF Phases, Hits, samples, Stopped, Judging, Judged
<1>7. Writing' /\ Leaving' BY <1>0, <1>1 DEF Writing, Leaving
<1>8. Ending' BY <1>0, <1>1 DEF Ending, Gone, Spared, Judged
<1>9. NoInherited'
  <2>1. CASE Out BY <1>1, <1>2, <1>4, <2>1 DEF NoInherited, samples
  <2>2. CASE ~Out BY <1>0, <1>1, <1>3, <2>2 DEF NoInherited, Sampling, TypeOK
  <2> QED BY <2>1, <2>2
<1>10. BreachFails' BY <1>1 DEF BreachFails
<1> QED BY <1>2, <1>5, <1>6, <1>7, <1>8, <1>9, <1>10 DEF IInv

-----------------------------------------------------------------------------
(* The host.                                                               *)

LEMMA StartIInv == IInv /\ (Start \/ StartFails) => IInv'
<1> SUFFICES ASSUME IInv, Start \/ StartFails PROVE IInv' OBVIOUS
<1> USE Numbers
<1>0. TypeOK /\ Phases /\ Sampling /\ Writing /\ Leaving /\ Ending /\ NoInherited /\ BreachFails
  BY DEF IInv
<1>1. /\ pc = "start" /\ UNCHANGED <<kernel, samples, got, known, mode, traced, before, error,
                                     unkilled, outlived, closed, out, specimen, copy, client>>
      /\ \/ pc' = "wait" /\ runner' = "new" /\ sampler' \in {"off", "resolve"} /\ meta' = meta
         \/ pc' = "raised" /\ UNCHANGED <<runner, sampler>> /\ meta' = [meta EXCEPT !.status = "error"]
  <2>1. CASE Launched BY <2>1, <1>0 DEF Start, StartFails, Launched, NotLaunched, unstarted
  <2>2. CASE NotLaunched BY <2>2 DEF Start, StartFails, Launched, NotLaunched, unstarted, workload
  <2> QED BY <2>1, <2>2 DEF Start, StartFails
<1> USE DEF kernel, samples
<1>2. TypeOK' BY <1>0, <1>1 DEF TypeOK, Terminal
<1>3. Phases' BY <1>0, <1>1 DEF Phases, Hits, Stopped, Judging, Judged
<1>4. Sampling' /\ NoInherited' BY <1>0, <1>1 DEF Sampling, NoInherited
<1>5. Writing' /\ Leaving' BY <1>0, <1>1 DEF Writing, Leaving, Phases, TypeOK
<1>6. Ending' /\ BreachFails' BY <1>0, <1>1 DEF Ending, BreachFails, Judged
<1> QED BY <1>2, <1>3, <1>4, <1>5, <1>6 DEF IInv

LEMMA WaitIInv == IInv /\ Wait => IInv'
<1> SUFFICES ASSUME IInv, Wait PROVE IInv' OBVIOUS
<1> USE Numbers
<1>0. TypeOK /\ Phases /\ Sampling /\ Writing /\ Leaving /\ Ending /\ NoInherited /\ BreachFails
  BY DEF IInv
<1>1. /\ pc = "wait" /\ pc' = "seal"
      /\ UNCHANGED <<kernel, samples, thread, mode, traced, before, outlived, meta, closed, out>>
      /\ error' \in BOOLEAN /\ client' \in {"up", "down"}
      /\ client' = "down" => client = "down" \/ mode = "shared"
      /\ client = "down" => client' = "down"
      /\ UNCHANGED unstopped \/ Stops
      /\ error' => (client = "down" /\ mode # "shared") \/ Stops
  <2>1. CASE Waited BY <2>1, <1>0 DEF Waited, waiting, TypeOK, Phases
  <2>2. CASE WaitedForMeta BY <2>2, <1>0 DEF WaitedForMeta, waiting, TypeOK, Phases
  <2>3. CASE WaitedTooLong BY <2>3, <1>0 DEF WaitedTooLong, waiting, TypeOK, Phases
  <2> QED BY <2>1, <2>2, <2>3 DEF Wait
<1>8. mode \in {"local", "docker", "shared"} BY <1>0, ExecuteAssumption DEF TypeOK
<1> USE DEF kernel, samples, thread
<1>2. TypeOK'
  <2>1. /\ runner' \in {"none", "new", "busy", "ending", "dead"}
        /\ specimen' \in {"none", "runs", "over"}
        /\ copy' \in {"none", "running", "finished", "killed"}
        /\ unkilled' \in BOOLEAN
    BY <1>0, <1>1 DEF TypeOK, Stops, Taken, unstopped
  <2> QED BY <1>0, <1>1, <2>1 DEF TypeOK
<1>3. Phases' BY <1>0, <1>1 DEF Phases, Hits, Stopped, Judging, Judged
<1>4. Sampling' /\ NoInherited' BY <1>0, <1>1 DEF Sampling, NoInherited
<1>5. Writing' /\ Leaving'
  <2>1. Writing' BY <1>0, <1>1 DEF Writing, Stops, unstopped
  <2>2. Leaving' BY <1>0, <1>1, <1>8 DEF Leaving, Stops, Taken, unstopped
  <2> QED BY <2>1, <2>2
<1>6. Ending'
  <2> SUFFICES ASSUME error' PROVE Gone' \/ Spared' BY <1>1 DEF Ending, Judged
  <2>1. CASE client = "down" /\ mode # "shared" /\ UNCHANGED unstopped
    BY <1>0, <1>1, <1>8, <2>1 DEF Writing, Leaving, Gone, Spared, TypeOK, unstopped
  <2>2. CASE Stops
    BY <1>0, <1>1, <1>8, <2>2 DEF Stops, Taken, Gone, Spared, Leaving, TypeOK
  <2> QED BY <1>1, <2>1, <2>2
<1>7. BreachFails' BY <1>1 DEF BreachFails
<1> QED BY <1>2, <1>3, <1>4, <1>5, <1>6, <1>7 DEF IInv

LEMMA JudgeIInv == IInv /\ (Judge \/ Mark \/ FailOnBreach \/ StoreLocked) => IInv'
<1> SUFFICES ASSUME IInv, Judge \/ Mark \/ FailOnBreach \/ StoreLocked PROVE IInv' OBVIOUS
<1> USE Numbers
<1>0. TypeOK /\ Phases /\ Sampling /\ Writing /\ Leaving /\ Ending /\ NoInherited /\ BreachFails
  BY DEF IInv
<1>1. UNCHANGED <<kernel, thread, samples, mode, traced, before, closed, out, client>>
  BY DEF Judge, Mark, FailOnBreach, StoreLocked, judging, workload
<1> USE DEF kernel, thread, samples
<1>2. CASE Judge
  <2>1. /\ pc = "judge" /\ pc' = "mark" /\ meta' = meta /\ outlived' = (runner' # "dead")
        /\ \/ UNCHANGED <<unstopped, error>> /\ (error \/ meta.status \in Terminal)
           \/ Stops /\ error' = TRUE
    BY <1>2 DEF Judge
  <2>2. outlived' \in BOOLEAN /\ (~outlived' => runner' = "dead") BY <2>1
  <2>9. mode \in {"local", "docker", "shared"} BY <1>0, ExecuteAssumption DEF TypeOK
  <2>3. TypeOK'
    <3>1. /\ runner' \in {"none", "new", "busy", "ending", "dead"}
          /\ specimen' \in {"none", "runs", "over"}
          /\ copy' \in {"none", "running", "finished", "killed"}
          /\ unkilled' \in BOOLEAN /\ error' \in BOOLEAN
      BY <1>0, <2>1 DEF TypeOK, Stops, Taken, unstopped
    <3> QED BY <1>0, <1>1, <2>1, <2>2, <3>1 DEF TypeOK
  <2>4. Phases' BY <1>0, <1>1, <2>1 DEF Phases, Hits, Stopped, Judging, Judged
  <2>5. Sampling' /\ NoInherited' BY <1>0, <1>1 DEF Sampling, NoInherited
  <2>6. Writing' /\ Leaving'
    <3>1. Writing' BY <1>0, <1>1, <2>1 DEF Writing, Stops, unstopped
    <3>2. Leaving' BY <1>0, <1>1, <2>1, <2>9 DEF Leaving, Stops, Taken, unstopped
    <3> QED BY <3>1, <3>2
  <2>7. Ending'
    <3>1. Gone' \/ Spared'
      <4>1. CASE Stops BY <1>0, <1>1, <2>9, <4>1 DEF Stops, Taken, Gone, Spared, Leaving, TypeOK
      <4>2. CASE UNCHANGED <<unstopped, error>> /\ (error \/ meta.status \in Terminal)
        BY <1>0, <1>1, <2>1, <4>2 DEF Ending, Leaving, Writing, Gone, Spared, TypeOK, unstopped
      <4> QED BY <2>1, <4>1, <4>2
    <3>2. error' \/ meta'.status \in Terminal BY <2>1
    <3> QED BY <2>1, <2>2, <3>1, <3>2 DEF Ending, Judged
  <2>8. BreachFails' BY <2>1 DEF BreachFails
  <2> QED BY <2>3, <2>4, <2>5, <2>6, <2>7, <2>8 DEF IInv
<1>3. CASE Mark
  <2>1. /\ pc = "mark" /\ pc' = "breach" /\ UNCHANGED <<workload, error, unkilled, outlived>>
        /\ meta' \in [status : {"queued", "running"} \cup Terminal, fatal : BOOLEAN]
        /\ meta'.status \in Terminal
    BY <1>0, <1>3 DEF Mark, TypeOK, Ending, Terminal
  <2>2. TypeOK' BY <1>0, <1>1, <2>1 DEF TypeOK, workload
  <2>3. Phases' BY <1>0, <1>1, <2>1 DEF Phases, Hits, Stopped, Judging, Judged, workload
  <2>4. Sampling' /\ NoInherited' BY <1>0, <1>1 DEF Sampling, NoInherited
  <2>5. Writing' /\ Leaving' BY <1>0, <1>1, <2>1 DEF Writing, Leaving, workload
  <2>6. Ending' BY <1>0, <1>1, <2>1 DEF Ending, Gone, Spared, Judged, workload
  <2>7. BreachFails' BY <2>1 DEF BreachFails
  <2> QED BY <2>2, <2>3, <2>4, <2>5, <2>6, <2>7 DEF IInv
<1>4. CASE FailOnBreach
  <2>1. /\ pc = "breach" /\ pc' = "returned" /\ UNCHANGED <<workload, error, unkilled, outlived>>
        /\ meta' = IF Fatal /\ out.hits > 0 /\ mode # "shared"
                   THEN [status |-> "error", fatal |-> TRUE] ELSE meta
    BY <1>4 DEF FailOnBreach
  <2>2. TypeOK' BY <1>0, <1>1, <2>1 DEF TypeOK, workload, Terminal
  <2>3. Phases' BY <1>0, <1>1, <2>1 DEF Phases, Hits, Stopped, Judging, Judged, workload
  <2>4. Sampling' /\ NoInherited' BY <1>0, <1>1 DEF Sampling, NoInherited
  <2>5. Writing' /\ Leaving' BY <1>0, <1>1, <2>1 DEF Writing, Leaving, workload
  <2>6. Ending' BY <1>0, <1>1, <2>1 DEF Ending, Gone, Spared, Judged, workload, Terminal
  <2>7. BreachFails'
    <3> SUFFICES ASSUME mode = "docker", Fatal, shown > 0
                 PROVE meta' = [status |-> "error", fatal |-> TRUE]
      BY <1>1 DEF BreachFails
    <3>1. out.hits = last /\ last = shown
      BY <1>0, <2>1 DEF Phases, Sampling, Hits, Judging, Judged
    <3> QED BY <2>1, <3>1
  <2> QED BY <2>2, <2>3, <2>4, <2>5, <2>6, <2>7 DEF IInv
<1>5. CASE StoreLocked
  <2>1. /\ pc \in {"mark", "breach"} /\ pc' = "raised"
        /\ UNCHANGED <<workload, meta, error, unkilled, outlived>>
    BY <1>5 DEF StoreLocked
  <2>2. TypeOK' BY <1>0, <1>1, <2>1 DEF TypeOK, workload
  <2>3. Phases' BY <1>0, <1>1, <2>1 DEF Phases, Hits, Stopped, Judging, Judged, workload
  <2>4. Sampling' /\ NoInherited' BY <1>0, <1>1 DEF Sampling, NoInherited
  <2>5. Writing' /\ Leaving' BY <1>0, <1>1, <2>1 DEF Writing, Leaving, workload
  <2>6. Ending' /\ BreachFails'
    BY <1>0, <1>1, <2>1 DEF Ending, Gone, Spared, BreachFails, Judged, workload
  <2> QED BY <2>2, <2>3, <2>4, <2>5, <2>6 DEF IInv
<1> QED BY <1>2, <1>3, <1>4, <1>5

LEMMA StutterIInv == IInv /\ UNCHANGED vars => IInv'
BY DEF IInv, TypeOK, Phases, Hits, Sampling, Writing, Leaving, Ending, Gone, Spared, NoInherited, BreachFails,
       vars, kernel, workload, samples, thread, host

\* The invariant of a run, whatever the runtime, the counter and the sampler do.
THEOREM ExecuteInvariance == Spec => []IInv
<1>1. Init => IInv BY InitIInv
<1>2. IInv /\ [Next]_vars => IInv'
  BY KernelIInv, RunnerIInv, SamplerIInv, StopIInv, StartIInv, WaitIInv, JudgeIInv, StutterIInv
     DEF Next, Container, Host
<1> QED BY <1>1, <1>2, PTL DEF Spec

-----------------------------------------------------------------------------
(* The properties.                                                         *)

\* A run in a shared container is charged with no more than was counted while it ran.
THEOREM NoInheritedHolds == Spec => []NoInherited
<1>1. IInv => NoInherited BY DEF IInv
<1> QED BY <1>1, ExecuteInvariance, PTL

\* A breach that any sample has shown fails the run that is to die of it.
THEOREM BreachFailsHolds == Spec => []BreachFails
<1>1. IInv => BreachFails BY DEF IInv
<1> QED BY <1>1, ExecuteInvariance, PTL

\* A run that execute returns is over, unless its runner has outlived the stop.
THEOREM OverWhenReturnedHolds == Spec => []OverWhenReturned
<1>1. IInv => OverWhenReturned BY DEF IInv, Ending, OverWhenReturned
<1> QED BY <1>1, ExecuteInvariance, PTL

\* The specimen does not run on behind execute, unless the last stop failed, the client of
\* its own container is gone, or it is not traced and the runtime local.
THEOREM NoOrphanHolds == Spec => []NoOrphan
<1>1. IInv => NoOrphan BY DEF IInv, Ending, Gone, Spared, NoOrphan, Judged
<1> QED BY <1>1, ExecuteInvariance, PTL

\* What the run is judged by does not change under the judge (ResourceSampler).
THEOREM SealedHolds == Spec => Sealed
<1>1. IInv /\ [Next]_vars => (pc \in {"judge", "mark", "breach", "returned"} => UNCHANGED samples)
  <2> SUFFICES ASSUME IInv, [Next]_vars, pc \in {"judge", "mark", "breach", "returned"}
               PROVE UNCHANGED samples
    OBVIOUS
  <2>1. closed BY DEF IInv, Phases, Stopped, Judging, Judged
  <2>2. CASE Container \/ UNCHANGED vars
    BY <2>2 DEF Container, Breach, RunnerReads, RunnerWrites, RunnerDies, ContainerComes,
                ContainerGoes, ClientExits, SpecimenStarts, SpecimenEnds, rest, vars
  <2>3. CASE Sampler
    BY <2>1, <2>3 DEF Sampler, Resolve, Read, Publish, Rest
  <2>4. CASE Host
    BY <2>4 DEF Host, Start, StartFails, Launched, NotLaunched, Wait, Waited, WaitedForMeta,
                WaitedTooLong, Seal, Join, FinalRead, Out, Judge, Mark, FailOnBreach, StoreLocked,
                judging, stopping
  <2> QED BY <2>2, <2>3, <2>4 DEF Next
<1> QED BY <1>1, ExecuteInvariance, PTL DEF Spec, Sealed

-----------------------------------------------------------------------------
(* The record of the run, as its readers see it: RunRecord.                *)

LEMMA RecordingStep == IInv /\ Recording /\ [Next]_vars => Recording'
<1> SUFFICES ASSUME IInv, Recording, [Next]_vars PROVE Recording' OBVIOUS
<1> USE DEF Recording
<1>0. TypeOK /\ Phases /\ Writing /\ Ending BY DEF IInv
<1>1. CASE Breach \/ ContainerComes \/ ContainerGoes \/ ClientExits \/ SpecimenStarts \/ SpecimenEnds
  BY <1>1 DEF Breach, ContainerComes, ContainerGoes, ClientExits, SpecimenStarts, SpecimenEnds,
              workload, host, rest
<1>2. CASE RunnerReads
  BY <1>0, <1>2 DEF RunnerReads, rest, host, TypeOK, Writing
<1>3. CASE RunnerWrites
  <2>1. meta' = [meta EXCEPT !.status = copy] /\ meta'.status = copy
    BY <1>0, <1>3 DEF RunnerWrites, TypeOK
  <2>2. UNCHANGED <<pc, outlived>> BY <1>3 DEF RunnerWrites, rest, host
  <2>3. runner = "new" => copy = "running" BY <1>0, <1>3 DEF RunnerWrites, Writing
  <2>4. runner' = IF runner = "new" THEN "busy" ELSE "dead" BY <1>3 DEF RunnerWrites
  <2>5. runner # "none" BY <1>0, <1>3 DEF RunnerWrites, Writing
  <2> QED BY <2>1, <2>2, <2>3, <2>4, <2>5
<1>4. CASE RunnerDies
  BY <1>4 DEF RunnerDies, rest, host
<1>5. CASE Sampler
  BY <1>5 DEF Sampler, Resolve, Read, Publish, Rest, sampling, workload, host
<1>6. CASE Start \/ StartFails
  <2>1. CASE Launched
    <3>1. pc = "start" BY <1>6 DEF Start, StartFails
    <3>2. runner = "none" BY <1>0, <3>1 DEF Phases
    <3> QED BY <2>1, <3>1, <3>2 DEF Launched, unstarted
  <2>2. CASE NotLaunched
    <3>1. pc = "start" BY <1>6 DEF Start, StartFails
    <3>2. runner = "none" /\ ~outlived BY <1>0, <3>1 DEF Phases
    <3>3. meta'.status = "error" BY <1>0, <2>2 DEF NotLaunched, TypeOK
    <3> QED BY <2>2, <3>2, <3>3 DEF NotLaunched, workload, unstarted
  <2> QED BY <1>6, <2>1, <2>2 DEF Start, StartFails
<1>7. CASE Wait
  <2>1. /\ pc = "wait" /\ pc' = "seal" /\ UNCHANGED <<meta, outlived>>
        /\ runner' \in {runner, "dead"}
    BY <1>7 DEF Wait, Waited, WaitedForMeta, WaitedTooLong, Stops, unstopped, waiting
  <2> QED BY <2>1
<1>8. CASE Seal \/ Join \/ FinalRead \/ Out
  BY <1>8 DEF Seal, Join, FinalRead, Out, stopping, workload, host
<1>9. CASE Judge
  <2>1. /\ pc = "judge" /\ pc' = "mark" /\ meta' = meta /\ outlived' = (runner' # "dead")
        /\ runner' \in {runner, "dead"}
    BY <1>9 DEF Judge, Stops, unstopped
  <2>2. ~outlived' => runner' = "dead" BY <2>1
  <2> QED BY <2>1, <2>2
<1>10. CASE Mark \/ FailOnBreach \/ StoreLocked
  <2>1. /\ pc \in {"mark", "breach"} /\ pc' \in {"breach", "returned", "raised"}
        /\ UNCHANGED <<runner, outlived>>
    BY <1>10 DEF Mark, FailOnBreach, StoreLocked, workload
  <2>2. runner # "none" BY <2>1
  <2>3. ~outlived => runner = "dead" BY <1>0, <2>1 DEF Ending, Judged
  <2> QED BY <2>1, <2>2, <2>3
<1>11. CASE UNCHANGED vars
  BY <1>11 DEF vars, workload, host
<1> QED BY <1>1, <1>2, <1>3, <1>4, <1>5, <1>6, <1>7, <1>8, <1>9, <1>10, <1>11
        DEF Next, Container, Host

\* How far the status is follows from where host and runner are.
THEOREM RecordingHolds == Spec => []Recording
<1>1. Init => Recording BY DEF Init, Recording
<1> QED BY <1>1, RecordingStep, ExecuteInvariance, PTL DEF Spec

LEMMA RecordAfter ==
  /\ Record!After("queued") = {"running", "error"}
  /\ Record!After("running") = {"finished", "killed", "error"}
<1>1. Record!After("queued") = {"running", "error"} BY DEF Record!After
<1>2. Record!After("running") = {"finished", "killed", "error"} BY DEF Record!After, Record!Outcome
<1> QED BY <1>1, <1>2

LEMMA RecordQuiet ==
  ASSUME UNCHANGED <<meta, outlived>> PROVE UNCHANGED Record!vars
BY DEF Record!vars

\* The record is written: forwards, over an outcome by a breach, or by a runner that
\* has outlived the stop.
LEMMA RecordPut ==
  ASSUME UNCHANGED outlived, meta'.fatal \in BOOLEAN,
         \/ meta'.status \in Record!After(meta.status)
         \/ meta.status \in Terminal /\ meta'.status = "error" /\ meta'.fatal = TRUE
         \/ outlived /\ meta'.status \in {"running"} \cup Terminal
  PROVE  Record!Next
<1> DEFINE S == [r \in {"run"} |-> meta.status]
           D == [r \in {"run"} |-> meta.fatal]
<1>1. S' = [S EXCEPT !["run"] = meta'.status]
  <2>1. S' = [r \in {"run"} |-> meta'.status] OBVIOUS
  <2>2. [S EXCEPT !["run"] = meta'.status] = [r \in {"run"} |-> meta'.status] OBVIOUS
  <2> QED BY <2>1, <2>2
<1>2. D' = [D EXCEPT !["run"] = meta'.fatal]
  <2>1. D' = [r \in {"run"} |-> meta'.fatal] OBVIOUS
  <2>2. [D EXCEPT !["run"] = meta'.fatal] = [r \in {"run"} |-> meta'.fatal] OBVIOUS
  <2> QED BY <2>1, <2>2
<1>3. Record!Put("run", meta'.status, meta'.fatal)
  BY <1>1, <1>2 DEF Record!Put
<1>4. S["run"] = meta.status OBVIOUS
<1>5. CASE meta'.status \in Record!After(meta.status)
  <2>1. Record!Goes("run") BY <1>3, <1>4, <1>5 DEF Record!Goes
  <2> QED BY <2>1 DEF Record!Next
<1>6. CASE meta.status \in Terminal /\ meta'.status = "error" /\ meta'.fatal = TRUE
  <2> DEFINE l == [status |-> "error", data |-> TRUE]
  <2>1. Record!Put("run", l.status, l.data) BY <1>3, <1>6
  <2>2. Record!Overrule("run")
    BY <1>4, <1>6, <2>1 DEF Record!Overrule, Record!Outcome, Terminal
  <2> QED BY <2>2 DEF Record!Next
<1>7. CASE outlived /\ meta'.status \in {"running"} \cup Terminal
  <2>1. Record!Writes("run")
    BY <1>3, <1>7 DEF Record!Writes, Record!Outcome, Terminal
  <2> QED BY <2>1 DEF Record!Next
<1> QED BY <1>5, <1>6, <1>7

LEMMA RecordNext == IInv /\ Recording /\ [Next]_vars => [Record!Next]_(Record!vars)
<1> SUFFICES ASSUME IInv, Recording, [Next]_vars PROVE [Record!Next]_(Record!vars) OBVIOUS
<1>0. TypeOK /\ Phases /\ Writing /\ Ending BY DEF IInv
<1>1. CASE UNCHANGED <<meta, outlived>> BY <1>1, RecordQuiet
<1>2. CASE RunnerWrites
  <2>1. /\ meta'.status = copy /\ meta'.fatal \in BOOLEAN /\ UNCHANGED outlived
        /\ copy \in {"running"} \cup Terminal
    BY <1>0, <1>2 DEF RunnerWrites, rest, host, TypeOK, Terminal
  <2>2. CASE ~outlived
    <3>1. CASE runner = "new"
      <4>1. copy = "running" /\ meta.status = "queued"
        BY <1>0, <1>2, <2>2, <3>1 DEF RunnerWrites, Writing, Recording
      <4> QED BY <2>1, <4>1, RecordAfter, RecordPut
    <3>2. CASE runner # "new"
      <4>1. copy \in {"finished", "killed"} /\ meta.status = "running"
        BY <1>0, <1>2, <2>2, <3>2 DEF RunnerWrites, Writing, Recording, TypeOK
      <4> QED BY <2>1, <4>1, RecordAfter, RecordPut
    <3> QED BY <3>1, <3>2
  <2>3. CASE outlived BY <2>1, <2>3, RecordPut
  <2> QED BY <2>2, <2>3
<1>3. CASE NotLaunched /\ pc = "start"
  <2>1. meta.status = "queued" BY <1>0, <1>3 DEF Recording, Phases
  <2>2. meta'.status = "error" /\ meta'.fatal \in BOOLEAN /\ UNCHANGED outlived
    BY <1>0, <1>3 DEF NotLaunched, unstarted, TypeOK
  <2> QED BY <2>1, <2>2, RecordAfter, RecordPut
<1>4. CASE Judge
  <2>1. outlived' = (runner' # "dead") /\ meta' = meta /\ ~outlived
    BY <1>4 DEF Judge, Recording
  <2>2. CASE runner' # "dead"
    <3>1. (IF outlived THEN {"run"} ELSE {})' = (IF outlived THEN {"run"} ELSE {}) \cup {"run"}
      BY <2>1, <2>2
    <3>2. Record!GiveUp("run") BY <2>1, <3>1 DEF Record!GiveUp
    <3> QED BY <3>2 DEF Record!Next
  <2>3. CASE runner' = "dead"
    <3>1. outlived' = FALSE /\ outlived = FALSE BY <1>0, <2>1, <2>3 DEF TypeOK
    <3> QED BY <2>1, <3>1, RecordQuiet
  <2> QED BY <2>2, <2>3
<1>5. CASE Mark
  <2>1. CASE meta' = meta
    BY <1>1, <1>5, <2>1 DEF Mark
  <2>2. CASE meta.status \notin Terminal /\ meta' = [meta EXCEPT !.status = "error"]
    <3>1. meta'.status = "error" /\ meta'.fatal \in BOOLEAN /\ UNCHANGED outlived
      BY <1>0, <1>5, <2>2 DEF Mark, TypeOK
    <3>2. meta.status \in {"queued", "running"} BY <1>0, <2>2 DEF TypeOK
    <3> QED BY <3>1, <3>2, RecordAfter, RecordPut
  <2> QED BY <1>5, <2>1, <2>2 DEF Mark
<1>6. CASE FailOnBreach
  <2>1. CASE meta' = meta
    BY <1>1, <1>6, <2>1 DEF FailOnBreach
  <2>2. CASE meta' = [status |-> "error", fatal |-> TRUE]
    <3>1. meta'.status = "error" /\ meta'.fatal = TRUE /\ UNCHANGED outlived
      BY <1>6, <2>2 DEF FailOnBreach
    <3>2. outlived \/ meta.status \in Terminal BY <1>0, <1>6 DEF FailOnBreach, Ending
    <3> QED BY <3>1, <3>2, RecordPut DEF Terminal
  <2> QED BY <1>6, <2>1, <2>2 DEF FailOnBreach
<1>7. CASE Container /\ ~RunnerWrites
  BY <1>1, <1>7 DEF Container, Breach, RunnerReads, RunnerDies, ContainerComes, ContainerGoes,
                    ClientExits, SpecimenStarts, SpecimenEnds, rest, host
<1>8. CASE Sampler
  BY <1>1, <1>8 DEF Sampler, Resolve, Read, Publish, Rest, sampling, host
<1>9. CASE (Start \/ StartFails) /\ ~NotLaunched
  BY <1>1, <1>9 DEF Start, StartFails, Launched, unstarted
<1>10. CASE Wait \/ Seal \/ Join \/ FinalRead \/ Out \/ StoreLocked
  BY <1>1, <1>10 DEF Wait, Waited, WaitedForMeta, WaitedTooLong, waiting, Seal, Join, FinalRead, Out,
                     stopping, host, StoreLocked
<1>11. CASE UNCHANGED vars BY <1>1, <1>11 DEF vars, host
<1>12. Start \/ StartFails => pc = "start" BY DEF Start, StartFails
<1> QED BY <1>2, <1>3, <1>4, <1>5, <1>6, <1>7, <1>8, <1>9, <1>10, <1>11, <1>12 DEF Next, Host

\* execute and the runner keep the promise of RunRecord: what meta.json says of the
\* run goes on, and its outcome is overruled only by a breach that is to fail it.
THEOREM OutcomeRefinement == Spec => OutcomeSpec
<1>1. Init => Record!Init BY DEF Init, Record!Init
<1> QED BY <1>1, RecordNext, ExecuteInvariance, RecordingHolds, PTL DEF Spec, OutcomeSpec, Record!Spec
=============================================================================
