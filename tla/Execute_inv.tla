----------------------------- MODULE Execute_inv -----------------------------
(***************************************************************************)
(* The inductive invariant of Execute: how far the host is, what the       *)
(* samples have to do with the counter, and who may still write the        *)
(* result.                                                                 *)
(***************************************************************************)
EXTENDS Execute

Judged  == {"mark", "breach", "returned"}
Judging == {"judge"} \cup Judged
Stopped == {"join", "read", "publish"} \cup Judging

\* Once stop has returned nothing is merged; before, there is no hit to judge by.
Phases ==
  /\ pc = "start" => runner = "none" /\ specimen = "none" /\ sampler = "off"
  /\ pc \in {"start", "wait"} => ~error
  /\ pc \in Stopped => closed
  /\ pc = "raised" => closed \/ sampler = "off"
  /\ pc \notin Judging \cup {"raised"} => out.hits = 0
  /\ pc \in Judging => out.hits = Hits

\* A sample is behind the counter, a valid increase is above its baseline.
Sampling ==
  /\ before <= count.all /\ (mode # "shared" => before = 0)
  /\ got <= count.all /\ last <= count.all
  /\ baseline.whole => before <= baseline.value
  /\ mode = "shared" /\ ~invalid /\ baseline.value >= 0 => baseline.value <= last
  /\ mode # "shared" => last = shown

\* What a runner is about to write; a result is the last thing it writes.
Writing ==
  /\ runner = "new" => copy \in {"none", "running"}
  /\ runner = "ending" => copy \in {"finished", "killed"}
  /\ runner \in {"none", "busy", "dead"} => copy = "none"
  /\ pc \notin {"breach", "returned", "raised"} /\ meta.status \in Terminal => runner = "dead"
  /\ mode = "local" /\ client = "down" => runner = "dead"

\* The specimen ends before the runner does, or with it, where it is the tracer's or the
\* container's; otherwise it may be left behind.
Leaving ==
  /\ runner \in {"none", "new"} => specimen # "runs"
  /\ runner = "ending" => specimen # "runs"
  /\ runner = "dead" /\ (mode = "docker" \/ (mode = "local" /\ traced)) => specimen # "runs"
  /\ pc \notin {"breach", "returned", "raised"} /\ meta.status \in Terminal => specimen # "runs"

\* It has ended, or will not start.
Gone == specimen = "over" \/ (specimen = "none" /\ runner \notin {"new", "busy"})

\* The exemptions of NoOrphan.
Spared == unkilled \/ (mode = "docker" /\ client = "down") \/ (mode = "local" /\ ~traced)

\* A runner that is alive has outlived the judgement; a specimen that goes on, or may
\* still start, is one that nobody has tried to stop.
Ending ==
  /\ pc = "mark" => error \/ meta.status \in Terminal
  /\ pc \in Judged /\ ~outlived => runner = "dead"
  /\ pc \in {"breach", "returned"} /\ ~outlived => meta.status \in Terminal
  /\ pc \notin {"start", "wait", "raised"} /\ (error \/ pc \in Judged) => Gone \/ Spared

\* The inductive invariant.
IInv == TypeOK /\ Phases /\ Sampling /\ Writing /\ Leaving /\ Ending /\ NoInherited /\ BreachFails

\* How far the status is at each step of the runner, unless the host has judged the
\* run while the runner lives on.  Inductive together with IInv.
Recording ==
  /\ runner = "none" => pc \in {"start", "raised"}
  /\ runner = "none" => meta.status = IF pc = "raised" THEN "error" ELSE "queued"
  /\ pc \in {"start", "wait", "seal", "join", "read", "publish", "judge"} => ~outlived
  /\ pc = "raised" /\ ~outlived => runner \in {"none", "dead"}
  /\ runner = "new" /\ ~outlived => meta.status = "queued"
  /\ runner \in {"busy", "ending"} /\ ~outlived => meta.status = "running"
=============================================================================
