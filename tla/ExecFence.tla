----------------------------- MODULE ExecFence -----------------------------
(***************************************************************************)
(* What the execution record promises its callers: a run is admitted once, *)
(* its workload is launched at most once and only between admission and    *)
(* retirement, and a run that was retired - drained, or cancelled at any   *)
(* time, even before it was created - has no live workload ever again.     *)
(***************************************************************************)
CONSTANT Runs

VARIABLES
  fence,   \* "open", "admitted", "launched" or "retired"
  live     \* runs whose workload group has a live member

vars == <<fence, live>>

Init == /\ fence = [r \in Runs |-> "open"]
        /\ live = {}

Admit(r) == /\ fence[r] = "open"
            /\ fence' = [fence EXCEPT ![r] = "admitted"]
            /\ UNCHANGED live

Launch(r) == /\ fence[r] = "admitted"
             /\ fence' = [fence EXCEPT ![r] = "launched"]
             /\ live' = live \cup {r}

\* Workloads end, by themselves, by a signal or with their container.
End == /\ live' \in SUBSET live
       /\ UNCHANGED fence

Retire(r) == /\ fence' = [fence EXCEPT ![r] = "retired"]
             /\ live' = live \ {r}

Next == End \/ \E r \in Runs : Admit(r) \/ Launch(r) \/ Retire(r)

Spec == Init /\ [][Next]_vars

RetiredNotLive == \A r \in live : fence[r] = "launched"
=============================================================================
