-------------------------- MODULE EventStream_inv --------------------------
(***************************************************************************)
(* The inductive invariant of EventStream: what the cursor, the page and   *)
(* the client's events have to do with the log of the run.                 *)
(***************************************************************************)
EXTENDS EventStream, RunManager_inv

\* The page on its way continues what the client has, up to the cursor;
\* that it was not full is remembered until the next decision.
CursorStage(r) ==
  /\ since[r] <= log[r]
  /\ view[r] = "send" => got[r] \cup page[r] = 1..since[r]
  /\ view[r] \in {"none", "page", "status", "active", "closed"} => got[r] = 1..since[r]
  /\ r \in short => view[r] \in {"send", "status", "active"}

\* The log of a run that had ended when its client came stays as it is, so that
\* a page that was not full has reached its end.
PostHocStage(r) ==
  r \in posthoc =>
    /\ ~Alive(r) /\ api[r] \notin {"idle", "admitted", "created"}
    /\ r \in short \/ view[r] = "closed" => since[r] = log[r]

\* The inductive invariant.
SInv ==
  /\ MInv
  /\ StreamTypeOK
  /\ \A r \in Runs : CursorStage(r) /\ PostHocStage(r)
=============================================================================
