------------------------------ MODULE RunStore ------------------------------
(***************************************************************************)
(* The directory of a run, as RunStore (containre/store/run_store.py)      *)
(* keeps it: events.jsonl, its index in sqlite, and meta.json.             *)
(*                                                                         *)
(* The session of the runner process keeps one RunStore open and writes    *)
(* events through it.  Other processes open a RunStore of their own on the *)
(* same directory to patch meta.json; opening one replays the log into the *)
(* index.  The operators below are the operations of those two users; the  *)
(* modules that extend this one say who calls them and when.               *)
(***************************************************************************)
EXTENDS Naturals

CONSTANTS
  Runs,     \* run directories
  MaxLog    \* bound: events of one run

ASSUME MaxLogAssumption == MaxLog \in Nat

VARIABLES
  meta,   \* meta.json: status, and whether it holds the runner's verdict
  tmp,    \* meta.json.tmp, which every writer uses
  log,    \* complete lines of events.jsonl
  tail,   \* the session's write_event: its line is "torn" or a whole "line"
  rows,   \* committed rows of the index
  txn     \* runs whose session has an open write transaction on the index

store == <<meta, tmp, log, tail, rows, txn>>

Terminal == {"finished", "killed", "error"}
Meta == [status : {"none", "queued", "running"} \cup Terminal, verdict : BOOLEAN]
NoMeta == [status |-> "none", verdict |-> FALSE]

StoreTypeOK ==
  /\ meta \in [Runs -> Meta] /\ tmp \in [Runs -> Meta]
  /\ log \in [Runs -> 0..MaxLog] /\ rows \in [Runs -> 0..MaxLog]
  /\ tail \in [Runs -> {"none", "torn", "line"}]
  /\ txn \in SUBSET Runs

StoreInit ==
  /\ meta = [r \in Runs |-> NoMeta] /\ tmp = [r \in Runs |-> NoMeta]
  /\ log = [r \in Runs |-> 0] /\ rows = [r \in Runs |-> 0]
  /\ tail = [r \in Runs |-> "none"] /\ txn = {}

-----------------------------------------------------------------------------
(* meta.json: update_meta reads it, writes the patched copy to a temporary *)
(* file and renames that.                                                  *)

\* Nobody else has the directory yet or any more: one step.
PutMeta(r, m) ==
  /\ meta' = [meta EXCEPT ![r] = m]
  /\ UNCHANGED <<tmp, log, tail, rows, txn>>

\* Truncated and written in one step.  Another writer that renames the file in between
\* has it torn until the write is done, which then goes to meta.json itself.
WriteTmp(r, m) ==
  /\ tmp' = [tmp EXCEPT ![r] = m]
  /\ UNCHANGED <<meta, log, tail, rows, txn>>

\* The name is shared: it may hold another writer's copy, or be gone, in which
\* case the rename raises.
TmpGone(r) == tmp[r] = NoMeta

Rename(r) ==
  /\ ~TmpGone(r)
  /\ meta' = [meta EXCEPT ![r] = tmp[r]]
  /\ tmp' = [tmp EXCEPT ![r] = NoMeta]
  /\ UNCHANGED <<log, tail, rows, txn>>

-----------------------------------------------------------------------------
(* write_event, under the lock of the instance: the line, then the row.    *)

\* A line longer than the buffer reaches the file in pieces.
BeginLine(r) ==
  /\ tail[r] = "none" /\ log[r] < MaxLog
  /\ tail' = [tail EXCEPT ![r] = "torn"]
  /\ UNCHANGED <<meta, tmp, log, rows, txn>>

EndLine(r) ==
  /\ tail[r] = "torn"
  /\ log' = [log EXCEPT ![r] = @ + 1]
  /\ tail' = [tail EXCEPT ![r] = "line"]
  /\ UNCHANGED <<meta, tmp, rows, txn>>

\* The insert opens a transaction, which every 64th event commits.  A row that
\* another opener has replayed meanwhile makes it raise, in the transaction.
InsertRow(r) ==
  /\ tail[r] = "line"
  /\ tail' = [tail EXCEPT ![r] = "none"]
  /\ \/ txn' = txn \cup {r} /\ UNCHANGED rows
     \/ /\ rows[r] < log[r]
        /\ rows' = [rows EXCEPT ![r] = log[r]]
        /\ txn' = txn \ {r}
  /\ UNCHANGED <<meta, tmp, log>>

\* Mutant: close does not commit.
CloseDirty(r) ==
  /\ txn' = txn \ {r}
  /\ UNCHANGED <<meta, tmp, log, tail, rows>>

\* close commits what is open.
Close(r) ==
  /\ rows' = [rows EXCEPT ![r] = IF r \in txn THEN log[r] ELSE @]
  /\ txn' = txn \ {r}
  /\ UNCHANGED <<meta, tmp, log, tail>>

\* The writing process died: a torn line stays, the transaction is rolled back.
Abandoned(r) ==
  /\ tail' = [tail EXCEPT ![r] = IF @ = "torn" THEN @ ELSE "none"]
  /\ txn' = txn \ {r}
  /\ UNCHANGED <<meta, tmp, log, rows>>

-----------------------------------------------------------------------------
(* Opening a second RunStore on the directory.                             *)

\* The replay needs the write lock that the session's transaction holds, and
\* raises "database is locked" when it does not get it.
Locked(r) == r \in txn /\ rows[r] < log[r]

\* _reconcile_index_from_jsonl; a torn line does not parse and is skipped.
Reconcile(r) ==
  /\ ~Locked(r)
  /\ rows' = [rows EXCEPT ![r] = log[r]]
  /\ UNCHANGED <<meta, tmp, log, tail, txn>>
=============================================================================
