-------------------------- MODULE Descriptors_inv --------------------------
(***************************************************************************)
(* The inductive invariant of Descriptors: what the tracer's tables and    *)
(* the kernel's have in common while calls are under way.                  *)
(***************************************************************************)
EXTENDS Descriptors

\* Nobody shares the table of a task in solo, and one that is not there does nothing.
Groups ==
  /\ \A t \in Tasks : group[t] # "none" => group[group[t]] = group[t]
  /\ \A t \in Tasks : group[t] = "none" => call[t] = Idle
  /\ \A t \in solo : group[t] = t /\ \A u \in Tasks : group[u] = t => u = t

\* The call of a task is on a number; a connect has its flow from the entry on.
CallStage(t) ==
  /\ call[t].name = "none" <=> call[t] = Idle
  /\ call[t].name # "none" => call[t].fd \in Fds
  /\ call[t].name = "open" => call[t].of \in Files
  /\ call[t].name = "connect" => call[t].of \in Addrs /\ flows[t][call[t].fd] = call[t].of

\* A socket that a number stands for, or that somebody has connected, is there.
Sockets ==
  /\ \A k \in Socks : sock[k].st \in {"free", "new"} => sock[k].peer = "-"
  /\ \A t \in Tasks, fd \in Fds, k \in Socks : table[t][fd] = Sock(k) => sock[k].st # "free"
  /\ \A t \in Tasks, fd \in Fds, k \in Socks : <<fd, k>> \in known[t] => sock[k].st # "free"

PathOf(d) == IF d.is = "file" THEN d.of ELSE "-"

\* The call whose exit will set the path of fd
Renames(t, fd) == call[t].name \in {"open", "close"} /\ call[t].fd = fd

\* The path is that of the descriptor; during an open or a close, the exit will
\* make it so.
PathStage(t) == \A fd \in Fds : fd \notin silent[t] =>
  /\ ~Renames(t, fd) => fd_paths[t][fd] = PathOf(table[t][fd])
  /\ Renames(t, fd) /\ call[t].name = "open" => table[t][fd] = File(call[t].of)
  /\ Renames(t, fd) /\ call[t].name = "close" => table[t][fd] = Closed

\* fd stands for k, which the task or a forebear has connected as fd.
Connected(t, fd, k) ==
  /\ fd \notin silent[t] /\ table[t][fd] = Sock(k)
  /\ <<fd, k>> \in known[t] /\ k \notin again

\* A connect that has been entered, and of which the kernel has made nothing yet
Enters(t, fd) == call[t].name = "connect" /\ call[t].ret = "-" /\ call[t].fd = fd

\* The call whose exit will drop the flow of fd
Drops(t, fd) ==
  call[t].name \in {"connect", "getsockopt"} /\ call[t].ret = "failed" /\ call[t].fd = fd

\* The flow names the peer, unless another connect has been entered; a call that
\* will drop it has left the socket unconnected.
FlowStage(t) == \A fd \in Fds, k \in Socks : Connected(t, fd, k) =>
  /\ sock[k].st \in {"pending", "on"} /\ ~Enters(t, fd) => flows[t][fd] = sock[k].peer
  /\ Drops(t, fd) => sock[k].st = "new"

\* The inductive invariant.
IInv ==
  /\ TypeOK /\ Groups /\ Sockets
  /\ \A t \in Tasks : CallStage(t)
  /\ \A t \in solo : PathStage(t) /\ FlowStage(t)
=============================================================================
