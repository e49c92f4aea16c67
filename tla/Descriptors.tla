----------------------------- MODULE Descriptors -----------------------------
(***************************************************************************)
(* What the tracer (containre/tracer/ptrace_tracer.py) believes of the     *)
(* descriptors of the specimen: fd_paths and flows, two tables keyed by a  *)
(* task and a number, kept from the calls it sees, beside the tables that  *)
(* the kernel keeps for each process.                                      *)
(*                                                                         *)
(* A file stands for its path, as the tracer resolves it when the open has *)
(* returned.                                                               *)
(*                                                                         *)
(* Whether a connect may go on is decided in Tracer; here it does.  A      *)
(* refused one leaves both tables as they are.                             *)
(***************************************************************************)
EXTENDS Integers, FiniteSets, FiniteSetsExt

CONSTANTS
  Tasks,  \* threads and processes the specimen may have: the bound on clones
  Root,   \* the first of them
  Fds,    \* descriptor numbers; a process is refused more
  Files,  \* what may be opened
  Decoys, \* those of the files that are planted, or named like one that is
  Addrs,  \* what may be connected to
  Socks   \* sockets there may be at a time

ASSUME DescriptorsAssumption ==
  /\ Root \in Tasks /\ "none" \notin Tasks
  /\ Fds \subseteq Nat /\ Decoys \subseteq Files /\ "-" \notin Files \cup Addrs

VARIABLES
  group,    \* of each task, the one whose descriptors it shares, or "none"
  table,    \* the descriptors of each group: what a number stands for
  sock,     \* the sockets: [st, peer]
  call,     \* the call a task is in, from its entry to its exit
  fd_paths, \* of a task and a number, the path of a file, or "-"
  flows,    \* of a task and a number, the address connected to, or "-"
  asked,    \* decoys for which the end of the run has been asked
  solo,     \* tasks that share, and whose forebears shared, no table
  silent,   \* numbers of a group changed by a call the tracer does not follow, and not
            \* opened or closed since
  known,    \* [fd, socket] that a task has connected, or its forebears for it
  again     \* sockets connected once more, or whose connect was interrupted

kernel == <<group, table, sock>>
tracer == <<fd_paths, flows, asked>>
ghost  == <<solo, silent, known, again>>
vars   == <<kernel, call, tracer, ghost>>

Closed == [is |-> "closed", of |-> "-"]
Other  == [is |-> "other", of |-> "-"]   \* a pipe, an accepted socket
File(f) == [is |-> "file", of |-> f]
Sock(k) == [is |-> "socket", of |-> k]
Descs  == {Closed, Other} \cup {File(f) : f \in Files} \cup {Sock(k) : k \in Socks}
Free   == [st |-> "free", peer |-> "-"]
Idle   == [name |-> "none", fd |-> -1, of |-> "-", ret |-> "-"]

TypeOK ==
  /\ group \in [Tasks -> Tasks \cup {"none"}]
  /\ table \in [Tasks -> [Fds -> Descs]]
  /\ sock \in [Socks -> [st : {"free", "new", "pending", "on", "failed"}, peer : Addrs \cup {"-"}]]
  /\ call \in [Tasks -> [name : {"none", "open", "close", "connect", "getsockopt", "write", "move"},
                         fd : Fds \cup {-1}, of : Files \cup Addrs \cup {"-"},
                         ret : {"-", "ok", "pending", "failed"}]]
  /\ fd_paths \in [Tasks -> [Fds -> Files \cup {"-"}]]
  /\ flows \in [Tasks -> [Fds -> Addrs \cup {"-"}]]
  /\ asked \subseteq Decoys
  /\ solo \subseteq Tasks /\ again \subseteq Socks
  /\ silent \in [Tasks -> SUBSET Fds] /\ known \in [Tasks -> SUBSET (Fds \X Socks)]

Init ==
  /\ group = [t \in Tasks |-> IF t = Root THEN Root ELSE "none"]
  /\ table = [t \in Tasks |-> [fd \in Fds |-> Closed]]
  /\ sock = [k \in Socks |-> Free]
  /\ call = [t \in Tasks |-> Idle]
  /\ fd_paths = [t \in Tasks |-> [fd \in Fds |-> "-"]]
  /\ flows = [t \in Tasks |-> [fd \in Fds |-> "-"]]
  /\ asked = {}
  /\ solo = {Root} /\ silent = [t \in Tasks |-> {}]
  /\ known = [t \in Tasks |-> {}] /\ again = {}

-----------------------------------------------------------------------------
(* The kernel.                                                             *)

Runs(t) == group[t] # "none" /\ call[t] = Idle
At(t, fd) == table[group[t]][fd]
Lowest(t) == Min({fd \in Fds : At(t, fd) = Closed})

\* A socket is gone with the last number that stands for it.
Set(t, fd, d) ==
  /\ table' = [table EXCEPT ![group[t]][fd] = d]
  /\ sock' = [k \in Socks |->
       IF \E u \in Tasks, n \in Fds : table'[u][n] = Sock(k)
       THEN IF sock[k] = Free THEN [Free EXCEPT !.st = "new"] ELSE sock[k] ELSE Free]
  /\ again' = again \cap {k \in Socks : sock'[k] # Free}
  /\ known' = [u \in Tasks |-> {p \in known[u] : sock'[p[2]] # Free}]

Makes(t, d) ==
  /\ \E fd \in Fds : At(t, fd) = Closed
  /\ Set(t, Lowest(t), d)

In(t, name, fd, of, ret) == call' = [call EXCEPT ![t] = [name |-> name, fd |-> fd, of |-> of, ret |-> ret]]

Open(t) ==
  /\ Runs(t)
  /\ \E f \in Files : Makes(t, File(f)) /\ In(t, "open", Lowest(t), f, "ok")
  /\ silent' = [silent EXCEPT ![group[t]] = @ \ {Lowest(t)}]
  /\ UNCHANGED <<group, tracer, solo>>

\* socket, pipe, accept: no handler touches the tables.
Create(t) ==
  /\ Runs(t)
  /\ \E d \in {Other} \cup {Sock(k) : k \in {k \in Socks : sock[k] = Free}} : Makes(t, d)
  /\ UNCHANGED <<group, call, tracer, solo, silent>>

Close(t) ==
  /\ Runs(t)
  /\ \E fd \in Fds :
       /\ At(t, fd) # Closed
       /\ Set(t, fd, Closed) /\ In(t, "close", fd, "-", "ok")
       /\ silent' = [silent EXCEPT ![group[t]] = @ \ {fd}]
  /\ UNCHANGED <<group, tracer, solo>>

Present == {table[u][n] : u \in Tasks, n \in Fds}

\* dup2, fcntl, close_range, an exec of what is close-on-exec; a message with a
\* descriptor of another process.
Silently(t) ==
  /\ Runs(t)
  /\ \E fd \in Fds, d \in Present \cup {Closed} :
       Set(t, fd, d) /\ silent' = [silent EXCEPT ![group[t]] = @ \cup {fd}]
  /\ UNCHANGED <<group, call, tracer, solo>>

\* A connection under way comes about or fails; one that is there breaks.
Turns(k) ==
  /\ sock[k].st \in {"pending", "on"}
  /\ \E st \in {"on", "failed"} \ {sock[k].st} : sock' = [sock EXCEPT ![k].st = st]
  /\ UNCHANGED <<group, table, call, tracer, ghost>>

\* What the kernel makes of a connect to a: the socket, what it returns, and
\* whether the address of the connection is not what the call has named, or the
\* call fails and the connection does not.
Outcomes(s, a) ==
  LET to(st, ret, odd) == [to |-> [st |-> st, peer |-> IF st = "new" THEN "-" ELSE a],
                           ret |-> ret, odd |-> odd]
      as_is(ret, odd) == [to |-> s, ret |-> ret, odd |-> odd] IN
  CASE s.st = "new"     -> {to("on", "ok", FALSE), to("pending", "pending", FALSE),
                            to("new", "failed", FALSE), to("pending", "failed", TRUE)}
    [] s.st = "pending" -> {as_is("pending", s.peer # a)}
    [] s.st = "on"      -> {as_is("failed", TRUE)}
    [] s.st = "failed"  -> {to("new", "failed", FALSE)}

ConnectRuns(t) ==
  /\ call[t].name = "connect" /\ call[t].ret = "-"
  /\ LET d == At(t, call[t].fd) IN
     IF d.is # "socket" THEN call' = [call EXCEPT ![t].ret = "failed"] /\ UNCHANGED <<sock, known, again>>
     ELSE \E o \in Outcomes(sock[d.of], call[t].of) :
            /\ call' = [call EXCEPT ![t].ret = o.ret]
            /\ sock' = [sock EXCEPT ![d.of] = o.to]
            /\ again' = IF o.odd THEN again \cup {d.of}
                        ELSE IF sock[d.of].st = "new" THEN again \ {d.of} ELSE again
            /\ known' = IF sock[d.of].st # "new" THEN known
                        ELSE [u \in Tasks |-> {p \in known[u] : p[2] # d.of}
                                                 \cup IF u = t THEN {<<call[t].fd, d.of>>} ELSE {}]
  /\ UNCHANGED <<group, table, tracer, solo, silent>>

\* SO_ERROR: read once, and the socket may be connected again.
AskError(t) ==
  /\ Runs(t)
  /\ \E fd \in Fds :
       /\ At(t, fd).is = "socket"
       /\ LET k == At(t, fd).of IN
          IF sock[k].st = "failed"
          THEN sock' = [sock EXCEPT ![k] = [Free EXCEPT !.st = "new"]] /\ In(t, "getsockopt", fd, "-", "failed")
          ELSE UNCHANGED sock /\ In(t, "getsockopt", fd, "-", "ok")
  /\ UNCHANGED <<group, table, tracer, ghost>>

\* write and pwrite64, or any of the other calls that move data.
Transfer(t) ==
  /\ Runs(t)
  /\ \E fd \in Fds, name \in {"write", "move"} :
       At(t, fd) # Closed /\ In(t, name, fd, "-", "ok")
  /\ UNCHANGED <<kernel, tracer, ghost>>

-----------------------------------------------------------------------------
(* The tracer.                                                             *)

\* _handle_net_egress, of a connect that goes on: the flow is there before the
\* connection.
Connect(t) ==
  /\ Runs(t)
  /\ \E fd \in Fds, a \in Addrs :
       /\ At(t, fd) # Closed
       /\ In(t, "connect", fd, a, "-")
       /\ flows' = [flows EXCEPT ![t][fd] = a]
  /\ UNCHANGED <<kernel, fd_paths, asked, ghost>>

\* An address that is no INET one, or cannot be read, is not followed: the number keeps
\* the flow it has, though with AF_UNSPEC the connection has ended.
ConnectUnfollowed(t) ==
  /\ Runs(t)
  /\ \E fd \in Fds : /\ At(t, fd).is = "socket"
                     /\ sock' = [sock EXCEPT ![At(t, fd).of] = [Free EXCEPT !.st = "new"]]
  /\ UNCHANGED <<group, table, call, tracer, ghost>>

Exits(t, name) == call[t].name = name /\ call[t].ret # "-" /\ call' = [call EXCEPT ![t] = Idle]
untraced == <<kernel, ghost>>

\* Mutant: only a connection that is there at once is kept.
ConnectResultNow(t) ==
  /\ Exits(t, "connect")
  /\ flows' = IF call[t].ret # "ok" THEN [flows EXCEPT ![t][call[t].fd] = "-"] ELSE flows
  /\ UNCHANGED <<fd_paths, asked, untraced>>

\* _handle_connect_result: EINPROGRESS and EALREADY keep the flow.
ConnectResult(t) ==
  /\ Exits(t, "connect")
  /\ flows' = IF call[t].ret = "failed" THEN [flows EXCEPT ![t][call[t].fd] = "-"] ELSE flows
  /\ UNCHANGED <<fd_paths, asked, untraced>>

\* _handle_getsockopt_result
SocketError(t) ==
  /\ Exits(t, "getsockopt")
  /\ flows' = IF call[t].ret = "failed" THEN [flows EXCEPT ![t][call[t].fd] = "-"] ELSE flows
  /\ UNCHANGED <<fd_paths, asked, untraced>>

\* _handle_open
Opened(t) ==
  /\ Exits(t, "open")
  /\ fd_paths' = [fd_paths EXCEPT ![t][call[t].fd] = call[t].of]
  /\ UNCHANGED <<flows, asked, untraced>>

\* Mutant: the path outlives its descriptor.
ClosedKeepsPath(t) ==
  /\ Exits(t, "close")
  /\ UNCHANGED <<tracer, untraced>>

\* The path goes, the flow does not.
ClosedPath(t) ==
  /\ Exits(t, "close")
  /\ fd_paths' = [fd_paths EXCEPT ![t][call[t].fd] = "-"]
  /\ UNCHANGED <<flows, asked, untraced>>

IsFile(t) == flows[t][call[t].fd] = "-" /\ fd_paths[t][call[t].fd] # "-"

\* _handle_write
Written(t) ==
  /\ Exits(t, "write") /\ IsFile(t)
  /\ asked' = asked \cup ({fd_paths[t][call[t].fd]} \cap Decoys)
  /\ UNCHANGED <<fd_paths, flows, untraced>>

\* What a flow carries is captured (_capture_socket_buffer and its kin); the rest,
\* other calls than write on a file among it, is not tracked.
Passed(t) ==
  /\ Exits(t, "move") \/ (Exits(t, "write") /\ ~IsFile(t))
  /\ UNCHANGED <<tracer, untraced>>

\* Mutant: a new task begins with an empty table of paths.
InheritFlows(parent, child) ==
  /\ flows' = [flows EXCEPT ![child] = [fd \in Fds |-> flows[parent][fd]]]
  /\ UNCHANGED fd_paths

\* _inherit_process_state
Inherit(parent, child) ==
  /\ fd_paths' = [fd_paths EXCEPT ![child] = [fd \in Fds |-> fd_paths[parent][fd]]]
  /\ flows' = [flows EXCEPT ![child] = [fd \in Fds |-> flows[parent][fd]]]

\* A task is made, with a copy of the table or with the table itself, and the
\* tracer handles the event while both are stopped.
Clone(t, u) ==
  /\ Runs(t) /\ group[u] = "none"
  /\ \E shares \in BOOLEAN :
       /\ group' = [group EXCEPT ![u] = IF shares THEN group[t] ELSE u]
       /\ table' = IF shares THEN table ELSE [table EXCEPT ![u] = table[group[t]]]
       /\ silent' = IF shares THEN silent ELSE [silent EXCEPT ![u] = silent[group[t]]]
       /\ solo' = IF shares THEN {v \in solo : group[v] # group[t]}
                  ELSE IF t \in solo THEN solo \cup {u} ELSE solo
  /\ known' = [known EXCEPT ![u] = known[t]]
  /\ Inherit(t, u)
  /\ UNCHANGED <<sock, call, asked, again>>

-----------------------------------------------------------------------------
Kernel(t) == Open(t) \/ Create(t) \/ Close(t) \/ Silently(t) \/ ConnectRuns(t) \/ AskError(t) \/ Transfer(t)
Handle(t) ==
  \/ Connect(t) \/ ConnectUnfollowed(t) \/ ConnectResult(t) \/ SocketError(t) \/ Opened(t) \/ ClosedPath(t)
  \/ Written(t) \/ Passed(t)

\* Bound: nothing is claimed of a program all of whose tasks share their table.
Next ==
  /\ solo # {}
  /\ \/ \E t \in Tasks : Kernel(t) \/ Handle(t)
     \/ \E t, u \in Tasks : Clone(t, u)
     \/ \E k \in Socks : Turns(k)

Spec == Init /\ [][Next]_vars

\* A number whose last change was one that the tracer follows
Followed(t, fd) == t \in solo /\ call[t] = Idle /\ fd \notin silent[group[t]]

\* In a process without threads, across forks, reuse of numbers and calls under
\* way, the tracer holds a number for a file exactly when it stands for that file
\* (_handle_open, close, _inherit_process_state).
PathsFollow ==
  \A t \in Tasks, fd \in Fds : Followed(t, fd) =>
    fd_paths[t][fd] = IF At(t, fd).is = "file" THEN At(t, fd).of ELSE "-"

\* So long as a socket that the process or a forebear of it has connected is
\* connected, or about to be, what it carries can be attributed to its peer
\* (_handle_connect_result: "keep that flow so later send/recv calls can still be
\* attributed"); not where connect was called once more, or interrupted.
FlowsFollow ==
  \A t \in Tasks, fd \in Fds : Followed(t, fd) /\ At(t, fd).is = "socket" =>
    LET k == At(t, fd).of IN
    <<fd, k>> \in known[t] /\ k \notin again /\ sock[k].st \in {"pending", "on"} => flows[t][fd] = sock[k].peer

\* A write to a planted file asks for the end of the run, and nothing else does:
\* not a write to what has taken over its number, in this process or after a fork.
\* But a number that has carried a connection is taken for it ever after.
DecoyWrites ==
  [][\A t \in Tasks :
       LET fd == call[t].fd IN
       call[t].name = "write" /\ call'[t] = Idle /\ t \in solo /\ fd \notin silent[group[t]] =>
         LET d == At(t, fd) IN
         /\ asked' \subseteq asked \cup {d.of}
         /\ d.is = "file" /\ d.of \in Decoys /\ flows[t][fd] = "-" => d.of \in asked']_vars
=============================================================================
