------------------------- MODULE Descriptors_proofs -------------------------
(***************************************************************************)
(* The inductive invariant of Descriptors, for any number of tasks,        *)
(* numbers, files, addresses and sockets, and what can be relied on in     *)
(* what the tracer reports of files and peers.                             *)
(***************************************************************************)
EXTENDS Descriptors_inv, WellFoundedInduction, TLAPS

SockRec == [st : {"free", "new", "pending", "on", "failed"}, peer : Addrs \cup {"-"}]
CallRec == [name : {"none", "open", "close", "connect", "getsockopt", "write", "move"},
            fd : Fds \cup {-1}, of : Files \cup Addrs \cup {"-"}, ret : {"-", "ok", "pending", "failed"}]

\* A table that is not full has a lowest free number.
LEMMA LowestFree ==
  ASSUME TypeOK, NEW t \in Tasks, \E fd \in Fds : At(t, fd) = Closed
  PROVE  Lowest(t) \in Fds /\ At(t, Lowest(t)) = Closed
<1> DEFINE S == {fd \in Fds : At(t, fd) = Closed}
<1>1. S \subseteq Nat /\ S # {}
  BY DescriptorsAssumption
<1>2. OpToRel(<, Nat) = {p \in Nat \X Nat : p[1] < p[2]}
  BY DEF OpToRel
<1>3. PICK m \in S : \A n \in S : ~ (<<n, m>> \in OpToRel(<, Nat))
  BY <1>1, NatLessThanWellFounded, WFMin
<1>4. ASSUME NEW n \in S PROVE m <= n
  <2>1. ~ (<<n, m>> \in {p \in Nat \X Nat : p[1] < p[2]})
    BY <1>2, <1>3
  <2>2. m \in Nat /\ n \in Nat
    BY <1>1
  <2> HIDE DEF S
  <2> QED
    BY <2>1, <2>2
<1> QED
  BY <1>4 DEF Lowest, Min

\* What a number stands for
LEMMA DescCases ==
  ASSUME NEW d \in Descs
  PROVE  /\ d.is = "file" => d.of \in Files /\ d = File(d.of)
         /\ d.is = "socket" => d.of \in Socks /\ d = Sock(d.of)
         /\ d.is \notin {"file", "socket"} => \A k \in Socks : d # Sock(k)
  BY DEF Descs, Closed, Other, File, Sock

\* What the kernel makes of a connect, by the state of the socket
LEMMA OutcomeCases ==
  ASSUME NEW s \in SockRec, s.st # "free", NEW a \in Addrs, NEW o \in Outcomes(s, a),
         s.st = "new" => s.peer = "-"
  PROVE  /\ o.ret \in {"ok", "pending", "failed"} /\ o.to \in SockRec /\ o.to.st # "free"
         /\ o.to.st = "new" => o.to.peer = "-"
         /\ s.st = "new" =>
              /\ o.to.st \in {"on", "pending"} => o.to.peer = a
              /\ o.ret = "failed" /\ ~o.odd => o.to.st = "new"
         /\ s.st \in {"pending", "on"} =>
              /\ o.to = s
              /\ ~o.odd => s.peer = a /\ o.ret = "pending"
         /\ s.st = "failed" => o.to.st = "new"
<1>1. CASE s.st = "new"
  BY <1>1 DEF Outcomes, SockRec
<1>2. CASE s.st = "pending"
  <2>1. o = [to |-> s, ret |-> "pending", odd |-> s.peer # a]
    BY <1>2 DEF Outcomes
  <2>2. o.odd <=> s.peer # a
    BY <2>1
  <2> QED
    BY <1>2, <2>1, <2>2
<1>3. CASE s.st = "on"
  BY <1>3 DEF Outcomes, SockRec
<1>4. CASE s.st = "failed"
  BY <1>4 DEF Outcomes, SockRec
<1> QED
  BY <1>1, <1>2, <1>3, <1>4 DEF SockRec

-----------------------------------------------------------------------------
(* A change of a table.                                                    *)

\* A socket that still has a number stays as it is; what is known of one that
\* has none is forgotten.
LEMMA SetEffect ==
  ASSUME TypeOK, Sockets, NEW t \in Tasks, group[t] # "none", NEW fd \in Fds, NEW d \in Descs,
         Set(t, fd, d)
  PROVE  /\ table' \in [Tasks -> [Fds -> Descs]]
         /\ table' = [table EXCEPT ![group[t]] = [table[group[t]] EXCEPT ![fd] = d]]
         /\ sock' \in [Socks -> SockRec] /\ again' \subseteq Socks
         /\ known' \in [Tasks -> SUBSET (Fds \X Socks)]
         /\ Sockets'
         /\ \A u \in Tasks, n \in Fds, k \in Socks :
              table'[u][n] = Sock(k) /\ sock[k].st # "free" => sock'[k] = sock[k]
         /\ \A u \in Tasks, n \in Fds, k \in Socks :
              <<n, k>> \in known'[u] => <<n, k>> \in known[u] /\ sock[k].st # "free"
         /\ \A k \in Socks : k \in again /\ sock'[k].st # "free" => k \in again'
<1> USE DEF TypeOK, SockRec
<1>0. group[t] \in Tasks
  OBVIOUS
<1>1. /\ table' = [table EXCEPT ![group[t]] = [table[group[t]] EXCEPT ![fd] = d]]
      /\ table' \in [Tasks -> [Fds -> Descs]]
  BY <1>0 DEF Set
<1>2. \A k \in Socks : sock'[k] =
        IF \E u \in Tasks, n \in Fds : table'[u][n] = Sock(k)
        THEN IF sock[k] = Free THEN [st |-> "new", peer |-> "-"] ELSE sock[k] ELSE Free
  BY DEF Set, Free
<1>3. sock' \in [Socks -> SockRec]
  <2>1. sock' = [k \in Socks |-> sock'[k]]
    BY DEF Set
  <2>2. \A k \in Socks : sock'[k] \in SockRec
    BY <1>2 DEF Free
  <2> QED
    BY <2>1, <2>2
<1>4. \A k \in Socks : sock[k].st = "free" <=> sock[k] = Free
  BY DEF Sockets, Free
<1>5. /\ known' = [u \in Tasks |-> {p \in known[u] : sock'[p[2]] # Free}]
      /\ again' = again \cap {k \in Socks : sock'[k] # Free}
  BY DEF Set
<1>6. known' \in [Tasks -> SUBSET (Fds \X Socks)] /\ again' \subseteq Socks
  BY <1>5
<1>7. \A k \in Socks : sock'[k].st = "free" <=> sock'[k] = Free
  BY <1>2, <1>4 DEF Free
<1>8. \A u \in Tasks, n \in Fds, k \in Socks :
        <<n, k>> \in known'[u] <=> <<n, k>> \in known[u] /\ sock'[k] # Free
  BY <1>5
<1>9. Sockets'
  <2>1. \A k \in Socks : sock'[k].st \in {"free", "new"} => sock'[k].peer = "-"
    BY <1>2 DEF Sockets, Free
  <2>2. \A u \in Tasks, n \in Fds, k \in Socks : table'[u][n] = Sock(k) => sock'[k].st # "free"
    BY <1>2, <1>4 DEF Free
  <2>3. \A u \in Tasks, n \in Fds, k \in Socks : <<n, k>> \in known'[u] => sock'[k].st # "free"
    BY <1>7, <1>8
  <2> QED
    BY <2>1, <2>2, <2>3 DEF Sockets
<1>10. \A u \in Tasks, n \in Fds, k \in Socks :
         table'[u][n] = Sock(k) /\ sock[k].st # "free" => sock'[k] = sock[k]
  BY <1>2, <1>4
<1>11. \A u \in Tasks, n \in Fds, k \in Socks :
         <<n, k>> \in known'[u] => <<n, k>> \in known[u] /\ sock[k].st # "free"
  BY <1>8 DEF Sockets
<1>12. \A k \in Socks : k \in again /\ sock'[k].st # "free" => k \in again'
  BY <1>5, <1>7
<1> QED
  BY <1>1, <1>3, <1>6, <1>9, <1>10, <1>11, <1>12

\* What a task may put into its table, and which number it takes
LEMMA TableStep ==
  ASSUME TypeOK, NEW t \in Tasks, Open(t) \/ Create(t) \/ Close(t) \/ Silently(t)
  PROVE  /\ group[t] \in Tasks /\ call[t] = Idle /\ UNCHANGED <<group, tracer, solo>>
         /\ \E fd \in Fds, d \in Descs :
              /\ Set(t, fd, d)
              /\ \/ /\ Open(t) /\ d.is = "file" /\ d = File(d.of) /\ d.of \in Files
                    /\ In(t, "open", fd, d.of, "ok")
                    /\ silent' = [silent EXCEPT ![group[t]] = @ \ {fd}]
                 \/ /\ Create(t) /\ At(t, fd) = Closed /\ UNCHANGED <<call, silent>>
                    /\ d = Other \/ \E k \in Socks : d = Sock(k) /\ sock[k] = Free
                 \/ /\ Close(t) /\ d = Closed
                    /\ In(t, "close", fd, "-", "ok")
                    /\ silent' = [silent EXCEPT ![group[t]] = @ \ {fd}]
                 \/ /\ Silently(t) /\ UNCHANGED call
                    /\ silent' = [silent EXCEPT ![group[t]] = @ \cup {fd}]
<1>0. group[t] \in Tasks /\ call[t] = Idle /\ UNCHANGED <<group, tracer, solo>>
  BY DEF TypeOK, Open, Create, Close, Silently, Runs
<1>1. CASE Open(t)
  <2>1. PICK f \in Files : Makes(t, File(f)) /\ In(t, "open", Lowest(t), f, "ok")
    BY <1>1 DEF Open
  <2>2. Lowest(t) \in Fds /\ Set(t, Lowest(t), File(f)) /\ File(f) \in Descs
    BY <2>1, LowestFree DEF Makes, Descs
  <2>3. File(f).is = "file" /\ File(f).of = f
    BY DEF File
  <2> QED
    BY <1>0, <1>1, <2>1, <2>2, <2>3 DEF Open
<1>2. CASE Create(t)
  <2>1. PICK d \in {Other} \cup {Sock(k) : k \in {k \in Socks : sock[k] = Free}} : Makes(t, d)
    BY <1>2 DEF Create
  <2>2. Lowest(t) \in Fds /\ Set(t, Lowest(t), d) /\ At(t, Lowest(t)) = Closed /\ d \in Descs
    BY <2>1, LowestFree DEF Makes, Descs
  <2> QED
    BY <1>0, <1>2, <2>1, <2>2 DEF Create
<1>3. CASE Close(t)
  BY <1>0, <1>3 DEF Close, Descs
<1>4. CASE Silently(t)
  <2>1. PICK fd \in Fds, d \in Present \cup {Closed} :
          Set(t, fd, d) /\ silent' = [silent EXCEPT ![group[t]] = @ \cup {fd}]
    BY <1>4 DEF Silently
  <2>2. d \in Descs
    <3>1. CASE d \in Present
      <4>1. PICK u \in Tasks, n \in Fds : d = table[u][n]
        BY <3>1 DEF Present
      <4> QED
        BY <4>1 DEF TypeOK
    <3> QED
      BY <3>1 DEF Descs
  <2>3. UNCHANGED call
    BY <1>4 DEF Silently
  <2> QED
    BY <1>0, <1>4, <2>1, <2>2, <2>3
<1> QED
  BY <1>1, <1>2, <1>3, <1>4

-----------------------------------------------------------------------------
(* What a step leaves of the stages of the tasks.                          *)

\* A socket that is connected afterwards has been, to the same peer.
Keeps(k) ==
  /\ sock'[k].st \in {"pending", "on"} => sock[k].st \in {"pending", "on"} /\ sock'[k].peer = sock[k].peer
  /\ sock[k].st = "new" => sock'[k].st = "new"

\* The stages of a task last when a step leaves its table and its call alone, and
\* keeps the sockets that it has connected.
LEMMA Bystander ==
  ASSUME IInv, NEW v \in solo,
         table'[v] = table[v], call'[v] = call[v], silent'[v] = silent[v],
         fd_paths'[v] = fd_paths[v], flows'[v] = flows[v],
         \A fd \in Fds, k \in Socks :
           table[v][fd] = Sock(k) /\ <<fd, k>> \in known'[v] /\ k \notin again' =>
             <<fd, k>> \in known[v] /\ k \notin again /\ Keeps(k)
  PROVE  PathStage(v)' /\ FlowStage(v)'
<1>1. PathStage(v)'
  BY DEF IInv, PathStage, Renames
<1>2. FlowStage(v)'
  BY DEF IInv, FlowStage, Connected, Enters, Drops, Keeps
<1> QED
  BY <1>1, <1>2

\* Only the members of a group change its table.
LEMMA Alone ==
  ASSUME TypeOK, Groups, NEW t \in Tasks, NEW v \in solo, v # t
  PROVE  v \in Tasks /\ group[v] = v /\ group[t] # v
  BY DEF TypeOK, Groups

-----------------------------------------------------------------------------
LEMMA IInvInit == Init => IInv
<1> SUFFICES ASSUME Init PROVE IInv
  OBVIOUS
<1> USE DescriptorsAssumption DEF Init
<1>1. TypeOK
  BY DEF TypeOK, Descs, Idle, Free
<1>2. Groups
  BY DEF Groups
<1>3. Sockets
  BY DEF Sockets, Free, Closed, Sock
<1>4. ASSUME NEW t \in Tasks PROVE CallStage(t) /\ PathStage(t) /\ FlowStage(t)
  BY DEF CallStage, Idle, PathStage, Renames, PathOf, Closed, FlowStage, Connected
<1> QED
  BY <1>1, <1>2, <1>3, <1>4 DEF IInv, TypeOK

\* A call that changes the table: followed or not, of a task that is alone or not.
LEMMA TableStepKeeps ==
  ASSUME IInv, NEW t \in Tasks, Open(t) \/ Create(t) \/ Close(t) \/ Silently(t)
  PROVE  IInv'
<1> USE DEF IInv
<1>1. PICK fd \in Fds, d \in Descs :
        /\ Set(t, fd, d)
        /\ \/ /\ Open(t) /\ d.is = "file" /\ d = File(d.of) /\ d.of \in Files
              /\ In(t, "open", fd, d.of, "ok")
              /\ silent' = [silent EXCEPT ![group[t]] = @ \ {fd}]
           \/ /\ Create(t) /\ At(t, fd) = Closed /\ UNCHANGED <<call, silent>>
              /\ d = Other \/ \E k \in Socks : d = Sock(k) /\ sock[k] = Free
           \/ /\ Close(t) /\ d = Closed
              /\ In(t, "close", fd, "-", "ok")
              /\ silent' = [silent EXCEPT ![group[t]] = @ \ {fd}]
           \/ /\ Silently(t) /\ UNCHANGED call
              /\ silent' = [silent EXCEPT ![group[t]] = @ \cup {fd}]
  BY TableStep
<1>2. group[t] \in Tasks /\ call[t] = Idle /\ UNCHANGED <<group, fd_paths, flows, asked, solo>>
  BY TableStep DEF tracer
<1>3. /\ table' \in [Tasks -> [Fds -> Descs]]
      /\ table' = [table EXCEPT ![group[t]] = [table[group[t]] EXCEPT ![fd] = d]]
      /\ sock' \in [Socks -> SockRec] /\ again' \subseteq Socks
      /\ known' \in [Tasks -> SUBSET (Fds \X Socks)]
      /\ Sockets'
  BY <1>1, <1>2, SetEffect, DescriptorsAssumption
<1>4. /\ \A u \in Tasks, n \in Fds, k \in Socks :
           table'[u][n] = Sock(k) /\ sock[k].st # "free" => sock'[k] = sock[k]
      /\ \A u \in Tasks, n \in Fds, k \in Socks :
           <<n, k>> \in known'[u] => <<n, k>> \in known[u] /\ sock[k].st # "free"
      /\ \A k \in Socks : k \in again /\ sock'[k].st # "free" => k \in again'
  BY <1>1, <1>2, SetEffect, DescriptorsAssumption
<1>5. \A u \in Tasks, n \in Fds, k \in Socks :
        table'[u][n] = Sock(k) /\ <<n, k>> \in known'[u] /\ k \notin again' =>
          <<n, k>> \in known[u] /\ k \notin again /\ sock'[k] = sock[k]
  BY <1>3, <1>4 DEF Sockets
<1>6. /\ call' \in [Tasks -> CallRec] /\ silent' \in [Tasks -> SUBSET Fds]
      /\ \A u \in Tasks \ {t} : call'[u] = call[u]
      /\ \A u \in Tasks \ {group[t]} : silent'[u] = silent[u]
  <2>1. call \in [Tasks -> CallRec] /\ silent \in [Tasks -> SUBSET Fds]
    BY DEF TypeOK, CallRec
  <2>2. \/ UNCHANGED call
        \/ In(t, "open", fd, d.of, "ok") /\ d.of \in Files
        \/ In(t, "close", fd, "-", "ok")
    BY <1>1
  <2>3. call' \in [Tasks -> CallRec] /\ \A u \in Tasks \ {t} : call'[u] = call[u]
    BY <2>1, <2>2 DEF In, CallRec
  <2>4. \/ UNCHANGED silent
        \/ silent' = [silent EXCEPT ![group[t]] = @ \ {fd}]
        \/ silent' = [silent EXCEPT ![group[t]] = @ \cup {fd}]
    BY <1>1
  <2>5. silent' \in [Tasks -> SUBSET Fds] /\ \A u \in Tasks \ {group[t]} : silent'[u] = silent[u]
    BY <1>2, <2>1, <2>4
  <2> QED
    BY <2>3, <2>5
<1>7. TypeOK'
  BY <1>2, <1>3, <1>6 DEF TypeOK, SockRec, CallRec
<1>8. Groups'
  BY <1>1, <1>2, <1>6 DEF Groups, Open, Create, Close, Silently, Runs
<1>9. ASSUME NEW u \in Tasks PROVE CallStage(u)'
  <2>1. CASE u # t
    BY <1>2, <1>6, <2>1 DEF CallStage
  <2>2. CASE u = t
    BY <1>1, <1>2, <2>2 DEF CallStage, In, Idle, TypeOK
  <2> QED
    BY <2>1, <2>2
<1>10. ASSUME NEW v \in solo PROVE PathStage(v)' /\ FlowStage(v)'
  <2>1. CASE v # t
    <3>1. v \in Tasks /\ group[t] # v
      BY <2>1, Alone
    <3>2. table'[v] = table[v] /\ call'[v] = call[v] /\ silent'[v] = silent[v]
      BY <1>2, <1>3, <1>6, <2>1, <3>1 DEF TypeOK
    <3> QED
      BY <1>2, <1>5, <3>1, <3>2, Bystander DEF Keeps
  <2>2. CASE v = t
    <3>1. group[t] = t
      BY <2>2 DEF Groups
    <3>2. /\ table'[t] = [table[t] EXCEPT ![fd] = d] /\ table[t] \in [Fds -> Descs]
          /\ silent[t] \subseteq Fds
      BY <1>2, <1>3, <3>1 DEF TypeOK
    <3>3. PathStage(t) /\ FlowStage(t)
      BY <2>2
    <3>4. PathStage(t)'
      <4>1. CASE Open(t) /\ d = File(d.of) /\ In(t, "open", fd, d.of, "ok")
                 /\ silent' = [silent EXCEPT ![group[t]] = @ \ {fd}]
        BY <1>2, <3>1, <3>2, <3>3, <4>1 DEF PathStage, Renames, In, Idle, TypeOK
      <4>2. CASE At(t, fd) = Closed /\ UNCHANGED <<call, silent>> /\ d.is \notin {"file", "closed"}
        BY <1>2, <3>1, <3>2, <3>3, <4>2 DEF PathStage, Renames, At, PathOf, Closed, Idle
      <4>3. CASE d = Closed /\ In(t, "close", fd, "-", "ok")
                 /\ silent' = [silent EXCEPT ![group[t]] = @ \ {fd}]
        BY <1>2, <3>1, <3>2, <3>3, <4>3 DEF PathStage, Renames, In, Idle, TypeOK
      <4>4. CASE UNCHANGED call /\ silent' = [silent EXCEPT ![group[t]] = @ \cup {fd}]
        BY <1>2, <3>1, <3>2, <3>3, <4>4 DEF PathStage, Renames, Idle, TypeOK
      <4> QED
        BY <1>1, <4>1, <4>2, <4>3, <4>4 DEF Other, Sock
    <3>5. FlowStage(t)'
      <4> SUFFICES ASSUME NEW n \in Fds, NEW k \in Socks, Connected(t, n, k)'
                   PROVE  (/\ sock[k].st \in {"pending", "on"} /\ ~Enters(t, n) => flows[t][n] = sock[k].peer
                           /\ Drops(t, n) => sock[k].st = "new")'
        BY DEF FlowStage
      <4>1. <<n, k>> \in known[t] /\ k \notin again /\ sock'[k] = sock[k] /\ sock[k].st # "free"
        BY <1>4, <1>5 DEF Connected
      <4>2. call'[t] = call[t] \/ call'[t].name \in {"open", "close"}
        BY <1>1, <1>2 DEF In, TypeOK
      <4>3. n # fd /\ n \notin silent[t] /\ table[t][n] = Sock(k)
        <5>1. n # fd
          <6>1. n \notin silent'[t] /\ table'[t][n] = Sock(k)
            BY DEF Connected
          <6>2. ASSUME n = fd PROVE FALSE
            <7>1. d = Sock(k)
              BY <3>2, <6>1, <6>2
            <7>2. d.is = "socket" /\ d.of = k
              BY <7>1 DEF Sock
            <7>3. ~(\E j \in Socks : d = Sock(j) /\ sock[j] = Free)
              <8>1. \A j \in Socks : d = Sock(j) => j = k
                BY <7>2 DEF Sock
              <8> QED
                BY <4>1, <8>1 DEF Free
            <7>4. silent' # [silent EXCEPT ![group[t]] = @ \cup {fd}]
              BY <3>1, <6>1, <6>2 DEF TypeOK
            <7> QED
              BY <1>1, <7>2, <7>3, <7>4 DEF Other, Closed
          <6> QED
            BY <6>2
        <5> QED
          BY <1>1, <3>1, <3>2, <5>1 DEF Connected, TypeOK
      <4> QED
        BY <1>2, <3>3, <4>1, <4>2, <4>3 DEF FlowStage, Connected, Enters, Drops, Idle
    <3> QED
      BY <2>2, <3>4, <3>5
  <2> QED
    BY <2>1, <2>2
<1> QED
  BY <1>2, <1>3, <1>7, <1>8, <1>9, <1>10

\* The kernel performs a connect.
LEMMA ConnectRunsKeeps ==
  ASSUME IInv, NEW t \in Tasks, ConnectRuns(t)
  PROVE  IInv'
<1> DEFINE fd == call[t].fd
           a  == call[t].of
           d  == At(t, fd)
<1> USE DEF IInv
<1>1. /\ call[t].name = "connect" /\ call[t].ret = "-" /\ call[t] # Idle
      /\ fd \in Fds /\ a \in Addrs /\ flows[t][fd] = a
      /\ group[t] \in Tasks /\ d \in Descs
      /\ UNCHANGED <<group, table, fd_paths, flows, asked, solo, silent>>
  <2>1. CallStage(t) /\ call[t].name = "connect" /\ call[t].ret = "-"
    BY DEF ConnectRuns
  <2>2. call[t] # Idle
    BY <2>1 DEF Idle
  <2>3. group[t] \in Tasks
    BY <2>2 DEF Groups, TypeOK
  <2>4. fd \in Fds /\ a \in Addrs /\ flows[t][fd] = a
    BY <2>1 DEF CallStage
  <2>5. d \in Descs
    BY <2>3, <2>4 DEF At, TypeOK
  <2>6. UNCHANGED <<group, table, fd_paths, flows, asked, solo, silent>>
    BY DEF ConnectRuns, tracer
  <2> QED
    BY <2>1, <2>2, <2>3, <2>4, <2>5, <2>6
<1>2. CASE d.is # "socket"
  <2>1. call' = [call EXCEPT ![t].ret = "failed"] /\ UNCHANGED <<sock, known, again>>
    BY <1>2 DEF ConnectRuns
  <2>2. TypeOK' /\ Groups' /\ Sockets'
    <3>1. TypeOK'
      <4>1. call' \in [Tasks -> CallRec]
        <5>1. call \in [Tasks -> CallRec]
          BY DEF TypeOK, CallRec
        <5>2. [call[t] EXCEPT !.ret = "failed"] \in CallRec
          BY <5>1 DEF CallRec
        <5> QED
          BY <2>1, <5>1, <5>2
      <4> QED
        BY <1>1, <2>1, <4>1 DEF TypeOK, CallRec
    <3>2. Groups'
      BY <1>1, <2>1 DEF Groups, TypeOK
    <3>3. Sockets'
      BY <1>1, <2>1 DEF Sockets
    <3> QED
      BY <3>1, <3>2, <3>3
  <2>3. ASSUME NEW u \in Tasks PROVE CallStage(u)'
    BY <1>1, <2>1 DEF CallStage, Idle, TypeOK
  <2>4. ASSUME NEW v \in solo PROVE PathStage(v)' /\ FlowStage(v)'
    <3>1. PathStage(v)'
      BY <1>1, <2>1 DEF PathStage, Renames, TypeOK
    <3>2. FlowStage(v)'
      <4>1. CASE v # t
        BY <1>1, <2>1, <4>1, Bystander, Alone DEF Keeps, TypeOK
      <4>2. CASE v = t
        <5>1. d = table[t][fd]
          BY <4>2 DEF Groups, At
        <5>2. \A k \in Socks : table[t][fd] # Sock(k)
          BY <1>1, <1>2, <5>1 DEF Sock
        <5> QED
          BY <1>1, <2>1, <4>2, <5>2 DEF FlowStage, Connected, Enters, Drops, TypeOK
      <4> QED
        BY <4>1, <4>2
    <3> QED
      BY <3>1, <3>2
  <2> QED
    BY <1>1, <2>2, <2>3, <2>4
<1>3. CASE d.is = "socket"
  <2>1. PICK o \in Outcomes(sock[d.of], a) :
          /\ call' = [call EXCEPT ![t].ret = o.ret]
          /\ sock' = [sock EXCEPT ![d.of] = o.to]
          /\ again' = IF o.odd THEN again \cup {d.of}
                      ELSE IF sock[d.of].st = "new" THEN again \ {d.of} ELSE again
          /\ known' = IF sock[d.of].st # "new" THEN known
                      ELSE [u \in Tasks |-> {p \in known[u] : p[2] # d.of}
                                               \cup IF u = t THEN {<<fd, d.of>>} ELSE {}]
    BY <1>3 DEF ConnectRuns
  <2> DEFINE j == d.of
  <2>2. j \in Socks /\ d = Sock(j) /\ sock[j] \in SockRec /\ sock[j].st # "free"
        /\ (sock[j].st = "new" => sock[j].peer = "-")
    BY <1>1, <1>3, DescCases DEF Sockets, TypeOK, SockRec, At
  <2>3. /\ o.ret \in {"ok", "pending", "failed"} /\ o.to \in SockRec /\ o.to.st # "free"
        /\ o.to.st = "new" => o.to.peer = "-"
        /\ sock[j].st = "new" =>
             /\ o.to.st \in {"on", "pending"} => o.to.peer = a
             /\ o.ret = "failed" /\ ~o.odd => o.to.st = "new"
        /\ sock[j].st \in {"pending", "on"} =>
             /\ o.to = sock[j]
             /\ ~o.odd => sock[j].peer = a /\ o.ret = "pending"
        /\ sock[j].st = "failed" => o.to.st = "new"
    BY <1>1, <2>2, OutcomeCases
  <2>4. /\ call' \in [Tasks -> CallRec] /\ call'[t] = [call[t] EXCEPT !.ret = o.ret]
        /\ \A u \in Tasks \ {t} : call'[u] = call[u]
    <3>1. call \in [Tasks -> CallRec]
      BY DEF TypeOK, CallRec
    <3>2. [call[t] EXCEPT !.ret = o.ret] \in CallRec
      BY <2>3, <3>1 DEF CallRec
    <3> QED
      BY <2>1, <3>1, <3>2
  <2>5. /\ sock' \in [Socks -> SockRec] /\ sock'[j] = o.to
        /\ \A k \in Socks \ {j} : sock'[k] = sock[k]
    BY <2>1, <2>2, <2>3 DEF TypeOK, SockRec
  <2> HIDE DEF fd, a, d, j
  <2>6. /\ again' \subseteq Socks /\ known' \in [Tasks -> SUBSET (Fds \X Socks)]
        /\ \A k \in Socks \ {j} : k \in again' <=> k \in again
        /\ \A u \in Tasks, n \in Fds, k \in Socks \ {j} : <<n, k>> \in known'[u] <=> <<n, k>> \in known[u]
        /\ sock[j].st # "new" => UNCHANGED known /\ (j \notin again' => j \notin again /\ ~o.odd)
        /\ sock[j].st = "new" => \A u \in Tasks, n \in Fds : <<n, j>> \in known'[u] => u = t /\ n = fd
        /\ j \notin again' => ~o.odd
    BY <1>1, <2>1, <2>2 DEF TypeOK, j
  <2>7. TypeOK'
    BY <1>1, <2>4, <2>5, <2>6 DEF TypeOK, SockRec, CallRec
  <2>8. Groups'
    BY <1>1, <2>4 DEF Groups
  <2>9. Sockets'
    <3>1. \A k \in Socks : sock'[k].st \in {"free", "new"} => sock'[k].peer = "-"
      BY <2>2, <2>3, <2>5 DEF Sockets
    <3>2. \A k \in Socks : sock'[k].st = "free" => sock[k].st = "free" /\ k # j
      BY <2>3, <2>5
    <3>3. \A u \in Tasks, n \in Fds, k \in Socks : <<n, k>> \in known'[u] => sock'[k].st # "free"
      BY <2>6, <3>2 DEF Sockets
    <3> QED
      BY <1>1, <3>1, <3>2, <3>3 DEF Sockets
  <2>10. ASSUME NEW u \in Tasks PROVE CallStage(u)'
    <3>1. CASE u = t
      <4>1. call'[t].name = "connect" /\ call'[t].fd = fd /\ call'[t].of = a /\ call'[t] # Idle
        BY <1>1, <2>4 DEF Idle, TypeOK, fd, a
      <4> QED
        BY <1>1, <3>1, <4>1 DEF CallStage
    <3>2. CASE u # t
      BY <1>1, <2>4, <3>2 DEF CallStage
    <3> QED
      BY <3>1, <3>2
  <2>11. ASSUME NEW v \in solo PROVE PathStage(v)' /\ FlowStage(v)'
    <3>0. v \in Tasks
      BY DEF TypeOK
    <3>1. CASE v # t
      <4>1. ASSUME NEW n \in Fds, NEW k \in Socks,
                   table[v][n] = Sock(k), <<n, k>> \in known'[v], k \notin again'
            PROVE  <<n, k>> \in known[v] /\ k \notin again /\ Keeps(k)
        <5>1. CASE k # j
          BY <2>5, <2>6, <3>0, <4>1, <5>1 DEF Keeps
        <5>2. CASE k = j
          BY <2>2, <2>3, <2>5, <2>6, <3>0, <3>1, <4>1, <5>2 DEF Keeps, SockRec
        <5> QED
          BY <5>1, <5>2
      <4> QED
        BY <1>1, <2>4, <3>0, <3>1, <4>1, Bystander
    <3>2. CASE v = t
      <4>1. PathStage(t)'
        BY <1>1, <2>4, <3>2 DEF PathStage, Renames, TypeOK, fd
      <4>2. FlowStage(t)'
        <5> SUFFICES ASSUME NEW n \in Fds, NEW k \in Socks, Connected(t, n, k)'
                     PROVE  (/\ sock[k].st \in {"pending", "on"} /\ ~Enters(t, n) => flows[t][n] = sock[k].peer
                             /\ Drops(t, n) => sock[k].st = "new")'
          BY DEF FlowStage
        <5>1. FlowStage(t) /\ d = table[t][fd]
          BY <3>2 DEF Groups, At, d
        <5>2. /\ n \notin silent[t] /\ table[t][n] = Sock(k) /\ <<n, k>> \in known'[t]
              /\ k \notin again'
          BY <1>1 DEF Connected
        <5>3. CASE k # j
          <6>1. <<n, k>> \in known[t] /\ k \notin again /\ n # fd
            BY <2>2, <2>6, <5>1, <5>2, <5>3 DEF Sock
          <6> QED
            BY <1>1, <2>4, <2>5, <5>1, <5>2, <5>3, <6>1 DEF FlowStage, Connected, Enters, Drops, fd, TypeOK
        <5>4. CASE k = j /\ sock[j].st = "new"
          <6>1. n = fd /\ ~o.odd
            BY <2>6, <5>2, <5>4
          <6> QED
            BY <1>1, <2>3, <2>4, <2>5, <5>4, <6>1 DEF Enters, Drops, fd, a, TypeOK, CallRec
        <5>5. CASE k = j /\ sock[j].st \in {"pending", "on"}
          <6>1. <<n, k>> \in known[t] /\ k \notin again /\ ~o.odd
            BY <2>6, <5>2, <5>5
          <6>2. sock'[k] = sock[k] /\ sock[k].peer = a /\ o.ret = "pending"
            BY <2>3, <2>5, <5>5, <6>1
          <6>3. CASE n = fd
            BY <1>1, <2>4, <6>2, <6>3 DEF Enters, Drops, fd, a, TypeOK, CallRec
          <6>4. CASE n # fd
            BY <1>1, <2>4, <5>1, <5>2, <5>5, <6>1, <6>2, <6>4
               DEF FlowStage, Connected, Enters, Drops, fd, TypeOK, CallRec
          <6> QED
            BY <6>3, <6>4
        <5>6. CASE k = j /\ sock[j].st = "failed"
          BY <2>3, <2>5, <5>6
        <5> QED
          BY <2>2, <5>3, <5>4, <5>5, <5>6 DEF SockRec
      <4> QED
        BY <3>2, <4>1, <4>2
    <3> QED
      BY <3>1, <3>2
  <2> QED
    BY <1>1, <2>7, <2>8, <2>9, <2>10, <2>11
<1> QED
  BY <1>2, <1>3

\* A task enters a call that the kernel performs at once.
LEMMA Enter ==
  ASSUME TypeOK, NEW t \in Tasks, NEW name \in {"getsockopt", "write", "move", "connect"},
         NEW fd \in Fds, NEW of \in Addrs \cup {"-"}, NEW ret \in {"-", "ok", "failed"},
         In(t, name, fd, of, ret)
  PROVE  /\ call' \in [Tasks -> CallRec]
         /\ call'[t].name = name /\ call'[t].fd = fd /\ call'[t].of = of /\ call'[t].ret = ret
         /\ call'[t] # Idle /\ \A u \in Tasks \ {t} : call'[u] = call[u]
  BY DEF TypeOK, In, CallRec, Idle

\* The exit of a call
LEMMA Leave ==
  ASSUME TypeOK, NEW t \in Tasks, NEW name, Exits(t, name)
  PROVE  /\ call[t].name = name /\ call[t].ret # "-"
         /\ call' \in [Tasks -> CallRec] /\ call'[t] = Idle
         /\ \A u \in Tasks \ {t} : call'[u] = call[u]
  BY DEF TypeOK, Exits, CallRec, Idle

\* A task reads the error of a socket.
LEMMA AskErrorKeeps ==
  ASSUME IInv, NEW t \in Tasks, AskError(t)
  PROVE  IInv'
<1> USE DEF IInv
<1>1. call[t] = Idle /\ group[t] \in Tasks /\ UNCHANGED <<group, table, fd_paths, flows, asked, ghost>>
  BY DEF AskError, Runs, TypeOK, tracer
<1>2. PICK fd \in Fds :
        /\ At(t, fd).is = "socket"
        /\ LET k == At(t, fd).of IN
           IF sock[k].st = "failed"
           THEN sock' = [sock EXCEPT ![k] = [Free EXCEPT !.st = "new"]] /\ In(t, "getsockopt", fd, "-", "failed")
           ELSE UNCHANGED sock /\ In(t, "getsockopt", fd, "-", "ok")
  BY DEF AskError
<1> DEFINE j == At(t, fd).of
<1>3. j \in Socks /\ At(t, fd) = Sock(j)
  <2>1. At(t, fd) \in Descs
    BY <1>1 DEF At, TypeOK
  <2> QED
    BY <1>2, <2>1, DescCases
<1>4. PICK ret \in {"ok", "failed"} :
        /\ In(t, "getsockopt", fd, "-", ret)
        /\ ret = "failed" => sock'[j].st = "new"
        /\ sock' \in [Socks -> SockRec] /\ \A k \in Socks \ {j} : sock'[k] = sock[k]
        /\ sock'[j] = sock[j] \/ (sock[j].st = "failed" /\ sock'[j].st = "new" /\ sock'[j].peer = "-")
  <2>1. CASE sock[j].st = "failed"
    <3>1. [Free EXCEPT !.st = "new"] = [st |-> "new", peer |-> "-"]
      BY DEF Free
    <3>2. In(t, "getsockopt", fd, "-", "failed") /\ sock' = [sock EXCEPT ![j] = [st |-> "new", peer |-> "-"]]
      BY <1>2, <2>1, <3>1
    <3>3. sock' \in [Socks -> SockRec]
      BY <1>3, <3>2 DEF TypeOK, SockRec
    <3>4. sock'[j].st = "new" /\ sock'[j].peer = "-" /\ \A k \in Socks \ {j} : sock'[k] = sock[k]
      BY <1>3, <3>2 DEF TypeOK
    <3> QED
      BY <2>1, <3>2, <3>3, <3>4
  <2>2. CASE sock[j].st # "failed"
    BY <1>2, <1>3, <2>2 DEF TypeOK, SockRec
  <2> QED
    BY <2>1, <2>2
<1>5. /\ call' \in [Tasks -> CallRec]
      /\ call'[t].name = "getsockopt" /\ call'[t].fd = fd /\ call'[t].ret = ret
      /\ call'[t] # Idle /\ \A u \in Tasks \ {t} : call'[u] = call[u]
  BY <1>4, Enter
<1> HIDE DEF j
<1>6. TypeOK'
  BY <1>1, <1>4, <1>5 DEF TypeOK, SockRec, CallRec, ghost
<1>7. Groups'
  BY <1>1, <1>5 DEF Groups, ghost, AskError, Runs
<1>8. Sockets'
  BY <1>1, <1>4 DEF Sockets, ghost
<1>9. ASSUME NEW u \in Tasks PROVE CallStage(u)'
  <2>1. CASE u = t
    BY <1>5, <2>1 DEF CallStage
  <2>2. CASE u # t
    BY <1>1, <1>5, <2>2 DEF CallStage
  <2> QED
    BY <2>1, <2>2
<1>10. ASSUME NEW v \in solo PROVE PathStage(v)' /\ FlowStage(v)'
  <2>1. \A k \in Socks : Keeps(k)
    BY <1>4 DEF Keeps
  <2>2. CASE v # t
    BY <1>1, <1>5, <2>1, <2>2, Bystander, Alone DEF ghost
  <2>3. CASE v = t
    <3>1. PathStage(t)'
      BY <1>1, <1>5, <2>3 DEF PathStage, Renames, Idle, ghost
    <3>2. FlowStage(t)'
      <4> SUFFICES ASSUME NEW n \in Fds, NEW k \in Socks, Connected(t, n, k)'
                   PROVE  (/\ sock[k].st \in {"pending", "on"} /\ ~Enters(t, n) => flows[t][n] = sock[k].peer
                           /\ Drops(t, n) => sock[k].st = "new")'
        BY DEF FlowStage
      <4>1. FlowStage(t) /\ Connected(t, n, k) /\ Keeps(k)
        BY <1>1, <2>1, <2>3 DEF Connected, ghost
      <4>2. Drops(t, n)' => sock'[k].st = "new"
        <5>1. ASSUME Drops(t, n)' PROVE n = fd /\ ret = "failed"
          BY <1>5, <5>1 DEF Drops
        <5>2. table[t][fd] = Sock(j)
          BY <1>3, <2>3 DEF At, Groups
        <5>3. n = fd => k = j
          BY <4>1, <5>2 DEF Connected, Sock
        <5> QED
          BY <1>4, <5>1, <5>3
      <4>3. ~Enters(t, n)
        BY <1>1 DEF Enters, Idle
      <4> QED
        BY <1>1, <4>1, <4>2, <4>3 DEF FlowStage, Keeps
    <3> QED
      BY <2>3, <3>1, <3>2
  <2> QED
    BY <2>2, <2>3
<1> QED
  BY <1>1, <1>6, <1>7, <1>8, <1>9, <1>10 DEF ghost

\* A connection comes about, fails or breaks.
LEMMA TurnsKeeps ==
  ASSUME IInv, NEW k \in Socks, Turns(k)
  PROVE  IInv'
<1> USE DEF IInv
<1>1. UNCHANGED <<group, table, call, fd_paths, flows, asked, solo, silent, known, again>>
  BY DEF Turns, tracer, ghost
<1>2. /\ sock' \in [Socks -> SockRec] /\ sock'[k].peer = sock[k].peer
      /\ sock[k].st \in {"pending", "on"} /\ sock'[k].st \in {"on", "failed"}
      /\ \A j \in Socks \ {k} : sock'[j] = sock[j]
  BY DEF Turns, TypeOK, SockRec
<1>3. TypeOK'
  BY <1>1, <1>2 DEF TypeOK, SockRec
<1>4. Groups' /\ \A u \in Tasks : CallStage(u)'
  BY <1>1 DEF Groups, CallStage
<1>5. Sockets'
  <2>1. \A j \in Socks : sock'[j].st \in {"free", "new"} => sock'[j] = sock[j]
    BY <1>2
  <2>2. \A j \in Socks : sock'[j].st = "free" => sock[j].st = "free"
    BY <1>2
  <2> QED
    BY <1>1, <2>1, <2>2 DEF Sockets
<1>6. \A j \in Socks : Keeps(j)
  BY <1>2 DEF Keeps
<1>7. ASSUME NEW v \in solo PROVE PathStage(v)' /\ FlowStage(v)'
  BY <1>1, <1>6, Bystander
<1> QED
  BY <1>1, <1>3, <1>4, <1>5, <1>7

\* A connection is ended by a connect that nobody follows.
LEMMA UnfollowedKeeps ==
  ASSUME IInv, NEW t \in Tasks, ConnectUnfollowed(t)
  PROVE  IInv'
<1> USE DEF IInv
<1>1. UNCHANGED <<group, table, call, fd_paths, flows, asked, solo, silent, known, again>>
  BY DEF ConnectUnfollowed, tracer, ghost
<1>2. PICK j \in Socks : sock' = [sock EXCEPT ![j] = [st |-> "new", peer |-> "-"]]
  <2>1. PICK fd \in Fds : /\ At(t, fd).is = "socket"
                         /\ sock' = [sock EXCEPT ![At(t, fd).of] = [Free EXCEPT !.st = "new"]]
    BY DEF ConnectUnfollowed
  <2>2. At(t, fd) \in Descs BY DEF ConnectUnfollowed, Runs, At, TypeOK
  <2>3. At(t, fd).of \in Socks BY <2>1, <2>2, DescCases
  <2>4. [Free EXCEPT !.st = "new"] = [st |-> "new", peer |-> "-"] BY DEF Free
  <2> QED BY <2>1, <2>3, <2>4
<1>3. /\ sock' \in [Socks -> SockRec] /\ sock'[j].st = "new" /\ sock'[j].peer = "-"
      /\ \A k \in Socks \ {j} : sock'[k] = sock[k]
  BY <1>2 DEF TypeOK, SockRec
<1>4. TypeOK'
  BY <1>1, <1>3 DEF TypeOK, SockRec
<1>5. Groups' /\ \A u \in Tasks : CallStage(u)'
  BY <1>1 DEF Groups, CallStage
<1>6. Sockets'
  BY <1>1, <1>3 DEF Sockets
<1>7. \A k \in Socks : Keeps(k)
  BY <1>3 DEF Keeps
<1>8. ASSUME NEW v \in solo PROVE PathStage(v)' /\ FlowStage(v)'
  BY <1>1, <1>7, Bystander
<1> QED
  BY <1>1, <1>4, <1>5, <1>6, <1>8

\* The entry of a transfer or of a connect
LEMMA EntryKeeps ==
  ASSUME IInv, NEW t \in Tasks, Transfer(t) \/ Connect(t)
  PROVE  IInv'
<1> USE DEF IInv
<1>1. /\ call[t] = Idle /\ group[t] # "none"
      /\ UNCHANGED <<group, table, sock, fd_paths, asked, solo, silent, known, again>>
  BY DEF Transfer, Connect, Runs, kernel, tracer, ghost
<1>2. PICK fd \in Fds, name \in {"write", "move", "connect"}, of \in Addrs \cup {"-"}, ret \in {"-", "ok"} :
        /\ In(t, name, fd, of, ret)
        /\ \/ name # "connect" /\ UNCHANGED flows
           \/ name = "connect" /\ ret = "-" /\ of \in Addrs /\ flows' = [flows EXCEPT ![t][fd] = of]
  BY DEF Transfer, Connect, tracer
<1>3. /\ call' \in [Tasks -> CallRec]
      /\ call'[t].name = name /\ call'[t].fd = fd /\ call'[t].of = of /\ call'[t].ret = ret
      /\ call'[t] # Idle /\ \A u \in Tasks \ {t} : call'[u] = call[u]
  BY <1>2, Enter
<1>4. /\ flows' \in [Tasks -> [Fds -> Addrs \cup {"-"}]]
      /\ \A u \in Tasks \ {t} : flows'[u] = flows[u]
      /\ \A n \in Fds \ {fd} : flows'[t][n] = flows[t][n]
      /\ name = "connect" => ret = "-" /\ of \in Addrs /\ flows'[t][fd] = of
      /\ name # "connect" => flows'[t] = flows[t]
  <2>1. CASE name # "connect"
    BY <1>2, <2>1 DEF TypeOK
  <2>2. CASE name = "connect"
    <3>1. ret = "-" /\ of \in Addrs /\ flows' = [flows EXCEPT ![t] = [flows[t] EXCEPT ![fd] = of]]
      BY <1>2, <2>2
    <3>2. flows[t] \in [Fds -> Addrs \cup {"-"}]
      BY DEF TypeOK
    <3>3. [flows[t] EXCEPT ![fd] = of] \in [Fds -> Addrs \cup {"-"}]
      BY <3>1, <3>2
    <3>4. flows'[t] = [flows[t] EXCEPT ![fd] = of] /\ \A u \in Tasks \ {t} : flows'[u] = flows[u]
      BY <3>1 DEF TypeOK
    <3>5. flows' \in [Tasks -> [Fds -> Addrs \cup {"-"}]]
      BY <3>1, <3>3 DEF TypeOK
    <3> QED
      BY <2>2, <3>1, <3>2, <3>4, <3>5
  <2> QED
    BY <2>1, <2>2
<1>5. TypeOK'
  BY <1>1, <1>3, <1>4 DEF TypeOK, CallRec
<1>6. Groups' /\ Sockets'
  BY <1>1, <1>3 DEF Groups, Sockets
<1>7. ASSUME NEW u \in Tasks PROVE CallStage(u)'
  <2>1. CASE u = t
    BY <1>3, <1>4, <2>1 DEF CallStage
  <2>2. CASE u # t
    BY <1>3, <1>4, <2>2 DEF CallStage
  <2> QED
    BY <2>1, <2>2
<1>8. ASSUME NEW v \in solo PROVE PathStage(v)' /\ FlowStage(v)'
  <2>1. CASE v # t
    BY <1>1, <1>3, <1>4, <2>1, Bystander, Alone DEF Keeps
  <2>2. CASE v = t
    <3>1. PathStage(t)'
      BY <1>1, <1>3, <2>2 DEF PathStage, Renames, Idle
    <3>2. FlowStage(t)'
      <4>1. FlowStage(t) /\ \A n \in Fds : ~Enters(t, n) /\ ~Drops(t, n)'
        BY <1>1, <1>3, <2>2 DEF Enters, Drops, Idle
      <4>2. \A n \in Fds : ~Enters(t, n)' => flows'[t][n] = flows[t][n]
        BY <1>3, <1>4 DEF Enters
      <4> QED
        BY <1>1, <4>1, <4>2 DEF FlowStage, Connected
    <3> QED
      BY <2>2, <3>1, <3>2
  <2> QED
    BY <2>1, <2>2
<1> QED
  BY <1>1, <1>5, <1>6, <1>7, <1>8

Exit(t) == ConnectResult(t) \/ SocketError(t) \/ Opened(t) \/ ClosedPath(t) \/ Written(t) \/ Passed(t)

\* What the exit of a call does to the tables, by its name
LEMMA ExitEffect ==
  ASSUME IInv, NEW t \in Tasks, Exit(t)
  PROVE  /\ call[t] # Idle /\ call[t].fd \in Fds
         /\ call' \in [Tasks -> CallRec] /\ call'[t] = Idle
         /\ \A u \in Tasks \ {t} : call'[u] = call[u]
         /\ UNCHANGED <<group, table, sock, solo, silent, known, again>>
         /\ asked' \subseteq Decoys
         /\ fd_paths' = IF call[t].name = "open" THEN [fd_paths EXCEPT ![t][call[t].fd] = call[t].of]
                        ELSE IF call[t].name = "close" THEN [fd_paths EXCEPT ![t][call[t].fd] = "-"]
                        ELSE fd_paths
         /\ flows' = IF call[t].name \in {"connect", "getsockopt"} /\ call[t].ret = "failed"
                     THEN [flows EXCEPT ![t][call[t].fd] = "-"] ELSE flows
<1>1. PICK name \in {"connect", "getsockopt", "open", "close", "write", "move"} : Exits(t, name)
  BY DEF Exit, ConnectResult, SocketError, Opened, ClosedPath, Written, Passed
<1>2. /\ call[t].name = name /\ call' \in [Tasks -> CallRec] /\ call'[t] = Idle
      /\ \A u \in Tasks \ {t} : call'[u] = call[u]
  BY <1>1, Leave DEF IInv
<1>3. call[t] # Idle /\ call[t].fd \in Fds
  BY <1>2 DEF IInv, CallStage
<1>4. UNCHANGED <<group, table, sock, solo, silent, known, again>>
  BY DEF Exit, ConnectResult, SocketError, Opened, ClosedPath, Written, Passed, untraced, kernel, ghost
<1>5. asked' \subseteq Decoys
  BY DEF Exit, ConnectResult, SocketError, Opened, ClosedPath, Written, Passed, tracer, IInv, TypeOK
<1>6. fd_paths' = IF call[t].name = "open" THEN [fd_paths EXCEPT ![t][call[t].fd] = call[t].of]
                 ELSE IF call[t].name = "close" THEN [fd_paths EXCEPT ![t][call[t].fd] = "-"]
                 ELSE fd_paths
  BY DEF Exit, ConnectResult, SocketError, Opened, ClosedPath, Written, Passed, tracer, Exits
<1>7. flows' = IF call[t].name \in {"connect", "getsockopt"} /\ call[t].ret = "failed"
              THEN [flows EXCEPT ![t][call[t].fd] = "-"] ELSE flows
  BY DEF Exit, ConnectResult, SocketError, Opened, ClosedPath, Written, Passed, tracer, Exits
<1> QED
  BY <1>2, <1>3, <1>4, <1>5, <1>6, <1>7

\* The tracer handles the exit of a call.
LEMMA ExitKeeps ==
  ASSUME IInv, NEW t \in Tasks, Exit(t)
  PROVE  IInv'
<1> DEFINE fd == call[t].fd
<1>1. /\ call[t] # Idle /\ fd \in Fds
      /\ call' \in [Tasks -> CallRec] /\ call'[t] = Idle
      /\ \A u \in Tasks \ {t} : call'[u] = call[u]
      /\ UNCHANGED <<group, table, sock, solo, silent, known, again>>
      /\ asked' \subseteq Decoys
  BY ExitEffect
<1>2. /\ fd_paths' = IF call[t].name = "open" THEN [fd_paths EXCEPT ![t][fd] = call[t].of]
                     ELSE IF call[t].name = "close" THEN [fd_paths EXCEPT ![t][fd] = "-"]
                     ELSE fd_paths
      /\ flows' = IF call[t].name \in {"connect", "getsockopt"} /\ call[t].ret = "failed"
                  THEN [flows EXCEPT ![t][fd] = "-"] ELSE flows
  BY ExitEffect
<1> USE DEF IInv
<1>3. /\ fd_paths' \in [Tasks -> [Fds -> Files \cup {"-"}]]
      /\ \A u \in Tasks \ {t} : fd_paths'[u] = fd_paths[u]
      /\ \A n \in Fds \ {fd} : fd_paths'[t][n] = fd_paths[t][n]
      /\ fd_paths'[t][fd] = IF call[t].name = "open" THEN call[t].of
                            ELSE IF call[t].name = "close" THEN "-" ELSE fd_paths[t][fd]
  <2>1. call[t].name = "open" => call[t].of \in Files
    BY DEF CallStage
  <2> QED
    BY <1>1, <1>2, <2>1 DEF TypeOK
<1>4. /\ flows' \in [Tasks -> [Fds -> Addrs \cup {"-"}]]
      /\ \A u \in Tasks \ {t} : flows'[u] = flows[u]
      /\ \A n \in Fds : ~Drops(t, n) => flows'[t][n] = flows[t][n]
  BY <1>1, <1>2 DEF TypeOK, Drops
<1>5. TypeOK'
  BY <1>1, <1>3, <1>4 DEF TypeOK, CallRec
<1>6. Groups' /\ Sockets'
  BY <1>1 DEF Groups, Sockets
<1>7. ASSUME NEW u \in Tasks PROVE CallStage(u)'
  <2>1. CASE u = t
    BY <1>1, <2>1 DEF CallStage, Idle
  <2>2. CASE u # t
    BY <1>1, <1>4, <2>2 DEF CallStage
  <2> QED
    BY <2>1, <2>2
<1>8. ASSUME NEW v \in solo PROVE PathStage(v)' /\ FlowStage(v)'
  <2>1. CASE v # t
    BY <1>1, <1>3, <1>4, <2>1, Bystander, Alone DEF Keeps
  <2>2. CASE v = t
    <3>1. PathStage(t)'
      <4> SUFFICES ASSUME NEW n \in Fds, n \notin silent[t]
                   PROVE  fd_paths'[t][n] = PathOf(table[t][n])
        BY <1>1 DEF PathStage, Renames, Idle
      <4>1. PathStage(t)
        BY <2>2
      <4>2. CASE Renames(t, n) /\ call[t].name = "open"
        BY <1>3, <4>1, <4>2 DEF PathStage, Renames, PathOf, File
      <4>3. CASE Renames(t, n) /\ call[t].name = "close"
        BY <1>3, <4>1, <4>3 DEF PathStage, Renames, PathOf, Closed
      <4>4. CASE ~Renames(t, n)
        BY <1>3, <4>1, <4>4 DEF PathStage, Renames
      <4> QED
        BY <4>2, <4>3, <4>4 DEF Renames
    <3>2. FlowStage(t)'
      <4>1. FlowStage(t) /\ \A n \in Fds : ~Drops(t, n)'
        BY <1>1, <2>2 DEF Drops, Idle
      <4>2. \A n \in Fds : ~Enters(t, n)
        <5>1. call[t].ret # "-"
          BY Leave DEF Exit, ConnectResult, SocketError, Opened, ClosedPath, Written, Passed
        <5> QED
          BY <5>1 DEF Enters
      <4> QED
        BY <1>1, <1>4, <4>1, <4>2 DEF FlowStage, Connected
    <3> QED
      BY <2>2, <3>1, <3>2
  <2> QED
    BY <2>1, <2>2
<1> QED
  BY <1>1, <1>5, <1>6, <1>7, <1>8

\* A task is made: one that shares the table ends what can be said of its group,
\* one that has a copy is where its parent is, between two calls.
LEMMA CloneKeeps ==
  ASSUME IInv, NEW t \in Tasks, NEW u \in Tasks, Clone(t, u)
  PROVE  IInv'
<1> USE DEF IInv
<1>1. /\ group[t] \in Tasks /\ call[t] = Idle /\ group[u] = "none" /\ t # u
      /\ UNCHANGED <<sock, call, asked, again>>
      /\ known' = [known EXCEPT ![u] = known[t]]
      /\ fd_paths' = [fd_paths EXCEPT ![u] = [fd \in Fds |-> fd_paths[t][fd]]]
      /\ flows' = [flows EXCEPT ![u] = [fd \in Fds |-> flows[t][fd]]]
  BY DEF Clone, Runs, Inherit, TypeOK
<1>2. PICK shares \in BOOLEAN :
        /\ group' = [group EXCEPT ![u] = IF shares THEN group[t] ELSE u]
        /\ table' = IF shares THEN table ELSE [table EXCEPT ![u] = table[group[t]]]
        /\ silent' = IF shares THEN silent ELSE [silent EXCEPT ![u] = silent[group[t]]]
        /\ solo' = IF shares THEN {v \in solo : group[v] # group[t]}
                   ELSE IF t \in solo THEN solo \cup {u} ELSE solo
  BY DEF Clone
<1>3. /\ fd_paths'[u] = fd_paths[t] /\ flows'[u] = flows[t] /\ known'[u] = known[t]
      /\ \A v \in Tasks \ {u} :
           fd_paths'[v] = fd_paths[v] /\ flows'[v] = flows[v] /\ known'[v] = known[v]
      /\ fd_paths' \in [Tasks -> [Fds -> Files \cup {"-"}]]
      /\ flows' \in [Tasks -> [Fds -> Addrs \cup {"-"}]]
      /\ known' \in [Tasks -> SUBSET (Fds \X Socks)]
  <2>1. /\ [fd \in Fds |-> fd_paths[t][fd]] = fd_paths[t]
        /\ [fd \in Fds |-> flows[t][fd]] = flows[t]
    BY DEF TypeOK
  <2> QED
    BY <1>1, <2>1 DEF TypeOK
<1>4. /\ \A v \in Tasks : group[v] # u
      /\ u \notin solo /\ solo \subseteq Tasks /\ "none" \notin Tasks
  <2>1. solo \subseteq Tasks /\ "none" \notin Tasks
    BY DescriptorsAssumption DEF TypeOK
  <2>2. \A v \in Tasks : group[v] # u
    BY <1>1, <2>1 DEF Groups
  <2>3. u \notin solo
    BY <1>1, <2>1 DEF Groups
  <2> QED
    BY <2>1, <2>2, <2>3
<1>5. Groups' /\ solo' \subseteq Tasks /\ group' \in [Tasks -> Tasks \cup {"none"}]
  <2>1. /\ group'[u] = IF shares THEN group[t] ELSE u
        /\ \A v \in Tasks \ {u} : group'[v] = group[v]
        /\ group' \in [Tasks -> Tasks \cup {"none"}]
    BY <1>1, <1>2 DEF TypeOK
  <2>2. \A v \in Tasks : group'[v] # "none" => group'[group'[v]] = group'[v]
    <3>1. ASSUME NEW v \in Tasks, group[v] # "none"
          PROVE  group[v] \in Tasks \ {u} /\ group'[group[v]] = group[v]
      BY <1>4, <2>1, <3>1 DEF Groups, TypeOK
    <3>2. group'[u] # "none" => group'[group'[u]] = group'[u]
      BY <1>1, <1>4, <2>1, <3>1 DEF Runs, Clone
    <3> QED
      BY <2>1, <3>1, <3>2
  <2>3. \A v \in Tasks : group'[v] = "none" => call'[v] = Idle
    BY <1>1, <2>1 DEF Groups
  <2>4. ASSUME NEW v \in solo' PROVE group'[v] = v /\ \A w \in Tasks : group'[w] = v => w = v
    BY <1>1, <1>2, <1>4, <2>1 DEF Groups
  <2> QED
    BY <1>2, <1>4, <2>1, <2>2, <2>3, <2>4 DEF Groups
<1>6. /\ table' \in [Tasks -> [Fds -> Descs]] /\ silent' \in [Tasks -> SUBSET Fds]
      /\ \A v \in Tasks \ {u} : table'[v] = table[v] /\ silent'[v] = silent[v]
      /\ shares => table'[u] = table[u] /\ silent'[u] = silent[u]
      /\ ~shares => table'[u] = table[group[t]] /\ silent'[u] = silent[group[t]]
  BY <1>1, <1>2 DEF TypeOK
<1>7. TypeOK'
  BY <1>1, <1>3, <1>5, <1>6 DEF TypeOK
<1>8. Sockets'
  <2>1. \A v \in Tasks, fd \in Fds : \E w \in Tasks : table'[v][fd] = table[w][fd]
    BY <1>1, <1>6
  <2>2. \A v \in Tasks : \E w \in Tasks : known'[v] = known[w]
    BY <1>3
  <2>3. \A k \in Socks : sock'[k].st \in {"free", "new"} => sock'[k].peer = "-"
    BY <1>1 DEF Sockets
  <2>4. \A v \in Tasks, fd \in Fds, k \in Socks : table'[v][fd] = Sock(k) => sock'[k].st # "free"
    BY <1>1, <2>1 DEF Sockets
  <2>5. \A v \in Tasks, fd \in Fds, k \in Socks : <<fd, k>> \in known'[v] => sock'[k].st # "free"
    BY <1>1, <2>2 DEF Sockets
  <2> QED
    BY <2>3, <2>4, <2>5 DEF Sockets
<1>9. ASSUME NEW v \in Tasks PROVE CallStage(v)'
  <2>1. call[u] = Idle
    BY <1>1 DEF Groups
  <2>2. CASE v = u
    BY <1>1, <2>1, <2>2 DEF CallStage, Idle
  <2>3. CASE v # u
    BY <1>1, <1>3, <2>3 DEF CallStage
  <2> QED
    BY <2>2, <2>3
<1>10. ASSUME NEW v \in solo' PROVE PathStage(v)' /\ FlowStage(v)'
  <2>1. CASE v # u
    <3>1. v \in solo /\ v \in Tasks
      BY <1>2, <1>4, <2>1
    <3> QED
      BY <1>1, <1>3, <1>6, <2>1, <3>1, Bystander DEF Keeps
  <2>2. CASE v = u
    <3>1. ~shares /\ t \in solo /\ group[t] = t /\ PathStage(t) /\ FlowStage(t)
      BY <1>2, <1>4, <2>2 DEF Groups
    <3>2. call'[u] = Idle
      BY <1>1 DEF Groups
    <3>3. table'[u] = table[t] /\ silent'[u] = silent[t]
      BY <1>6, <3>1
    <3>4. PathStage(u)'
      BY <1>1, <1>3, <3>1, <3>2, <3>3 DEF PathStage, Renames, Idle
    <3>5. FlowStage(u)'
      BY <1>1, <1>3, <3>1, <3>2, <3>3 DEF FlowStage, Connected, Enters, Drops, Idle
    <3> QED
      BY <2>2, <3>4, <3>5
  <2> QED
    BY <2>1, <2>2
<1> QED
  BY <1>5, <1>7, <1>8, <1>9, <1>10

LEMMA IInvStep == IInv /\ [Next]_vars => IInv'
<1> SUFFICES ASSUME IInv, [Next]_vars PROVE IInv'
  OBVIOUS
<1>1. ASSUME NEW t \in Tasks, Kernel(t) PROVE IInv'
  BY <1>1, TableStepKeeps, ConnectRunsKeeps, AskErrorKeeps, EntryKeeps DEF Kernel
<1>2. ASSUME NEW t \in Tasks, Handle(t) PROVE IInv'
  BY <1>2, EntryKeeps, UnfollowedKeeps, ExitKeeps DEF Handle, Exit
<1>3. ASSUME NEW t \in Tasks, NEW u \in Tasks, Clone(t, u) PROVE IInv'
  BY <1>3, CloneKeeps
<1>4. ASSUME NEW k \in Socks, Turns(k) PROVE IInv'
  BY <1>4, TurnsKeeps
<1>5. CASE UNCHANGED vars
  BY <1>5 DEF vars, kernel, tracer, ghost, IInv, TypeOK, Groups, Sockets, CallStage, PathStage,
              Renames, FlowStage, Connected, Enters, Drops
<1> QED
  BY <1>1, <1>2, <1>3, <1>4, <1>5 DEF Next

-----------------------------------------------------------------------------
(* What can be relied on.                                                  *)

\* Through every interleaving of calls, clones and connections that come about or
\* break, a task alone with its table is at one of the stages of a call that the
\* tracer follows.
THEOREM DescriptorsInvariance == Spec => []IInv
  BY IInvInit, IInvStep, PTL DEF Spec

\* Between two calls of a process without threads, the tracer holds a number for a
\* file exactly when it stands for that file (_handle_open, close,
\* _inherit_process_state).
THEOREM PathsFollowHolds == Spec => []PathsFollow
<1>1. IInv => PathsFollow
  <2> SUFFICES ASSUME IInv, NEW t \in Tasks, NEW fd \in Fds, Followed(t, fd)
               PROVE  fd_paths[t][fd] = IF At(t, fd).is = "file" THEN At(t, fd).of ELSE "-"
    BY DEF PathsFollow
  <2>1. group[t] = t /\ PathStage(t) /\ fd \notin silent[t]
    BY DEF IInv, Groups, Followed
  <2>2. ~Renames(t, fd)
    BY DEF Followed, Renames, Idle
  <2> QED
    BY <2>1, <2>2 DEF PathStage, PathOf, At
<1> QED
  BY <1>1, DescriptorsInvariance, PTL

\* What a connected socket carries is attributed to its peer, in the process that
\* has connected it and in those forked from it (_handle_connect_result).
THEOREM FlowsFollowHolds == Spec => []FlowsFollow
<1>1. IInv => FlowsFollow
  <2> SUFFICES ASSUME IInv, NEW t \in Tasks, NEW fd \in Fds,
                      Followed(t, fd), At(t, fd).is = "socket",
                      <<fd, At(t, fd).of>> \in known[t], At(t, fd).of \notin again,
                      sock[At(t, fd).of].st \in {"pending", "on"}
               PROVE  flows[t][fd] = sock[At(t, fd).of].peer
    BY DEF FlowsFollow
  <2>1. group[t] = t /\ FlowStage(t) /\ fd \notin silent[t]
    BY DEF IInv, Groups, Followed
  <2>2. At(t, fd) \in Descs
    BY <2>1 DEF IInv, TypeOK, At
  <2>3. At(t, fd).of \in Socks /\ table[t][fd] = Sock(At(t, fd).of)
    BY <2>1, <2>2, DescCases DEF At
  <2>4. Connected(t, fd, At(t, fd).of) /\ ~Enters(t, fd)
    BY <2>1, <2>3 DEF Connected, Enters, Followed, Idle
  <2> QED
    BY <2>1, <2>3, <2>4 DEF FlowStage
<1> QED
  BY <1>1, DescriptorsInvariance, PTL

\* The end of the run is asked for by a write to a planted file, and by no write to
\* what has taken over its number (_handle_write).
THEOREM DecoyWritesHolds == Spec => DecoyWrites
<1>1. ASSUME IInv, [Next]_vars, NEW t \in Tasks, call[t].name = "write", call'[t] = Idle,
             t \in solo, call[t].fd \notin silent[group[t]]
      PROVE  LET fd == call[t].fd
                 d == At(t, fd) IN
             /\ asked' \subseteq asked \cup {d.of}
             /\ d.is = "file" /\ d.of \in Decoys /\ flows[t][fd] = "-" => d.of \in asked'
  <2> DEFINE fd == call[t].fd
             d == At(t, fd)
  <2>1. /\ fd \in Fds /\ group[t] = t /\ call[t] # Idle
        /\ fd_paths[t][fd] = PathOf(d)
    <3>1. fd \in Fds /\ group[t] = t /\ PathStage(t) /\ call[t] # Idle
      BY <1>1 DEF IInv, CallStage, Groups
    <3>2. ~Renames(t, fd)
      BY <1>1 DEF Renames
    <3> QED
      BY <1>1, <3>1, <3>2 DEF PathStage, At
  <2>2. Written(t) \/ Passed(t)
    <3>1. ASSUME NEW u \in Tasks, Kernel(u) PROVE FALSE
      BY <1>1, <2>1, <3>1 DEF Kernel, Open, Create, Close, Silently, ConnectRuns, AskError,
                             Transfer, Runs, In, IInv, TypeOK, Idle
    <3>2. ASSUME NEW u \in Tasks, Handle(u) PROVE u = t
      BY <1>1, <2>1, <3>2 DEF Handle, Connect, ConnectUnfollowed, ConnectResult, SocketError, Opened,
                             ClosedPath, Written, Passed, Exits, Runs, In, IInv, TypeOK
    <3>3. Handle(t)
      BY <1>1, <2>1, <3>1, <3>2 DEF Next, Clone, Turns, vars
    <3> QED
      BY <1>1, <2>1, <3>3 DEF Handle, Connect, ConnectUnfollowed, ConnectResult, SocketError, Opened,
                             ClosedPath, Exits, Runs
  <2>3. d \in Descs /\ (d.is = "file" => d.of \in Files) /\ "-" \notin Files
    <3>1. d \in Descs
      BY <1>1, <2>1 DEF IInv, TypeOK, At
    <3> QED
      BY <3>1, DescCases, DescriptorsAssumption
  <2>4. CASE Written(t)
    BY <2>1, <2>3, <2>4, DescriptorsAssumption DEF Written, IsFile, PathOf
  <2>5. CASE Passed(t)
    <3>1. ~IsFile(t) /\ asked' = asked
      BY <1>1, <2>5 DEF Passed, Exits, tracer
    <3> QED
      BY <2>1, <2>3, <3>1 DEF IsFile, PathOf
  <2> QED
    BY <2>2, <2>4, <2>5
<1>2. IInv /\ [Next]_vars => [\A t \in Tasks :
        LET fd == call[t].fd IN
        call[t].name = "write" /\ call'[t] = Idle /\ t \in solo /\ fd \notin silent[group[t]] =>
          LET d == At(t, fd) IN
          /\ asked' \subseteq asked \cup {d.of}
          /\ d.is = "file" /\ d.of \in Decoys /\ flows[t][fd] = "-" => d.of \in asked']_vars
  BY <1>1
<1> QED
  BY <1>2, DescriptorsInvariance, PTL DEF Spec, DecoyWrites
=============================================================================
