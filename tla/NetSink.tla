------------------------------- MODULE NetSink -------------------------------
(***************************************************************************)
(* The simulated internet (containre/net/sink.py): accept threads, one     *)
(* handler thread per connection, and the stop that waits for them.        *)
(*                                                                         *)
(* A handler reports its connection at the end, through on_interaction.    *)
(* The value of hs[c] is then the operation it is about to report; the     *)
(* session ends the handler.                                               *)
(***************************************************************************)
EXTENDS GrpcReplay

CONSTANTS
  Conns,       \* connections the specimen may make
  Acceptors,   \* listening sockets, each with its thread: IPv4, IPv6
  TlsClients,  \* the connections on which it may speak TLS
  Mitm,        \* the sink has a certificate
  SinkType     \* "builtin" or "h2-grpc-replay"

\* Bound: one connection is replayed.
ASSUME ReplayAssumption == TlsClients \subseteq Conns /\ \A c, d \in TlsClients : c = d

VARIABLES
  hs,        \* each connection
  acc,       \* each accept thread: "wait", "ended", or the connection it holds
  quiet,     \* replayed connections on which the client sends nothing more
  sinkstop,  \* stop: "no", "set", then "closed"
  handlers,  \* _handlers
  joined     \* the handlers that stop waits for

netsink == <<hs, acc, quiet, sinkstop, handlers, joined>>

Reporting == {"http", "recv", "tls", "h2"}
Handled   == {"detect", "shake", "loop", "read"} \cup Reporting

NetSinkTypeOK ==
  /\ ReplayTypeOK
  /\ hs \in [Conns -> {"none", "queued", "held", "over"} \cup Handled]
  /\ acc \in [Acceptors -> {"wait", "ended"} \cup Conns]
  /\ quiet \subseteq Conns
  /\ sinkstop \in {"no", "set", "closed"}
  /\ handlers \subseteq Conns /\ joined \subseteq Conns

NetSinkInit ==
  /\ ReplayInit
  /\ hs = [c \in Conns |-> "none"] /\ quiet = {}
  /\ handlers = {} /\ joined = {}

Started == acc = [a \in Acceptors |-> "wait"] /\ sinkstop = "no"
Absent  == acc = [a \in Acceptors |-> "ended"] /\ sinkstop = "closed"

Alive == {c \in Conns : hs[c] \in Handled}

Goes(c, s) == hs' = [hs EXCEPT ![c] = s]

-----------------------------------------------------------------------------
(* The specimen's side.                                                    *)

Connect(c) ==
  /\ hs[c] = "none" /\ sinkstop # "closed"
  /\ Goes(c, "queued")
  /\ UNCHANGED <<replay, acc, quiet, sinkstop, handlers, joined>>

GoesQuiet(c) ==
  /\ hs[c] = "loop" /\ c \notin quiet
  /\ quiet' = quiet \cup {c}
  /\ UNCHANGED <<replay, hs, acc, sinkstop, handlers, joined>>

-----------------------------------------------------------------------------
(* _accept_loop.                                                           *)

Accept(a, c) ==
  /\ acc[a] = "wait" /\ sinkstop # "closed" /\ hs[c] = "queued"
  /\ acc' = [acc EXCEPT ![a] = c]
  /\ Goes(c, "held")
  /\ UNCHANGED <<replay, quiet, sinkstop, handlers, joined>>

\* Mutant: stop is looked at before the lock is taken, not under it.
RegisterUnchecked(a) ==
  /\ acc[a] \in Conns
  /\ Goes(acc[a], IF Mitm THEN "detect" ELSE "read")
  /\ handlers' = (handlers \cap Alive) \cup {acc[a]}
  /\ acc' = [acc EXCEPT ![a] = "wait"]
  /\ UNCHANGED <<replay, quiet, sinkstop, joined>>

\* Under the lock: a handler is started and registered, or never starts.
Register(a) ==
  /\ acc[a] \in Conns
  /\ \/ /\ sinkstop # "no"
        /\ Goes(acc[a], "over") /\ acc' = [acc EXCEPT ![a] = "ended"]
        /\ UNCHANGED handlers
     \/ /\ sinkstop = "no"     \* no thread to be had
        /\ Goes(acc[a], "over") /\ acc' = [acc EXCEPT ![a] = "wait"]
        /\ UNCHANGED handlers
     \/ /\ sinkstop = "no"
        /\ Goes(acc[a], IF Mitm THEN "detect" ELSE "read")
        /\ handlers' = (handlers \cap Alive) \cup {acc[a]}
        /\ acc' = [acc EXCEPT ![a] = "wait"]
  /\ UNCHANGED <<replay, quiet, sinkstop, joined>>

AcceptEnds(a) ==
  /\ acc[a] = "wait" /\ sinkstop # "no"
  /\ acc' = [acc EXCEPT ![a] = "ended"]
  /\ UNCHANGED <<replay, hs, quiet, sinkstop, handlers, joined>>

-----------------------------------------------------------------------------
(* _handle.                                                                *)

handling == <<acc, quiet, sinkstop, handlers, joined>>

\* _peek_first_byte; a client that sends nothing gets nothing and is not told of.
Detect(c) ==
  /\ hs[c] = "detect"
  /\ \E s \in {"shake", "read", "over"} : (s = "shake" => c \in TlsClients) /\ Goes(c, s)
  /\ UNCHANGED <<replay, handling>>

\* Up to 30 s, whether the sink is stopped meanwhile or not.
Handshake(c) ==
  /\ hs[c] = "shake"
  /\ \/ Goes(c, IF SinkType = "h2-grpc-replay" THEN "loop" ELSE "read")
     \/ Goes(c, "tls")
  /\ UNCHANGED <<replay, handling>>

\* A request, anything else, or nothing within half a second.
Read(c) ==
  /\ hs[c] = "read"
  /\ Goes(c, "http") \/ Goes(c, "recv")
  /\ UNCHANGED <<replay, handling>>

\* The client sends, bytes or the end of a frame.
ReplayFrame(c) ==
  /\ hs[c] = "loop" /\ c \notin quiet
  /\ Receive \/ Frame
  /\ UNCHANGED <<hs, handling>>

LeavesLoop(c) ==
  /\ hs[c] = "loop"
  /\ Goes(c, "h2") /\ Forget
  /\ quiet' = quiet \ {c}
  /\ UNCHANGED <<acc, sinkstop, handlers, joined>>

\* The client closes, says GOAWAY, exceeds the frame size or has no preface.
ReplayLeaves(c) == c \notin quiet /\ LeavesLoop(c)

\* The outer loop leaves, goes on to an inner one, or is come back to.
ReplayLoops(c) ==
  /\ hs[c] = "loop"
  /\ \/ ~inner /\ (sinkstop # "no" \/ late) /\ LeavesLoop(c)
     \/ sinkstop = "no" /\ Turn /\ UNCHANGED <<hs, handling>>
     \/ TimesOut /\ UNCHANGED <<hs, handling>>

\* idle_timeout_s have passed since bytes came.
ReplayIdles(c) ==
  /\ hs[c] = "loop"
  /\ Expire
  /\ UNCHANGED <<hs, handling>>

Handle(c) == Detect(c) \/ Handshake(c) \/ Read(c) \/ ReplayLoops(c) \/ ReplayIdles(c)

Specimen ==
  \/ \E c \in Conns : Connect(c) \/ GoesQuiet(c) \/ ReplayFrame(c) \/ ReplayLeaves(c)

Threads ==
  \/ \E a \in Acceptors, c \in Conns : Accept(a, c)
  \/ \E a \in Acceptors : Register(a) \/ AcceptEnds(a)
  \/ \E c \in Conns : Handle(c)

-----------------------------------------------------------------------------
(* stop, in the thread that called it.                                     *)

StopSets ==
  /\ sinkstop = "no" /\ sinkstop' = "set"
  /\ UNCHANGED <<replay, hs, acc, quiet, handlers, joined>>

\* What is still in the backlog is refused.
StopCloses ==
  /\ sinkstop = "set" /\ sinkstop' = "closed"
  /\ hs' = [c \in Conns |-> IF hs[c] = "queued" THEN "over" ELSE hs[c]]
  /\ UNCHANGED <<replay, acc, quiet, handlers, joined>>

StopSnapshots ==
  /\ joined' = handlers
  /\ UNCHANGED <<replay, hs, acc, quiet, sinkstop, handlers>>

Ended == (\A a \in Acceptors : acc[a] = "ended") /\ joined \cap Alive = {}
=============================================================================
