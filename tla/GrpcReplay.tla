----------------------------- MODULE GrpcReplay -----------------------------
(***************************************************************************)
(* The gRPC replay of the sink (containre/net/sink.py,                     *)
(* _respond_h2_grpc_replay): one connection, read frame by frame and       *)
(* answered from the policy without understanding the messages.            *)
(*                                                                         *)
(* The client sends any frame on any stream at any time; theirs follows    *)
(* what it does with each of them.  A client that obeys HTTP/2 and gRPC    *)
(* begins a stream with HEADERS, goes on with DATA and ends it once, with  *)
(* END_STREAM on its last frame or with RST_STREAM.                        *)
(*                                                                         *)
(* Bytes are waited for in three inner loops, for the preface, for the     *)
(* header of a frame and for the rest of it; whether the connection has    *)
(* been idle for too long is looked at in the outer one.                   *)
(***************************************************************************)
EXTENDS FiniteSets, Integers

CONSTANTS
  Streams,     \* streams the client may open
  MaxStreams   \* _H2_MAX_STREAMS

ASSUME StreamsAssumption == MaxStreams \in Nat

VARIABLES
  read,      \* what is read: of the preface, then of the next frame
  inner,     \* whether an inner loop waits for more of it
  late,      \* idle_deadline has passed
  theirs,    \* the client's half of each stream; a monitor, not in the code
  streams,   \* the loop's record of it
  ours       \* the sink's half of it, as the client receives it

halves == <<theirs, streams, ours>>
replay == <<read, inner, late, halves>>

Record == [mode : {"none", "unary", "streaming"}, responded : BOOLEAN, headers_sent : BOOLEAN]
Fresh(m) == [mode |-> m, responded |-> FALSE, headers_sent |-> FALSE]

\* Some of the preface is missing, or of a header, or of the frame behind it.
InPreface == read \in {"nothing", "some"}
InFrames  == read \in {"preface", "header"}

ReplayTypeOK ==
  /\ InPreface \/ InFrames
  /\ inner \in BOOLEAN /\ late \in BOOLEAN
  /\ theirs \in [Streams -> {"idle", "open", "ended", "amiss"}]
  /\ streams \in [Streams -> Record]
  /\ ours \in [Streams -> {"idle", "open", "ended", "broken"}]

ReplayInit ==
  /\ read = "nothing" /\ inner = FALSE /\ late = FALSE
  /\ theirs = [s \in Streams |-> "idle"]
  /\ streams = [s \in Streams |-> Fresh("none")]
  /\ ours = [s \in Streams |-> "idle"]

Tracked == {s \in Streams : streams[s].mode # "none"}
Room == Cardinality(Tracked) < MaxStreams

-----------------------------------------------------------------------------
(* What is sent.  A valid half is HEADERS, then DATA, then trailers.       *)

Headers(h)  == IF h = "idle" THEN "open" ELSE "broken"
Data(h)     == IF h = "open" THEN "open" ELSE "broken"
Trailers(h) == IF h = "open" THEN "ended" ELSE "broken"

Opened(r, h) == IF r.headers_sent THEN h ELSE Headers(h)

RespondUnary(s, r) ==
  /\ ours' = [ours EXCEPT ![s] = Trailers(Data(Headers(@)))]
  /\ streams' = [streams EXCEPT ![s] = [r EXCEPT !.responded = TRUE]]

\* Mutant: the error is not remembered as the response.
RespondUnaryErrorAgain(s, r) ==
  /\ ours' = [ours EXCEPT ![s] = Trailers(Opened(r, @))]
  /\ streams' = [streams EXCEPT ![s] = [r EXCEPT !.headers_sent = TRUE]]

RespondUnaryError(s, r) ==
  /\ ours' = [ours EXCEPT ![s] = Trailers(Opened(r, @))]
  /\ streams' = [streams EXCEPT ![s] = [r EXCEPT !.responded = TRUE, !.headers_sent = TRUE]]

RespondStream(s, r) ==
  /\ ours' = [ours EXCEPT ![s] = Data(Opened(r, @))]
  /\ streams' = [streams EXCEPT ![s] = [r EXCEPT !.headers_sent = TRUE]]

NoResponse(s, r) ==
  /\ streams' = [streams EXCEPT ![s] = r]
  /\ UNCHANGED ours

-----------------------------------------------------------------------------
(* The loops.                                                              *)

\* The outer loop, which has not found the connection idle.
Turn ==
  /\ ~inner /\ ~late
  /\ inner' = TRUE
  /\ UNCHANGED <<read, late, halves>>

\* Mutant: a timeout in the middle of the preface does not leave the inner loop.
TimesOutSpinning ==
  /\ inner /\ InFrames
  /\ inner' = FALSE
  /\ UNCHANGED <<read, late, halves>>

\* recv has waited for half a second: back to the outer loop.
TimesOut ==
  /\ inner
  /\ inner' = FALSE
  /\ UNCHANGED <<read, late, halves>>

\* Time passes.
Expire ==
  /\ ~late /\ late' = TRUE
  /\ UNCHANGED <<read, inner, halves>>

\* Bytes put idle_deadline off, and bring what is waited for or less.
Receive ==
  /\ inner /\ late' = FALSE
  /\ \/ InPreface /\ read' \in {"some", "preface"}
     \/ InFrames /\ read' \in {read, "header"}
  /\ UNCHANGED <<inner, halves>>

-----------------------------------------------------------------------------
(* The frames.                                                             *)

\* A frame is whole, with bytes that have just come or came earlier; after it
\* the outer loop goes on.
WholeFrame ==
  /\ inner /\ InFrames
  /\ read' = "preface" /\ inner' = FALSE
  /\ late' \in {late, FALSE}

\* The client's half after HEADERS, DATA and RST_STREAM.  HEADERS that end an
\* open stream are trailers, and name no method.
AfterHeaders(h, ends, method) ==
  IF h = "idle" \/ (h = "open" /\ ends /\ method = "none")
  THEN IF ends THEN "ended" ELSE "open"
  ELSE "amiss"
AfterData(h, ends) == IF h # "open" THEN "amiss" ELSE IF ends THEN "ended" ELSE "open"
AfterReset(h) == IF h \in {"open", "ended"} THEN "ended" ELSE "amiss"

\* The method is one of streaming_methods or another.  It is looked for in the
\* header block as it was sent, compressed, and may not be found.  A record of
\* the stream is replaced.
HeadersFrame(s) ==
  \E ends \in BOOLEAN, method \in {"none", "unary", "streaming"} :
    LET r == Fresh(method) IN
    /\ theirs' = [theirs EXCEPT ![s] = AfterHeaders(@, ends, method)]
    /\ IF method = "none" \/ ~Room THEN UNCHANGED <<streams, ours>>
       ELSE IF ~ends THEN NoResponse(s, r)
       ELSE IF r.mode = "streaming" THEN RespondStream(s, r)
       ELSE RespondUnary(s, r)

\* Too many streams are tracked already.
Drops(s) == s \notin Tracked /\ ~Room

\* A stream of which there is no record, because HEADERS made none or RST_STREAM
\* has removed it, is taken for a unary call.
DataFrame(s) ==
  \E ends \in BOOLEAN, negative \in BOOLEAN :
    LET r == IF s \in Tracked THEN streams[s] ELSE Fresh("unary") IN
    /\ theirs' = [theirs EXCEPT ![s] = AfterData(@, ends)]
    /\ IF Drops(s) THEN UNCHANGED <<streams, ours>>
       ELSE IF negative /\ ~r.responded THEN RespondUnaryError(s, r)
       ELSE IF r.mode = "streaming" THEN RespondStream(s, r)
       ELSE IF ~r.responded THEN RespondUnary(s, r)
       ELSE NoResponse(s, r)

ResetFrame(s) ==
  /\ theirs' = [theirs EXCEPT ![s] = AfterReset(@)]
  /\ streams' = [streams EXCEPT ![s] = Fresh("none")]
  /\ UNCHANGED ours

\* SETTINGS, PING and WINDOW_UPDATE touch no stream.
Frame ==
  /\ WholeFrame
  /\ \/ \E s \in Streams : HeadersFrame(s) \/ DataFrame(s) \/ ResetFrame(s)
     \/ UNCHANGED halves

\* The loop returns: its variables are gone, and so is the connection.
Forget ==
  /\ read' = "nothing" /\ inner' = FALSE /\ late' = FALSE
  /\ theirs' = [s \in Streams |-> "idle"]
  /\ streams' = [s \in Streams |-> Fresh("none")]
  /\ ours' = [s \in Streams |-> "idle"]

ReplayNext == \/ Turn \/ TimesOut \/ Expire \/ Receive \/ Frame
              \/ (~inner /\ late /\ Forget)

\* One connection by itself, and then the next.
ReplaySpec == ReplayInit /\ [][ReplayNext]_replay

-----------------------------------------------------------------------------
\* What the sink sends on a call that it takes for a unary one is one response and
\* nothing after it, as long as the client obeys the protocol on that stream and
\* whatever else it sends: however many messages, with or without one that calls
\* for the error, with trailers or a reset, and whether or not its HEADERS could
\* be read (respond_unary, respond_unary_error).  To a client that begins a call
\* again on the same stream, or goes on after its end, nothing is promised: the
\* record is made anew, and the call answered again.
UnaryFraming ==
  \A s \in Streams :
    streams[s].mode = "unary" /\ theirs[s] # "amiss" => ours[s] # "broken"
=============================================================================
