SPECIFICATION FairSpec
CONSTANTS
  Streams = {}
  MaxStreams = 1
  Conns = {c1, c2}
  Acceptors = {a4}
  TlsClients = {c2}
  Mitm = TRUE
  SinkType = "h2-grpc-replay"
  Decoys = {"canary"}
  Secrets = {}
  Heuristics = TRUE
  Iocs = TRUE
  Emitted <- MCEmitted
  Command <- MCCommand
  Url = "url"
  MaxEmitted = 1
  MaxFaults = 1
CHECK_DEADLOCK FALSE
INVARIANTS Truthful Complete OneReport
PROPERTIES SilentEnds Finalized
