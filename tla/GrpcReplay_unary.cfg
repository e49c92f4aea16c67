SPECIFICATION ReplaySpec
CONSTANTS
  Streams = {s1, s2, s3}
  MaxStreams = 2
INVARIANT UnaryFraming
