SPECIFICATION Spec
CONSTANTS
  t1 = t1
  t2 = t2
  s1 = s1
  Tasks = {t1, t2}
  Root = t1
  Fds = {3}
  Files = {"canary", "plain"}
  Decoys = {"canary"}
  Addrs = {"a", "b"}
  Socks = {s1}
CHECK_DEADLOCK FALSE
INVARIANTS PathsFollow FlowsFollow
PROPERTY DecoyWrites
