SPECIFICATION ConnectionSpec
CONSTANTS
  Sockets = {w1, w2}
  Containers = {c1}
  Forwarders = {f1, f2}
  Keep = 1
  MaxLine = 2
  MaxQueue = 2
  Drops = 1
  Prompt = TRUE
  AgentKeep = 2
  Channel = 1
  Breaks = 1
  Servers = {s1, s2}
  Sessions = {x1, x2}
  Terminals = {t1}
  Requests = {r1, r2, r3}
  Shots = {k1, k2}
  Idle = 1
  Faults = 1
  NewestRelease = 3
  Checks = {u1, u2}
  Startup = u1
  Pushes = 1
INVARIANTS ConnectionTypeOK StreamsFollowViewers ViewsAgree SessionsKept UpdatesTold
PROPERTIES SessionsEnd Updated
CHECK_DEADLOCK FALSE
