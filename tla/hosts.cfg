SPECIFICATION HostsSpec
CONSTANTS
  Paths = {p1, p2}
  Default = p1
  Requests = {r1, r2}
  MaxPatches = 2
  MoveFaults = {"copy", "docker", "late", "forget", "default", "remove", "crash"}
  Names = {n1, n2}
  First = 1
  Games = {3}
  Udps = {2}
  Foreign = {1}
  Mounts = {"own", "inside", n1}
  PlacementFaults = {"copy", "docker", "late", "stop", "throw"}
  MaxRequests = 4
  Keep = 1
  Overlap = "restoreAlone"
  Faults = {"extract", "docker", "throw"}
  Servers = {s1, s2}
  Runs = 2
  Breaks = 1
  PollFaults = 1
  Delay = 2
  Lists = 2
  Outages = 2
  Processes = 2
INVARIANTS HostsTypeOK MovesHold RowsTrue BackupsHold ToldTruly
PROPERTIES NeverAnew RetentionSpares
CHECK_DEADLOCK FALSE
