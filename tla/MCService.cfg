\* Events: three of them, two replicas with or without database replay, one browser
\* that connects twice; channel, replay and history are as short as they can be.
\* Starting: three replicas, three migrations. Stopping: two requests, a stream, two
\* workers.
SPECIFICATION ServiceSpec
CONSTANTS
  Publications = 3
  Replicas = {r1, r2}
  Browsers = {c1}
  None = None
  ChannelSize = 1
  ReplayLimit = 1
  HistoryLimit = 1
  MaxConnects = 2
  MaxFaults = 1
  Processes = {p1, p2, p3}
  NoProcess = None
  Newest = 3
  Calls = {q1, q2}
  Streams = {c1}
  Loops = {w1, w2}
  Listener = None
SYMMETRY ReplicaSymmetry
CHECK_DEADLOCK FALSE
INVARIANTS
  ServiceTypeOK
  NoGap
  RepeatedOnlyInDoubt
  MigrationsInOrder
  StopsInOrder
