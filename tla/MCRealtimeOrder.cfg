\* Two events published at once by two replicas: is what the stream suppresses
\* known to the browser?
SPECIFICATION Spec
CONSTANTS
  Publications = 2
  Replicas = {r1, r2}
  Browsers = {c1}
  None = None
  ChannelSize = 2
  ReplayLimit = 2
  HistoryLimit = 2
  MaxConnects = 1
  MaxFaults = 1
CHECK_DEADLOCK FALSE
PROPERTY
  SuppressedWasSent
