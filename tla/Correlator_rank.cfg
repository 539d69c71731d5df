SPECIFICATION Spec
CONSTANTS
  None = None
  Alice = Alice
  Bob = Bob
  ea = ea
  eb = eb
  Wide = 16
  Narrow = 16
  PerMs = 1
  CallIds = {c1, c2}
  Ips <- MCIps
  Endpoints <- MCEndpoints
  Keys <- NoKeys
  Messages <- Signalling
  Matching = {}
  KeepTerminated = TRUE
  Ttl = 0
  MaxCalls = 1
  MaxStreams = 1
  PinMax = 1
  FocusHints <- NoFocus
  Filters <- NoFilter
  MaxTs = 3
  MaxCount = 2
PROPERTY TerminatedEvictedFirst
