SPECIFICATION Spec
CONSTANTS
  None = None
  Alice = Alice
  Bob = Bob
  ea = ea
  eb = eb
  Wide = 16
  Narrow = 16
  PerMs = 1
  CallIds = {c1, c2}
  Ips <- MCIps
  Endpoints <- MCEndpoints
  Keys <- NoKeys
  Messages <- Signalling
  Matching = {c1, c2}
  KeepTerminated = TRUE
  Ttl = 0
  MaxCalls = 1
  MaxStreams = 1
  PinMax = 2
  FocusHints <- NoFocus
  Filters <- AnyFilter
  MaxTs = 3
  MaxCount = 2
PROPERTY FilterMatchesSurvive
