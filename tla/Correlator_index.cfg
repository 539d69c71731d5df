SPECIFICATION Spec
CONSTANTS
  None = None
  Alice = Alice
  Bob = Bob
  ea = ea
  eb = eb
  Wide = 16
  Narrow = 16
  PerMs = 1
  CallIds = {c1, c2}
  Ips <- MCIps
  Endpoints <- MCEndpoints
  Keys <- MCKeys
  Messages <- OfferAndEnd
  Matching = {c1, c2}
  KeepTerminated = TRUE
  Ttl = 1
  MaxCalls = 1
  MaxStreams = 1
  PinMax = 1
  FocusHints <- AnyFocus
  Filters = {TRUE}
  MaxTs = 3
  MaxCount = 2
SYMMETRY CallSymmetry
INVARIANTS
  Coherent
  ActiveCoversCalls
PROPERTIES
  CapacityRestored
  PinnedSurvive
