SPECIFICATION Spec
CONSTANTS
  None = None
  Nothing = Nothing
  Wide = 1000
  Narrow = 1000
  PerMs = 1
  MaxAllocs = 1
  MaxRelays = 1
  MaxServers = 2
  Configured <- MCConfigured
  MaxStreamBuf = 12
  IdleUs = 2
  Connections <- MCConnections
  Flows <- MCFlows
  Ssrcs = {1, 2}
  Stuns <- MCStuns
  Configs <- MCConfigs
  LossOf <- MCLossOf
  MaxDiagnostics = 2
  MaxStreams = 2
  MaxSamples = 1
  Scenes <- MCScenes
  MaxSegment = 2
  MaxBack = 8
  MaxTime = 2
INVARIANTS
  RatesFollowSdp
  OneWayIsOneWay
  RouteWarningsSound
  RelaysKnown
  SamplesNewest
  StreamsFramed
PROPERTIES
  MaintenanceBounds
CHECK_DEADLOCK FALSE
