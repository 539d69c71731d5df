SPECIFICATION Spec
CONSTANTS
  Base = 8
  Groups = 4
  Wide = 1024
  Nothing = Nothing
  MaxMsgs = 4
  Bodies <- MCBodies
  Frames <- MCFrames
  Datagrams <- MCDatagrams
  Scenes <- MCScenes
INVARIANTS
  BodiesRecovered
  FramesExact
  DatagramsDelivered
  LadderFollowsFlow
CHECK_DEADLOCK FALSE
