SPECIFICATION Spec
CONSTANTS
  h1 = h1
  h2 = h2
  s1 = s1
  s2 = s2
  Ips = {h1, h2}
  Streams = {s1, s2}
  Src <- MCSrc
  Dst <- MCDst
  Dialogs = {1}
  Messages = {"INVITE", "BYE", "CANCEL"}
  Responses <- MCResponses
  FineWidth = 1
  FineRetain = 2
  CoarseWidth = 2
  CoarseRetain = 2
  Widths = {1, 2}
  SeriesRetain = 2
  AttrPeriod = 1
  FlushPeriod = 2
  IdleAfter = 2
  HeatWidth = 2
  HeatRetain = 2
  MaxTime = 3
  MaxSkew = 1
  MaxEvents = 3
SYMMETRY MCSymmetry
INVARIANTS
  PacketsAttributed
  LossCovered
  RingsExact
  SipCountsSound
CHECK_DEADLOCK FALSE
