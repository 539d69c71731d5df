SPECIFICATION Spec
CONSTANTS
  None = None
  Alice = Alice
  Bob = Bob
  Messages <- AllMessages
  Times = {0, 3}
  Wide = 16
  Narrow = 4
  PerMs = 2
INVARIANTS
  TypeOK
  StateHasEvidence
  TimingsMatchTimeline
PROPERTIES
  MilestonesWrittenOnce
