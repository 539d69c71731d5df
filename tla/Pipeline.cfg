SPECIFICATION Spec
CONSTANTS
  Modes = {"capture", "replay", "jsonl"}
  Sources = {"live", "file", "stdin"}
  Batch = 2
  Hints = {None, h1}
  Queries = {None, q1}
  None = None
  Unpublished = Unpublished
  MaxFrames = 2
  MaxKeys = 2
INVARIANTS
  EventsConserved
  CompleteAtExit
  NoStaleCounts
PROPERTIES
  StopEndsWorker
  RequestsNoticed
CHECK_DEADLOCK FALSE
