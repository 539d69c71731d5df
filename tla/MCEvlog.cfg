SPECIFICATION Spec
CONSTANTS
  Base = 8
  Groups = 3
  Wide = 256
  Magic <- MCMagic
  HeaderRest <- MCHeaderRest
  Events <- MCEvents
  BufCap = 6
  MaxRecordLen = 9
  MaxEvents = 3
  MaxSessions = 2
  MaxFaults = 1
INVARIANTS
  ReadsBackInOrder
  DurableIsRead
  ReplayClock
CHECK_DEADLOCK FALSE
