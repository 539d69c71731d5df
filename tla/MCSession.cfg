SPECIFICATION Spec
CONSTANTS
  None = None
  Missing = None
  h1 = h1
  h2 = h2
  s1 = s1
  s2 = s2
  Wide = 64
  Narrow = 64
  PerMs = 1
  WindowWidth = 2
  Dialogs = {1}
  Messages <- MCMessages
  Keys = {s1, s2}
  CallOf <- MCCallOf
  FlowOf <- MCFlowOf
  Stamps <- MCStamps
  MaxSkew <- MCMaxSkew
  MaxEvents <- MCMaxEvents
  MaxDamage = 1
INVARIANTS
  ReportsAgree
  DamageIsLocal
  OutcomesCounted
  TablesAddUp
CHECK_DEADLOCK FALSE
