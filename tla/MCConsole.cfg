SPECIFICATION Spec
CONSTANTS
  Calls = {c1, c2}
  c1 = c1
  c2 = c2
  ip1 = ip1
  ip2 = ip2
  letter = letter
  Ips = {ip1, ip2}
  States = {"Active", "Completed"}
  None = None
  Blank = Blank
  Chars = {letter, Blank}
  Named = {c1}
  IpsOf <- MCIpsOf
  CallFilters <- MCCallFilters
  PageRows = 10
  MaxQuery = 2
  MaxKeys = 5
  MaxPublished = 2
INVARIANTS
  HintsFollowUi
PROPERTIES
  OpensHighlighted
CHECK_DEADLOCK FALSE
