CONSTANTS
  cpu = cpu
  tester = tester
  copy = copy
  fresh = fresh
  Null = Null
  Simple <- OneCpu
  Aligned <- OneTester
  Copies <- OneCopy
  Defaults <- OneFresh
  Value <- MCValue
SPECIFICATION Spec
INVARIANTS WorksOnOwnMemory
CHECK_DEADLOCK FALSE
