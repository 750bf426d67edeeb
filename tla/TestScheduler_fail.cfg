SPECIFICATION Spec
CONSTANTS
  t1 = t1
  t2 = t2
  t3 = t3
  t4 = t4
  None = none
  Tests <- SomeTests
  Begins <- SomeBegins
  Terminating <- Terminators
  MaxWait = 1
  MaxOps = 2
INVARIANT FailFails
CHECK_DEADLOCK FALSE
