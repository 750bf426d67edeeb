SPECIFICATION Spec
CONSTANTS
  Kinds <- SomeKinds
  Conditional <- DataOnly
  MaxTriggers = 3
  MaxTime = 3
INVARIANTS OnePlace InOrder
PROPERTIES BoardSpec DueBeforeModels
