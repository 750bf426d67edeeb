SPECIFICATION Spec
CONSTANTS
  a = a
  c = c
  p = p
  s1 = s1
  s2 = s2
  NoSignal = none
  Malformed = malformed
  Names <- SomeNames
  Declarable <- SomeDeclarable
  Slots <- SomeSlots
  Values <- SomeValues
  Matching <- SomeMatching
  Scripts <- SomeScripts
  Initial = 0
  MaxScripts = 2
  MaxWrites = 2
  MaxSubscribed = 1
SYMMETRY SlotSymmetry
INVARIANTS NamesAgree ReadsWritten RequiredBound
CHECK_DEADLOCK FALSE
