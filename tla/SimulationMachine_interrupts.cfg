SPECIFICATION Spec
CONSTANTS
  s1 = s1
  v1 = v1
  c1 = c1
  c2 = c2
  Simulators <- OneSimulator
  Vehicles <- NoModels
  Controllers <- TwoControllers
  Configs <- AllRuns
  MaxRequests = 2
  MaxFaults = 2
  MaxSignals = 1
SYMMETRY Symmetry
INVARIANTS TypeOK VerdictAfterStop ProcessOnlyStarted EndDisconnects
PROPERTIES EndIsFinal PauseBetweenSteps LifecycleSpec
