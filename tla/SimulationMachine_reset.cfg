SPECIFICATION Spec
CONSTANTS
  s1 = s1
  v1 = v1
  c1 = c1
  c2 = c2
  Simulators <- OneSimulator
  Vehicles <- OneVehicle
  Controllers <- OneController
  Configs <- PlainRun
  MaxRequests = 1
  MaxFaults = 0
  MaxSignals = 0
PROPERTY ResetRepeats
