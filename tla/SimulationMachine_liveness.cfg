SPECIFICATION FairSpec
CONSTANTS
  s1 = s1
  v1 = v1
  c1 = c1
  c2 = c2
  Simulators <- NoModels
  Vehicles <- NoModels
  Controllers <- OneController
  Configs <- HeadlessRuns
  MaxRequests = 3
  MaxFaults = 1
  MaxSignals = 4
INVARIANT TempServerFree
PROPERTIES AbortEnds StopEnds ResumeLeaves
