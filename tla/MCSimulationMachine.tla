------------------------ MODULE MCSimulationMachine ------------------------
(* Small instances of SimulationMachine for TLC.                           *)
EXTENDS SimulationMachine, TLC

CONSTANTS s1, v1, c1, c2

OneSimulator   == {s1}
OneVehicle     == {v1}
OneController  == {c1}
NoModels       == {}
TwoControllers == {c1, c2}

Symmetry == Permutations(TwoControllers)

\* Configurations of run(), without and with the watchdog, and of probe().
RunConfig(l, w, a, k, p) ==
  [listen |-> l, watchdog |-> w, abortOnFailure |-> a, keepAlive |-> k, probe |-> p]

PlainRun     == {RunConfig(TRUE, FALSE, TRUE, FALSE, FALSE)}
HeadlessRuns == {RunConfig(FALSE, FALSE, FALSE, k, FALSE) : k \in BOOLEAN}
Probe        == RunConfig(FALSE, FALSE, TRUE, FALSE, TRUE)
Runs         == HeadlessRuns \cup {Probe}
FailingRuns  == {RunConfig(FALSE, w, a, w # a, FALSE) : w, a \in BOOLEAN}
AllRuns      == Runs \cup FailingRuns

=============================================================================
