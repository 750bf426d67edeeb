--------------------------- MODULE ModelLifecycle ---------------------------
(***************************************************************************)
(* What cloe::Model (runtime/include/cloe/model.hpp) promises the author of *)
(* a model about the order in which its methods are called, whatever        *)
(* happens to the simulation: each model goes forward through its           *)
(* lifecycle, and one that is running is not disconnected before it was     *)
(* stopped, unless it said it cannot continue or was told to abort.         *)
(***************************************************************************)
CONSTANT Models

VARIABLES
  life,     \* how far each model's lifecycle methods have been called
  oper,     \* the models whose is_operational() holds
  aborted   \* the models whose abort() has been called

lifecycle == <<life, oper, aborted>>

Init ==
  /\ life = [m \in Models |-> "none"]
  /\ oper = {} /\ aborted = {}

Goes(m, from, to) == life[m] \in from /\ life' = [life EXCEPT ![m] = to]

Connect(m) == Goes(m, {"none"}, "connected") /\ UNCHANGED <<oper, aborted>>

Start(m) ==
  /\ Goes(m, {"connected"}, "started")
  /\ oper' = oper \cup {m}
  /\ UNCHANGED aborted

\* stop() is called again where the simulation is stopped again or reset, even of
\* a model that was disconnected, where the next one refused that; if it throws,
\* the model may stay operational.
Stop(m) ==
  /\ Goes(m, {"connected", "started", "stopped", "disconnected"}, "stopped")
  /\ oper' \in {oper, oper \ {m}}
  /\ UNCHANGED aborted

DropOut(m) == m \in oper /\ oper' = oper \ {m} /\ UNCHANGED <<life, aborted>>

\* abort() is called asynchronously, and of all models at once as far as the
\* others can tell.
Abort(S) ==
  /\ \A m \in S : life[m] # "none"
  /\ aborted' = aborted \cup S
  /\ \E D \in SUBSET S : oper' = oper \ D
  /\ UNCHANGED life

CutOff(m) == life[m] = "started" /\ m \in oper \ aborted

\* The last lines: a controller that failed is aborted and disconnected.
Disconnect(m) ==
  /\ Goes(m, {"connected", "started", "stopped", "disconnected"}, "disconnected")
  /\ \/ ~CutOff(m) /\ UNCHANGED <<oper, aborted>>
     \/ aborted' = aborted \cup {m} /\ oper' \in {oper, oper \ {m}}

Next ==
  \/ \E m \in Models : Connect(m) \/ Start(m) \/ Stop(m) \/ DropOut(m) \/ Disconnect(m)
  \/ \E S \in SUBSET Models : Abort(S)

Spec == Init /\ [][Next]_lifecycle

=============================================================================
