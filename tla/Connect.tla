------------------------------ MODULE Connect ------------------------------
(***************************************************************************)
(* How the models of a configuration come to life                          *)
(* (engine/src/simulation_state_connect.cpp): simulators in their order,   *)
(* then vehicles and, within a vehicle, components, in as many passes over *)
(* their lists as their dependencies need, then controllers.               *)
(*                                                                         *)
(* A ModelError sends the machine to Abort ("aborted"): those in the       *)
(* creation of a model are caught in the state, the one for a vehicle that *)
(* never gets its source by run_machine.  Any other exception ends the run *)
(* ("uncaught").                                                           *)
(* A component is a pair: the vehicle or simulator that made it, and its   *)
(* identifier there.                                                       *)
(***************************************************************************)
EXTENDS Stack

VARIABLES
  simulators,   \* how many simulators have been created
  vehicles,     \* vehicle name -> (key -> component)
  controllers,  \* how many controllers have been created
  next,         \* place in the list of vehicles in this pass
  before,       \* how many vehicles there were when the pass began
  building      \* the vehicle under construction, as a set
connectVars == <<simulators, vehicles, controllers, next, before, building>>
vars == <<stackVars, connectVars>>

ConnectInit ==
  /\ Init
  /\ simulators = 0 /\ vehicles = <<>> /\ controllers = 0
  /\ next = 1 /\ before = 0 /\ building = {}

Leave(p) ==
  /\ phase' = p
  /\ UNCHANGED <<disk, args, merged, frames, stack, loaded, prototype, scanned>>

\* An exception out of the creation of a model: ABORT.
ModelError == Leave("aborted") /\ UNCHANGED connectVars

NewSimulator ==
  /\ phase = "simulators" /\ simulators < Len(stack.simulators)
  /\ \/ /\ simulators' = simulators + 1
        /\ UNCHANGED <<stackVars, vehicles, controllers, next, before, building>>
     \/ ModelError

SimulatorsDone ==
  /\ phase = "simulators" /\ simulators = Len(stack.simulators)
  /\ Leave("vehicles")
  /\ UNCHANGED connectVars

-----------------------------------------------------------------------------
\* The vehicle a conf starts from, with its components; none if that vehicle
\* has not been created yet, or if the simulator has no such vehicle.
Prototype(v) ==
  IF v.source = "simulator" THEN {[k \in Default |-> <<v.from, k>>]}
  ELSE IF v.from \in DOMAIN vehicles THEN {vehicles[v.from]} ELSE {}

SimulatorIds == {stack.simulators[i].id : i \in 1 .. simulators}

\* One round of the loop over the vehicles.
NewVehicle ==
  LET v == stack.vehicles[next]
  IN /\ phase = "vehicles" /\ building = {} /\ next <= Len(stack.vehicles)
     /\ \/ /\ v.name \in DOMAIN vehicles \/ Prototype(v) = {}
           /\ next' = next + 1
           /\ UNCHANGED <<stackVars, simulators, vehicles, controllers, before, building>>
        \/ /\ v.name \notin DOMAIN vehicles
           /\ v.source = "simulator" => v.from \in SimulatorIds
           /\ building' = {[conf |-> v, parts |-> p, done |-> {}, next |-> 1, before |-> 0] :
                             p \in Prototype(v)}
           /\ building' # {}
           /\ UNCHANGED <<stackVars, simulators, vehicles, controllers, next, before>>
        \/ \* the simulator has no vehicle by this name or at this index; a
           \* simulator that is not there is an error of ctx.simulators.at()
           /\ v.name \notin DOMAIN vehicles /\ v.source = "simulator"
           /\ Leave(IF v.from \in SimulatorIds THEN "aborted" ELSE "uncaught")
           /\ UNCHANGED connectVars

\* One round of the loop over the components of the vehicle under construction.
NewComponent == \E b \in building :
  LET x == b.conf.components[b.next]
  IN /\ phase = "vehicles" /\ b.next <= Len(b.conf.components)
     /\ \/ /\ x.key \in b.done \/ ~(x.from \subseteq DOMAIN b.parts)
           /\ building' = {[b EXCEPT !.next = @ + 1]}
           /\ UNCHANGED <<stackVars, simulators, vehicles, controllers, next, before>>
        \/ /\ x.key \notin b.done /\ x.from \subseteq DOMAIN b.parts
           /\ building' = {[b EXCEPT !.next = @ + 1, !.done = @ \cup {x.key},
                !.parts = [k \in DOMAIN @ \cup {x.key} |->
                             IF k = x.key THEN <<b.conf.name, x.id>> ELSE @[k]]]}
           /\ UNCHANGED <<stackVars, simulators, vehicles, controllers, next, before>>
        \/ /\ x.key \notin b.done /\ x.from \subseteq DOMAIN b.parts
           /\ ModelError

\* The end of a pass over the components: another one if this one has made
\* progress, an error if not, and the vehicle itself when all are there.
ComponentsPassed == \E b \in building :
  LET n == Len(b.conf.components)
      m == Cardinality(b.done)
  IN /\ phase = "vehicles" /\ b.next > n
     /\ \/ /\ m # n /\ m # b.before
           /\ building' = {[b EXCEPT !.next = 1, !.before = m]}
           /\ UNCHANGED <<stackVars, simulators, vehicles, controllers, next, before>>
        \/ /\ m = n
           /\ vehicles' = [k \in DOMAIN vehicles \cup {b.conf.name} |->
                             IF k = b.conf.name THEN b.parts ELSE vehicles[k]]
           /\ building' = {}
           /\ next' = next + 1
           /\ UNCHANGED <<stackVars, simulators, controllers, before>>
        \/ \* a dependency that does not resolve, or the vehicle's own connect()
           /\ m = n \/ m = b.before
           /\ ModelError

\* A pass over the vehicles that has made none of those that are missing.
Stuck ==
  /\ phase = "vehicles" /\ building = {} /\ next > Len(stack.vehicles)
  /\ Cardinality(DOMAIN vehicles) = before /\ before # Len(stack.vehicles)

\* The end of a pass over the vehicles.
VehiclesPassed ==
  LET n == Len(stack.vehicles)
      m == Cardinality(DOMAIN vehicles)
  IN /\ phase = "vehicles" /\ building = {} /\ next > n
     /\ \/ /\ m = n
           /\ Leave("controllers")
           /\ UNCHANGED connectVars
        \/ /\ m # n /\ m # before
           /\ next' = 1 /\ before' = m
           /\ UNCHANGED <<stackVars, simulators, vehicles, controllers, building>>
        \/ Stuck /\ ModelError

-----------------------------------------------------------------------------
NewController ==
  /\ phase = "controllers" /\ controllers < Len(stack.controllers)
  /\ LET x == stack.controllers[controllers + 1]
     IN \/ /\ x.vehicle \in DOMAIN vehicles
           /\ controllers' = controllers + 1
           /\ UNCHANGED <<stackVars, simulators, vehicles, next, before, building>>
        \/ \* its own error, or that of ctx.vehicles.at()
           /\ Leave(IF x.vehicle \in DOMAIN vehicles THEN "aborted" ELSE "uncaught")
           /\ UNCHANGED connectVars

ControllersDone ==
  /\ phase = "controllers" /\ controllers = Len(stack.controllers)
  /\ Leave("connected")
  /\ UNCHANGED connectVars

Next ==
  \/ StackNext /\ UNCHANGED connectVars
  \/ NewSimulator \/ SimulatorsDone
  \/ NewVehicle \/ NewComponent \/ ComponentsPassed \/ VehiclesPassed
  \/ NewController \/ ControllersDone

\* The whole of it runs in one thread, which keeps running.
Spec == ConnectInit /\ [][Next]_vars /\ WF_vars(Next)

-----------------------------------------------------------------------------
Loaded == phase \notin {"load", "validate", "failed"}
LastFile == args[Len(args)]
Gives(f, s, k) == f \in DOMAIN disk /\ s \in DOMAIN disk[f] /\ k \in DOMAIN disk[f][s]
LeaveGiven == \E f \in File : /\ Gives(f, "engine", "ignore_failure")
                             /\ disk[f]["engine"]["ignore_failure"]
Listed(p) == \E c \in ToSet(stack.plugins) :
               p = c.path \/ (c.path \in DOMAIN Directory /\ p \in Directory[c.path])

(* Hazard: files that include each other, vehicles that wait for each       *)
(* other, components that wait for each other.  Whatever the files say,     *)
(* merging them and connecting what they describe comes to an end.          *)
LoadEnds == <>(phase \in {"failed", "connected", "aborted", "uncaught"})

(* Hazard: what is validated when the files are merged is trusted when the  *)
(* models are created.  A configuration that has passed the validation      *)
(* never ends the run by an exception that is no ModelError; and it is      *)
(* found to have a vehicle that never gets its source only if some vehicle  *)
(* is a copy of itself, which the validation lets pass.                     *)
ConsistentConnects ==
  /\ phase # "uncaught"
  /\ Stuck => \E v \in ToSet(stack.vehicles) : v.source = "vehicle" /\ v.from = v.name

(* Hazard: the included files are applied between two parts of the file     *)
(* that includes them.  What the last file of the command line says of the  *)
(* simulation holds in the end, whatever it includes and whatever was       *)
(* merged before.                                                           *)
OwnWins ==
  Loaded /\ "simulation" \notin stack.ignore =>
    \A k \in DOMAIN stack.simulation :
      Gives(LastFile, "simulation", k) => stack.simulation[k] = disk[LastFile]["simulation"][k]

(* Hazard: the plugin path is scanned again for every file, in an order     *)
(* the file system chooses, and a plugin that comes second to a name stays  *)
(* loaded and is never used.  As long as nobody gave leave to ignore a      *)
(* failure, every plugin that has come from the plugin path alone is the    *)
(* one that its name stands for: a scan hides none silently.                *)
NoneHidden ==
  phase # "failed" /\ ~LeaveGiven =>
    \A p \in loaded \ BuiltInPaths :
      \/ Listed(p)
      \/ LET names == prototype[Library[p].type]
         IN Library[p].name \in DOMAIN names /\ names[Library[p].name] = p

=============================================================================
