-------------------------------- MODULE Drive --------------------------------
(***************************************************************************)
(* The data path of one time step: simulator, vehicle, controllers.        *)
(*                                                                         *)
(* The engine calls the ESMini simulator, then every vehicle, then every   *)
(* controller (simulation_state_step_simulators.cpp, _controllers.cpp).    *)
(* The simulator reads its scene into the environment data, applies the    *)
(* targets that controllers left in the actuator component and steps the   *)
(* scenario.  The vehicle clears the caches of its components.  The basic  *)
(* controller updates its HMI and runs ACC, LKA and AEB, which read the    *)
(* world sensor through its wrappers and write the actuator.  In between,  *)
(* actions and HTTP requests press contacts of the HMI.                    *)
(***************************************************************************)
EXTENDS Hmi

CONSTANTS
    Configs,      \* stacks; with the contacts that actions and requests use,
                  \* and a bound on the steps of the simulation
    RetryLimit    \* controller_retry_limit

ASSUME DriveAssumption ==
    /\ Configs \subseteq [driver : BOOLEAN, fullStop : BOOLEAN, noisy : BOOLEAN,
                          ghost : BOOLEAN, abortOnFailure : BOOLEAN,
                          pressed : SUBSET Contacts, steps : Nat]
    /\ RetryLimit \in Nat
    /\ PushButtons \cap {"aeb", "enable", "lka"} = {}    \* those are switches

Obstacles == {"none", "far", "near"}    \* closest object ahead of the ego vehicle
Unset     == [by |-> "unset"]           \* an empty optional
Empty     == [at |-> 0]                 \* an empty cache

VARIABLES
    config,
    step,         \* sync.step()
    phase,        \* the state of the engine, or how the simulation ended
    env,          \* ESMini's scene, as it was read in step env.at
    cache,        \* objects_ of the two wrappers of the object sensor
    target,       \* targets of the actuator component
    hmi,          \* contacts of the basic controller
    assist,       \* the flags of ACC, LKA and AEB that are set: ACC is enabled,
                  \* active, has a target speed; AEB, LKA are enabled
    fullStop,     \* full_stop_activated
    controllers,  \* the names in ctx.controllers, a map
    queue,        \* names the loop of StepControllers has still to reach, in order
    retries,      \* calls of the controller that is next that came too early
    asleep,       \* the loop sleeps before it calls the controller again
    presses       \* history: activations of each contact since it was pushed

world  == <<env, cache, target>>
basic  == <<hmi, assist, fullStop, presses>>
loop   == <<controllers, queue, retries, asleep>>
vars   == <<config, step, phase, world, basic, loop>>

Scenes    == [obstacle : Obstacles, still : BOOLEAN, at : Nat]
Targets   == {Unset} \cup [by : {"acc", "lka", "aeb", "driver"}, at : Nat, from : Nat]

TypeOK ==
    /\ config \in Configs /\ step \in 1 .. config.steps + 1
    /\ phase \in {"simulators", "vehicles", "controllers", "failed"}
    /\ env \in Scenes /\ env.at \in 0 .. step
    /\ cache \in [filter : {Empty} \cup Scenes, noisy : {Empty} \cup Scenes]
    /\ target \in [acceleration : Targets, steering : Targets]
    /\ hmi \in [Contacts -> ContactType]
    /\ assist \subseteq {"enabled", "active", "hasTarget", "aeb", "lka"}
    /\ presses \in [Contacts -> [since : Nat, count : Nat]]
    /\ controllers \subseteq {"basic", "other"} /\ queue \subseteq controllers
    /\ retries \in 0 .. RetryLimit /\ asleep \in BOOLEAN /\ fullStop \in BOOLEAN

\* AEB starts enabled, ACC and LKA do not.
Starts == {"aeb"}

\* At rest, between Connect and the first step.
Init ==
    /\ config \in Configs
    /\ step = 1 /\ phase = "simulators"
    /\ env = [obstacle |-> "none", still |-> TRUE, at |-> 0]
    /\ cache = [filter |-> Empty, noisy |-> Empty]
    /\ target = [acceleration |-> Unset, steering |-> Unset]
    /\ fullStop = FALSE
    /\ assist = Starts
    /\ hmi = [b \in Contacts |-> Contact(b = "aeb")]
    /\ presses = [b \in Contacts |-> [since |-> 0, count |-> 0]]
    /\ controllers = {"basic", "other"} /\ queue = {}
    /\ retries = 0 /\ asleep = FALSE

----------------------------------------------------------------------------
(* The simulator.                                                          *)

\* get_target_actuation: a controller's target, or else the driver model's,
\* which throws when the scenario has no ghost vehicle.
Actuation(t)  == IF t = Unset THEN [by |-> "driver model"] ELSE t
DriverModelOk == Unset \in {target.acceleration, target.steering} => config.ghost

\* Read the scene (esmini_get_environment_data), apply the targets
\* (esmini_step_ego_position), step the scenario, which may fail.
StepSimulators ==
    /\ phase = "simulators" /\ step <= config.steps
    /\ \E o \in Obstacles, still \in BOOLEAN :
          env' = [obstacle |-> o, still |-> still, at |-> step]
    /\ \/ DriverModelOk /\ phase' \in {"vehicles", "failed"}
       \/ ~DriverModelOk /\ phase' = "failed"
    /\ UNCHANGED <<config, step, cache, target, basic, loop>>

----------------------------------------------------------------------------
(* The vehicle.                                                            *)

\* The component that each one wraps: NoisyObjectSensor, ObjectSensorFilter.
Wraps == [noisy |-> {"filter"}, filter |-> {"objects"}, objects |-> {}, control |-> {}, ego |-> {}]

\* components_ without its aliases: the component of the stack replaces the
\* default world sensor, so that the filter is only reached through it.
Components == {"ego", "control", "objects"} \cup {IF config.noisy THEN "noisy" ELSE "filter"}

\* Wrappers that clear their own cache only.
OuterOnly == Components

\* Vehicle::process calls each of them once; a wrapper calls what it wraps.
Processed == LET Inner(C) == UNION {Wraps[c] : c \in C}
             IN  Components \cup Inner(Components) \cup Inner(Inner(Components))

StepVehicles ==
    /\ phase = "vehicles"
    /\ cache'  = [c \in DOMAIN cache |-> IF c \in Processed THEN Empty ELSE cache[c]]
    /\ target' = IF "control" \in Processed THEN [acceleration |-> Unset, steering |-> Unset]
                                            ELSE target
    /\ phase' = "controllers" /\ queue' = controllers
    /\ UNCHANGED <<config, step, env, basic, controllers, retries, asleep>>

----------------------------------------------------------------------------
(* The basic controller.  A control function takes and yields what it may  *)
(* change: c.cache, c.target, c.fullStop, and c.thrown once it has thrown. *)

Outputs == [cache |-> cache, target |-> target, fullStop |-> fullStop, thrown |-> FALSE]

\* sensed_objects of the default world sensor: the wrappers fill their
\* caches; noise moves an object that is there.
Sense(c, moved) ==
    LET f == IF c.cache.filter # Empty THEN c.cache.filter ELSE env
        z == CASE c.cache.noisy # Empty   -> c.cache.noisy
               [] c.cache.noisy = Empty /\ f.obstacle # "none" -> [f EXCEPT !.obstacle = moved]
               [] OTHER -> f
    IN  IF config.noisy
        THEN [c EXCEPT !.cache.noisy = z,
                       !.cache.filter = IF c.cache.noisy # Empty THEN c.cache.filter ELSE f]
        ELSE [c EXCEPT !.cache.filter = f]

Sensed(c) == IF config.noisy THEN c.cache.noisy ELSE c.cache.filter

Accelerate(c, by, from) == [c EXCEPT !.target.acceleration = [by |-> by, at |-> step, from |-> from]]
Steer(c, by, from)      == [c EXCEPT !.target.steering = [by |-> by, at |-> step, from |-> from]]

\* A disabled function forwards the driver's request, if one is configured.
Forward(c, has, Set(_, _, _)) ==
    CASE c.thrown \/ ~config.driver -> c
      [] ~c.thrown /\ config.driver /\ has -> Set(c, "driver", step)
      [] OTHER -> [c EXCEPT !.thrown = TRUE]

AccControl(c, a, moved, has) ==
    IF ~{"enabled", "active"} \subseteq a THEN Forward(c, has, Accelerate)
    ELSE LET s == Sense(c, moved) IN Accelerate(s, "acc", Sensed(s).at)

LkaControl(c, a, moved, has) ==
    IF "lka" \notin a THEN Forward(c, has, Steer)
    ELSE LET s == Sense(c, moved)
         IN  IF Sensed(s).obstacle = "none" THEN s ELSE Steer(s, "lka", Sensed(s).at)

\* Braking that leaves the target of another function alone.
Yielding(c, a, moved, has) ==
    IF "aeb" \notin a THEN Forward(c, has, Accelerate)
    ELSE LET s    == Sense(c, moved)
             near == Sensed(s).obstacle = "near"
             full == c.fullStop \/ (near /\ config.fullStop)
             b    == IF (near \/ full) /\ s.target.acceleration = Unset
                     THEN Accelerate(s, "aeb", Sensed(s).at) ELSE s
         IN  [b EXCEPT !.fullStop = full /\ ~env.still]

AebControl(c, a, moved, has) ==
    IF "aeb" \notin a THEN Forward(c, has, Accelerate)
    ELSE LET s    == Sense(c, moved)
             near == Sensed(s).obstacle = "near"
             full == c.fullStop \/ (near /\ config.fullStop)
             b    == IF near \/ full THEN Accelerate(s, "aeb", Sensed(s).at) ELSE s
         IN  [b EXCEPT !.fullStop = full /\ ~env.still]

\* Flags that the functions of add_hmi and make_switch set, for an event.
Raises(b, e) ==
    CASE b \in {"enable", "aeb", "lka"} /\ e = "set" -> {IF b = "enable" THEN "enabled" ELSE b}
      [] b = "resume" /\ e = "single" -> {"active", "hasTarget"}
      [] b \in {"plus", "minus"} /\ e \in {"single", "repeat"} -> {"hasTarget"}
      [] OTHER -> {}

\* Enabling that forgets the target speed but not that ACC was active.
StaysActive(b, e) == IF b = "enable" /\ e = "set" THEN {"hasTarget"} ELSE {}

\* Flags that they reset.
Clears(b, e) ==
    CASE b = "enable" /\ e = "set"     -> {"active", "hasTarget"}
      [] b \in {"enable", "aeb", "lka"} /\ e = "unset" -> {IF b = "enable" THEN "enabled" ELSE b}
      [] b = "cancel" /\ e = "single"  -> {"active"}
      [] OTHER -> {}

OnEvent(a, b, e) == (a \ Clears(b, e)) \cup Raises(b, e)

\* ContactMap updates its contacts in the order of their names.
AfterHmi(events) ==
    LET Upd(a, b) == OnEvent(a, b, IF b \in Contacts THEN events[b] ELSE "none")
    IN  Upd(Upd(Upd(Upd(Upd(Upd(Upd(assist,
            "aeb"), "cancel"), "enable"), "lka"), "minus"), "plus"), "resume")

\* History: pushes and activations of the contacts in this update.
CountPresses(events) ==
    [b \in Contacts |->
        CASE hmi[b].state /\ ~hmi[b].active -> [since |-> step, count |-> 0]
          [] events[b] \in {"single", "repeat"} -> [presses[b] EXCEPT !.count = @ + 1]
          [] OTHER -> presses[b]]

\* A controller that throws an Error makes the engine abort, or go on
\* without it.
Dies(c) ==
    /\ retries' = 0
    /\ IF config.abortOnFailure
       THEN phase' = "failed" /\ queue' = {} /\ UNCHANGED controllers
       ELSE /\ queue' = queue \ {c} /\ controllers' = controllers \ {c}
            /\ UNCHANGED phase

Done(c) ==
    /\ queue' = queue \ {c} /\ retries' = 0
    /\ UNCHANGED <<phase, controllers>>

\* BasicController::process: the HMI, then the functions in their order, each
\* of them skipped once one has thrown.
StepBasic ==
    /\ phase = "controllers" /\ "basic" \in queue
    /\ \E events \in {UpdateEvents(hmi, step)} :
          /\ hmi' = UpdateMap(hmi, step)
          /\ presses' = CountPresses(events)
          /\ assist' = AfterHmi(events)
    /\ \E moved \in {"far", "near"}, has \in (IF config.driver THEN BOOLEAN ELSE {TRUE}) :
       \E acc \in {AccControl(Outputs, assist', moved, has)} :
       \E lka \in {IF acc.thrown THEN acc ELSE LkaControl(acc, assist', moved, has)} :
       \E aeb \in {IF lka.thrown THEN lka ELSE AebControl(lka, assist', moved, has)} :
          /\ cache' = aeb.cache /\ target' = aeb.target /\ fullStop' = aeb.fullStop
          /\ IF aeb.thrown THEN Dies("basic") ELSE Done("basic")
    /\ UNCHANGED <<config, step, env, asleep>>

----------------------------------------------------------------------------
(* The other controller, which may need several calls to reach the time.   *)

\* Retries that are counted anew for each call.
CountedAnew ==
    /\ phase = "controllers" /\ queue = {"other"} /\ ~asleep
    /\ \/ Done("other") /\ UNCHANGED asleep
       \/ asleep' = TRUE /\ UNCHANGED <<phase, controllers, queue, retries>>
    /\ UNCHANGED <<config, step, world, basic>>

\* A call that reaches the time of the step, one that does not and is the
\* last, and one that is followed by another.
StepOther ==
    /\ phase = "controllers" /\ queue = {"other"} /\ ~asleep
    /\ \/ Done("other") /\ UNCHANGED asleep
       \/ retries = RetryLimit /\ Dies("other") /\ UNCHANGED asleep
       \/ /\ retries # RetryLimit
          /\ retries' = retries + 1 /\ asleep' = TRUE
          /\ UNCHANGED <<phase, controllers, queue>>
    /\ UNCHANGED <<config, step, world, basic>>

Wake ==
    /\ asleep /\ asleep' = FALSE
    /\ UNCHANGED <<config, step, phase, world, basic, controllers, queue, retries>>

StepEnd ==
    /\ phase = "controllers" /\ queue = {}
    /\ step' = step + 1 /\ phase' = "simulators"
    /\ UNCHANGED <<config, world, basic, loop>>

\* An action of a trigger, or a request to /hmi/set.  Only the controller
\* reads the states, so that a press at any other time of the step amounts to
\* one before it.
Press ==
    /\ phase = "simulators" /\ step <= config.steps
    /\ \E b \in config.pressed : hmi' = UseContact(hmi, [x \in {b} |-> ~hmi[b].state])
    /\ UNCHANGED <<config, step, phase, world, assist, fullStop, presses, loop>>

Engine == StepSimulators \/ StepVehicles \/ StepBasic \/ StepOther \/ Wake \/ StepEnd
Next   == Engine \/ Press
Spec   == Init /\ [][Next]_vars /\ WF_vars(Engine)

----------------------------------------------------------------------------
(* Correctness.                                                            *)

\* An obstacle that is near when the simulator reads its scene in one step
\* is braked for in the next one, and a full stop is braked for until the
\* vehicle stands, whatever ACC and the driver ask for: AEB runs last, on
\* the scene of its own step, and nothing clears its target before the
\* simulator applies it.
BrakesInTime ==
    [][(/\ phase = "simulators" /\ phase' = "vehicles"
        /\ "aeb" \in assist /\ "basic" \in controllers /\ ~config.noisy
        /\ env.obstacle = "near" \/ fullStop)
       => Actuation(target.acceleration).by = "aeb"]_vars

\* Whatever target the simulator applies was set in the step before, from the
\* scene that was read in that step: no target and no cached object outlives
\* its step.
OneStepLatency ==
    [][\A t \in {target.acceleration, target.steering} :
          phase = "simulators" /\ phase' = "vehicles" /\ t # Unset
          => t.at = step - 1 /\ t.from = t.at]_vars

\* ACC is never active without a target speed, the assertion of
\* AdaptiveCruiseControl::control, however its contacts are used.
AccHasTarget == "active" \in assist => "hasTarget" \in assist

\* Activations that a push of so many steps is worth.
Worth(b, held) == IF b \in Repeating /\ held > Delay
                  THEN 1 + (held - Delay - 1) \div (Interval + 1) ELSE 1

\* The buttons that a step releases have run their functions as often as the
\* time they were held is worth.
Counts == \A b \in PushButtons : hmi[b].active /\ ~hmi'[b].active =>
             presses'[b].count = Worth(b, step - 1 - presses'[b].since)

\* A push that an update has seen is worth one click, or as many repeats as
\* the time it was held allows, by the time it is released.
PressCounted == [][Counts]_vars

\* A step in which a controller does not reach the time ends all the same,
\* because its calls are limited.
StepEnds == phase = "controllers" ~> phase # "controllers"
=============================================================================
