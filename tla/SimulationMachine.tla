------------------------- MODULE SimulationMachine -------------------------
(***************************************************************************)
(* The simulation state machine of cloe-engine: the main loop that runs one *)
(* state after the other, the single interrupt slot that triggers, failing  *)
(* models and the SIGINT handler write to, the watchdog that gives up on a  *)
(* slow state, and what every state does to the models and to the context.  *)
(*                                                                         *)
(* A state is run in several steps: it is entered, the triggers it fires    *)
(* may request interrupts, its models are visited one by one, and it        *)
(* returns the next state or throws.  The SIGINT handler runs at any time.  *)
(* Where std::map fixes an order among models of one kind by their names,   *)
(* the model leaves that order open.                                        *)
(***************************************************************************)
EXTENDS Naturals, FiniteSets

CONSTANTS
  Simulators, Vehicles, Controllers,  \* the models, by kind
  Configs,        \* the configurations a run may start with
  MaxRequests,    \* bound: interrupts that triggers request in one run
  MaxFaults,      \* bound: models failing, callbacks throwing, timeouts
  MaxSignals      \* bound: SIGINTs sent by the user

Models == Simulators \cup Vehicles \cup Controllers

Config == [listen : BOOLEAN,            \* server.listen
           watchdog : BOOLEAN,          \* engine.watchdog_mode = Abort
           abortOnFailure : BOOLEAN,    \* simulation.abort_on_controller_failure
           keepAlive : BOOLEAN,         \* engine.keep_alive
           probe : BOOLEAN]             \* SimulationContext::probe_simulation

ASSUME ConfigAssumption == Configs \subseteq Config
ASSUME KindAssumption   == /\ Simulators \cap Vehicles = {}
                           /\ Simulators \cap Controllers = {}
                           /\ Vehicles \cap Controllers = {}
ASSUME BoundAssumption  == {MaxRequests, MaxFaults, MaxSignals} \subseteq Nat

None == "none"      \* nullptr: no state, no pending interrupt

StepStates == {"STEP_BEGIN", "STEP_SIMULATORS", "STEP_CONTROLLERS", "STEP_END"}
States     == StepStates \cup
              {"CONNECT", "PROBE", "START", "PAUSE", "RESUME", "SUCCESS", "FAIL",
               "ABORT", "STOP", "RESET", "KEEP_ALIVE", "DISCONNECT"}
\* The interrupts that trigger actions push.
Requests   == {"PAUSE", "RESUME", "STOP", "SUCCESS", "FAIL", "RESET"}
Interrupts == Requests \cup {"ABORT"}
Outcomes   == {"NoStart", "Aborted", "Stopped", "Failure", "Success", "Probing"}
Verdicts   == {"Success", "Failure"}
Life       == {"none", "connected", "started", "stopped", "disconnected"}

\* What a model may throw, named by the interrupt the machine answers it with:
\* ModelReset, ModelStop, or ModelError, ModelAbort and AsyncAbort.  "fatal" is
\* every other exception, which ends the run.
Throwable  == {"RESET", "STOP", "ABORT", "fatal"}

VARIABLES
  config,     \* the input configuration, constant throughout
  status,     \* "running", "done" or "crashed" (an exception left run())
  id,         \* the nominal next state of run_machine
  running,    \* the state being run, None at the top of the loop
  todo,       \* the models the running state has still to visit
  prev,       \* prev_state_
  slot,       \* interrupt_
  watched,    \* the running state was launched under the watchdog
  timedOut,   \* the watchdog has given up on the running state
  ctx,        \* the models in the context's maps
  life,       \* how far each model's lifecycle methods have been called
  oper,       \* the models whose is_operational() holds
  aborted,    \* the models whose abort() has been called
  toErase,    \* controllers_to_erase
  outcome,    \* ctx.outcome
  paused,     \* ctx.pause_execution
  keepAlive,  \* ctx.config.engine.keep_alive
  server,     \* Server::is_listening()
  initEnded,  \* progress.is_init_ended()
  signals,    \* SIGINTs handled so far
  requests,   \* interrupts requested by triggers so far
  faults      \* failures so far

machine == <<id, running, todo, prev, watched, timedOut>>
models  == <<ctx, life, oper, aborted, toErase>>
flags   == <<paused, keepAlive, server, initEnded>>
vars    == <<config, status, machine, slot, models, outcome, flags,
             signals, requests, faults>>

Init ==
  /\ config \in Configs
  /\ status = "running"
  /\ id = "CONNECT" /\ running = None /\ todo = {} /\ prev = None
  /\ slot = None
  /\ watched = FALSE /\ timedOut = FALSE
  /\ ctx = {} /\ oper = {} /\ aborted = {} /\ toErase = {}
  /\ life = [m \in Models |-> "none"]
  /\ outcome = None
  /\ paused = FALSE
  /\ keepAlive = config.keepAlive
  /\ server = (config.listen /\ ~config.probe)
  /\ initEnded = FALSE
  /\ signals = 0 /\ requests = 0 /\ faults = 0

-----------------------------------------------------------------------------
(* Leaving a state: by its return value, or by an exception.               *)

Fault == faults < MaxFaults /\ faults' = faults + 1

\* The state that ran becomes prev_state_, whatever way it ended.
EndState ==
  /\ running' = None /\ prev' = running
  /\ todo' = {} /\ watched' = FALSE /\ timedOut' = FALSE

\* The nominal next state; ABORT if the watchdog did not wait for the answer.
Return(next) ==
  /\ EndState
  /\ id' = IF timedOut THEN "ABORT" ELSE next

\* An exception other than those run_machine answers, or a second interrupt
\* while one is pending (std::logic_error): the run ends then and there.
Crash ==
  /\ status' = "crashed" /\ outcome' = "Aborted"
  /\ UNCHANGED <<id, slot>>

\* Mutant: an exception that finds an interrupt pending is dropped.
ThrowYields(x) ==
  /\ EndState /\ toErase' = {}
  /\ slot' = IF slot = None /\ x # "fatal" THEN x ELSE slot
  /\ id' = IF timedOut THEN "ABORT" ELSE id
  /\ IF x = "fatal" /\ ~timedOut THEN status' = "crashed" /\ outcome' = "Aborted"
     ELSE UNCHANGED <<status, outcome>>

\* Mutant: whatever is thrown is pushed as an interrupt, nothing ends the run.
ThrowNothingFatal(x) ==
  /\ EndState /\ toErase' = {}
  /\ slot' = x
  /\ UNCHANGED <<status, id, outcome>>

\* An exception leaves the state.  It is lost with the future of a state that
\* timed out; otherwise it is answered by an interrupt and id stays as it was.
Throw(x) ==
  /\ EndState
  /\ toErase' = {}
  /\ \/ /\ timedOut
        /\ id' = "ABORT"
        /\ UNCHANGED <<status, slot, outcome>>
     \/ /\ ~timedOut /\ x # "fatal" /\ slot = None
        /\ slot' = x
        /\ UNCHANGED <<status, id, outcome>>
     \/ /\ ~timedOut /\ (x = "fatal" \/ slot # None)
        /\ Crash

-----------------------------------------------------------------------------
(* The top of the loop.                                                    *)

OutcomeOnEntry(s) ==
  CASE s = "CONNECT" -> "NoStart"
    [] s = "PROBE"   -> "Probing"
    [] s = "SUCCESS" -> "Success"
    [] s = "FAIL"    -> "Failure"
    [] s = "STOP" /\ outcome = None         -> "Stopped"
    [] s = "ABORT" /\ prev = "CONNECT"      -> "NoStart"
    [] s = "ABORT" /\ prev \notin {"CONNECT", "KEEP_ALIVE"} -> "Aborted"
    [] OTHER -> outcome

\* Mutant: Resume leaves the temporary server running.
StopsNoServer(s) == FALSE

\* Pause starts a temporary server where none is configured, Resume stops it.
StartsServer(s) == s = "PAUSE" /\ prev # "PAUSE" /\ ~config.listen
StopsServer(s)  == s = "RESUME" /\ ~config.listen

\* Mutant: Disconnect skips the models that are not operational, as Stop does.
VisitsOperational(s) ==
  CASE s = "CONNECT"          -> Models
    [] s = "STEP_SIMULATORS"  -> ctx \cap (Simulators \cup Vehicles)
    [] s = "STEP_CONTROLLERS" -> ctx \cap Controllers
    [] s \in {"START", "STOP", "RESET"} -> ctx
    [] s = "DISCONNECT" -> ctx \cap oper
    [] s = "ABORT" /\ prev \notin {"CONNECT", "KEEP_ALIVE"} -> ctx
    [] OTHER -> {}

Visits(s) ==
  CASE s = "CONNECT"          -> Models
    [] s = "STEP_SIMULATORS"  -> ctx \cap (Simulators \cup Vehicles)
    [] s = "STEP_CONTROLLERS" -> ctx \cap Controllers
    [] s \in {"START", "STOP", "RESET", "DISCONNECT"} -> ctx
    [] s = "ABORT" /\ prev \notin {"CONNECT", "KEEP_ALIVE"} -> ctx
    [] OTHER -> {}

Enter(s) ==
  /\ running' = s
  /\ todo' = Visits(s)
  /\ outcome' = OutcomeOnEntry(s)
  /\ server' = ((server \/ StartsServer(s)) /\ ~StopsServer(s))
  /\ UNCHANGED <<config, status, id, prev, timedOut, models,
                 paused, keepAlive, initEnded, signals, requests, faults>>

AtLoopTop == status = "running" /\ running = None

\* Mutant: a resume does not clear the flag that a pause has set.
PauseForever ==
  /\ AtLoopTop /\ slot \in {"PAUSE", "RESUME"}
  /\ paused' = (paused \/ slot = "PAUSE")
  /\ slot' = None
  /\ UNCHANGED <<config, status, machine, models, outcome, keepAlive, server,
                 initEnded, signals, requests, faults>>

HandlePauseOrResume ==
  /\ AtLoopTop /\ slot \in {"PAUSE", "RESUME"}
  /\ paused' = (slot = "PAUSE")
  /\ slot' = None
  /\ UNCHANGED <<config, status, machine, models, outcome, keepAlive, server,
                 initEnded, signals, requests, faults>>

\* Mutant: pop_interrupt leaves the interrupt in its slot.
RunInterruptAgain ==
  /\ AtLoopTop /\ slot \notin {None, "PAUSE", "RESUME"}
  /\ Enter(slot)
  /\ watched' = FALSE
  /\ UNCHANGED slot

RunInterrupt ==
  /\ AtLoopTop /\ slot \notin {None, "PAUSE", "RESUME"}
  /\ Enter(slot)
  /\ slot' = None
  /\ watched' = FALSE

RunNominal ==
  /\ AtLoopTop /\ slot = None /\ id # None
  /\ Enter(id)
  /\ watched' = config.watchdog
  /\ UNCHANGED slot

Finish ==
  /\ AtLoopTop /\ slot = None /\ id = None
  /\ status' = "done"
  /\ UNCHANGED <<config, machine, slot, models, outcome, flags,
                 signals, requests, faults>>

Loop == HandlePauseOrResume \/ RunInterrupt \/ RunNominal \/ Finish

\* run_state_async stops waiting; its future still waits for the state to end.
WatchdogTimeout ==
  /\ status = "running" /\ watched /\ ~timedOut
  /\ Fault
  /\ timedOut' = TRUE
  /\ UNCHANGED <<config, status, id, running, todo, prev, watched, slot, models,
                 outcome, flags, signals, requests>>

-----------------------------------------------------------------------------
(* What the callbacks of a running state may do.  Start, Stop and Reset     *)
(* fire their triggers before they visit the models; the plugins' own       *)
(* events fire while the step states process the models.                    *)

FiresTriggers ==
  /\ status = "running"
  /\ \/ /\ running \in {"START", "STEP_BEGIN", "PAUSE", "RESUME", "SUCCESS", "FAIL",
                       "STOP", "RESET", "KEEP_ALIVE"}
        /\ todo = Visits(running)
     \/ /\ running \in {"STEP_SIMULATORS", "STEP_CONTROLLERS"}
        /\ todo # {}

\* A trigger's action pushes interrupt r.  While another is pending the push
\* throws: out of the state, or into the Lua coroutine that asked for it.
TriggerRequests(r) ==
  /\ FiresTriggers
  /\ requests < MaxRequests /\ requests' = requests + 1
  /\ \/ /\ slot = None
        /\ slot' = r
        /\ UNCHANGED <<status, machine, outcome, toErase>>
     \/ /\ slot # None
        /\ Throw("fatal")
     \/ /\ slot # None
        /\ UNCHANGED <<status, machine, slot, outcome, toErase>>
  /\ UNCHANGED <<config, ctx, life, oper, aborted, flags, signals, faults>>

TriggerKeepsAlive ==
  /\ FiresTriggers /\ ~keepAlive
  /\ keepAlive' = TRUE
  /\ UNCHANGED <<config, status, machine, slot, models, outcome, paused, server,
                 initEnded, signals, requests, faults>>

\* An action throws, or a trigger cannot be inserted (Start, StepEnd, Pause).
TriggerThrows(x) ==
  /\ FiresTriggers \/ (status = "running" /\ running = "STEP_END")
  /\ running # "STEP_CONTROLLERS"    \* there a controller's process() throws
  /\ Fault
  /\ Throw(x)
  /\ UNCHANGED <<config, ctx, life, oper, aborted, flags, signals, requests>>

\* A started model finds that it cannot continue.
DropOut(m) ==
  /\ status = "running" /\ running \in StepStates
  /\ m \in oper
  /\ Fault
  /\ oper' = oper \ {m}
  /\ UNCHANGED <<config, status, machine, slot, ctx, life, aborted, toErase,
                 outcome, flags, signals, requests>>

-----------------------------------------------------------------------------
(* The states.  foreach_model visits controllers, then vehicles, then       *)
(* simulators; Connect and StepSimulators go the other way round.           *)

InState(s) == status = "running" /\ running = s

NextModel(m) ==
  /\ m \in todo
  /\ m \in Vehicles => todo \cap Controllers = {}
  /\ m \in Simulators => todo \cap (Controllers \cup Vehicles) = {}

NextModelReversed(m) ==
  /\ m \in todo
  /\ m \in Vehicles => todo \cap Simulators = {}
  /\ m \in Controllers => todo \cap (Simulators \cup Vehicles) = {}

\* The running state goes on to its next model.
Visited(m) ==
  /\ todo' = todo \ {m}
  /\ UNCHANGED <<config, status, id, running, prev, watched, timedOut, slot,
                 outcome, flags, signals, requests>>

\* A state with nothing left to visit returns next.
Done(s, next) ==
  /\ InState(s) /\ todo = {}
  /\ Return(next)

\* What a finished state leaves alone, with the exception of the flags.
Rest == UNCHANGED <<config, status, slot, outcome, signals, requests, faults>>

\* --- CONNECT ---

ConnectModel(m) ==
  /\ InState("CONNECT") /\ NextModelReversed(m) /\ prev = None
  /\ life' = [life EXCEPT ![m] = "connected"]
  /\ ctx' = ctx \cup {m}
  /\ Visited(m)
  /\ UNCHANGED <<oper, aborted, toErase, faults>>

\* A ModelError while a model is created: the state returns ABORT.
ConnectFails ==
  /\ InState("CONNECT") /\ todo # {} /\ prev = None
  /\ Fault
  /\ Return("ABORT")
  /\ UNCHANGED <<config, status, slot, models, outcome, flags, signals, requests>>

\* An unresolved dependency, a failing alias or signal, AsyncAbort, or worse.
ConnectThrows(x) ==
  /\ InState("CONNECT") /\ prev = None /\ x \in {"ABORT", "fatal"}
  /\ Fault
  /\ Throw(x)
  /\ UNCHANGED <<config, ctx, life, oper, aborted, flags, signals, requests>>

\* After a reset every route, event and action is registered already, even if
\* the first Connect failed, and the first registration throws.
ConnectAgain ==
  /\ InState("CONNECT") /\ prev # None
  /\ Throw("fatal")
  /\ UNCHANGED <<config, ctx, life, oper, aborted, flags, signals, requests, faults>>

ConnectDone ==
  /\ prev = None
  /\ Done("CONNECT", IF config.probe THEN "PROBE" ELSE "START")
  /\ initEnded' = TRUE
  /\ Rest /\ UNCHANGED <<models, paused, keepAlive, server>>

Connect ==
  \/ \E m \in Models : ConnectModel(m)
  \/ ConnectFails \/ ConnectAgain \/ ConnectDone
  \/ \E x \in Throwable : ConnectThrows(x)

\* --- START ---

StartModel(m) ==
  /\ InState("START") /\ NextModel(m)
  /\ life' = [life EXCEPT ![m] = "started"]
  /\ oper' = oper \cup {m}
  /\ Visited(m)
  /\ UNCHANGED <<ctx, aborted, toErase, faults>>

StartThrows(x) ==
  /\ InState("START") /\ todo # {}
  /\ Fault
  /\ Throw(x)
  /\ UNCHANGED <<config, ctx, life, oper, aborted, flags, signals, requests>>

\* Mutant: the pause flag is not looked at between two steps.
StepAlways == "STEP_BEGIN"

StepOrPause == IF paused THEN "PAUSE" ELSE "STEP_BEGIN"

StartDone == Done("START", StepOrPause) /\ Rest /\ UNCHANGED <<models, flags>>

Start ==
  \/ \E m \in Models : StartModel(m)
  \/ \E x \in Throwable : StartThrows(x)
  \/ StartDone

\* --- STEP_BEGIN, STEP_SIMULATORS, STEP_CONTROLLERS, STEP_END ---

StepBegin ==
  /\ Done("STEP_BEGIN", IF ctx \subseteq oper THEN "STEP_SIMULATORS" ELSE "STOP")
  /\ Rest /\ UNCHANGED <<models, flags>>

ProcessModel(m) ==
  /\ InState("STEP_SIMULATORS") /\ NextModelReversed(m)
  /\ m \in Simulators => m \in oper
  /\ Visited(m)
  /\ UNCHANGED <<models, faults>>

SimulatorNotOperational(m) ==
  /\ InState("STEP_SIMULATORS") /\ NextModelReversed(m)
  /\ m \in Simulators \ oper
  /\ Throw("STOP")
  /\ UNCHANGED <<config, ctx, life, oper, aborted, flags, signals, requests, faults>>

\* The model throws, or a simulator is not at the time it should be at.
ProcessThrows(x) ==
  /\ InState("STEP_SIMULATORS") /\ todo # {}
  /\ Fault
  /\ Throw(x)
  /\ UNCHANGED <<config, ctx, life, oper, aborted, flags, signals, requests>>

StepSimulators ==
  \/ \E m \in Models : ProcessModel(m) \/ SimulatorNotOperational(m)
  \/ \E x \in Throwable : ProcessThrows(x)
  \/ /\ Done("STEP_SIMULATORS", "STEP_CONTROLLERS")
     /\ Rest /\ UNCHANGED <<models, flags>>

\* The controller has caught up with the simulation time, after some retries.
ProcessController(m) ==
  /\ InState("STEP_CONTROLLERS") /\ NextModel(m)
  /\ Visited(m)
  /\ UNCHANGED <<models, faults>>

\* The controller threw ModelReset, ModelStop or ModelAbort, or died where that
\* aborts the run: push the interrupt and skip the remaining controllers.
ControllerInterrupts(m, x) ==
  /\ InState("STEP_CONTROLLERS") /\ NextModel(m) /\ x # "fatal"
  /\ Fault
  /\ \/ /\ slot = None
        /\ slot' = x
        /\ todo' = {}
        /\ UNCHANGED <<status, id, running, prev, watched, timedOut, outcome, toErase>>
     \/ /\ slot # None
        /\ Throw("fatal")
  /\ UNCHANGED <<config, ctx, life, oper, aborted, flags, signals, requests>>

\* The controller died and the run continues without it.
ControllerDies(m) ==
  /\ InState("STEP_CONTROLLERS") /\ NextModel(m)
  /\ ~config.abortOnFailure
  /\ Fault
  /\ aborted' = aborted \cup {m}
  /\ oper' \in {oper, oper \ {m}}
  /\ \/ /\ life' = [life EXCEPT ![m] = "disconnected"]
        /\ toErase' = toErase \cup {m}
        /\ todo' = todo \ {m}
        /\ UNCHANGED <<status, id, running, prev, watched, timedOut, slot, outcome>>
     \/ \* abort() or disconnect() throws in turn
        /\ \E x \in Throwable : Throw(x)
        /\ UNCHANGED life
  /\ UNCHANGED <<config, ctx, flags, signals, requests>>

ControllerThrows(x) ==
  /\ InState("STEP_CONTROLLERS") /\ todo # {} /\ x \in {"ABORT", "fatal"}
  /\ Fault
  /\ Throw(x)
  /\ UNCHANGED <<config, ctx, life, oper, aborted, flags, signals, requests>>

\* Mutant: the controllers that died stay in the context.
EraseNone == UNCHANGED ctx /\ toErase' = {}

EraseControllers == ctx' = ctx \ toErase /\ toErase' = {}

StepControllers ==
  \/ \E m \in Models : ProcessController(m) \/ ControllerDies(m)
  \/ \E m \in Models, x \in Throwable : ControllerInterrupts(m, x)
  \/ \E x \in Throwable : ControllerThrows(x)
  \/ /\ Done("STEP_CONTROLLERS", "STEP_END")
     /\ EraseControllers
     /\ Rest /\ UNCHANGED <<life, oper, aborted, flags>>

StepEnd == Done("STEP_END", StepOrPause) /\ Rest /\ UNCHANGED <<models, flags>>

\* --- PAUSE, RESUME, SUCCESS, FAIL, KEEP_ALIVE, PROBE ---

\* Mutant: a simulation that succeeded is not stopped.
SuccessorWithoutStop(s) ==
  CASE s = "PAUSE" -> IF paused THEN "PAUSE" ELSE "RESUME"
    [] s = "RESUME"                -> "STEP_BEGIN"
    [] s \in {"SUCCESS", "PROBE"}  -> "DISCONNECT"
    [] s = "FAIL"                  -> "STOP"
    [] s = "KEEP_ALIVE"            -> "KEEP_ALIVE"

\* The states that visit no model: each returns its successor.
Successor(s) ==
  CASE s = "PAUSE"      -> IF paused THEN "PAUSE" ELSE "RESUME"
    [] s = "RESUME"     -> "STEP_BEGIN"
    [] s = "SUCCESS"    -> "STOP"
    [] s = "FAIL"       -> "STOP"
    [] s = "KEEP_ALIVE" -> "KEEP_ALIVE"
    [] s = "PROBE"      -> "DISCONNECT"

PassThrough(s) == Done(s, Successor(s)) /\ Rest /\ UNCHANGED <<models, flags>>

\* --- STOP ---

\* Stop skips the models that are not operational, and goes on when one throws.
StopModel(m) ==
  /\ InState("STOP") /\ NextModel(m)
  /\ \/ /\ m \in oper
        /\ life' = [life EXCEPT ![m] = "stopped"]
        /\ \/ oper' = oper \ {m} /\ UNCHANGED faults
           \/ Fault /\ UNCHANGED oper
     \/ m \notin oper /\ UNCHANGED <<life, oper, faults>>
  /\ Visited(m)
  /\ UNCHANGED <<ctx, aborted, toErase>>

StopDone ==
  /\ Done("STOP", IF keepAlive THEN "KEEP_ALIVE" ELSE "DISCONNECT")
  /\ Rest /\ UNCHANGED <<models, flags>>

Stop == (\E m \in Models : StopModel(m)) \/ StopDone

\* --- RESET ---

ResetModel(m) ==
  /\ InState("RESET") /\ NextModel(m)
  /\ life' = [life EXCEPT ![m] = "stopped"]
  /\ oper' = oper \ {m}
  /\ Visited(m)
  /\ UNCHANGED <<ctx, aborted, toErase, faults>>

\* stop() or reset() throws: the remaining models are not reset.
ResetFails(m) ==
  /\ InState("RESET") /\ NextModel(m)
  /\ Fault
  /\ life' = [life EXCEPT ![m] = "stopped"]
  /\ oper' \in {oper, oper \ {m}}
  /\ Return("ABORT")
  /\ UNCHANGED <<config, status, slot, ctx, aborted, toErase, outcome, flags,
                 signals, requests>>

ResetDone == Done("RESET", "CONNECT") /\ Rest /\ UNCHANGED <<models, flags>>

Reset == (\E m \in Models : ResetModel(m) \/ ResetFails(m)) \/ ResetDone

\* --- ABORT ---

\* Whether abort() throws or not makes no difference.
AbortModel(m) ==
  /\ InState("ABORT") /\ NextModel(m)
  /\ aborted' = aborted \cup {m}
  /\ oper' \in {oper, oper \ {m}}
  /\ Visited(m)
  /\ UNCHANGED <<ctx, life, toErase, faults>>

\* Mutant: an aborted simulation is kept alive, too.
AbortKeepsAlive ==
  /\ Done("ABORT", IF keepAlive THEN "KEEP_ALIVE" ELSE "DISCONNECT")
  /\ Rest /\ UNCHANGED <<models, flags>>

AbortDone == Done("ABORT", "DISCONNECT") /\ Rest /\ UNCHANGED <<models, flags>>

Abort == (\E m \in Models : AbortModel(m)) \/ AbortDone

\* --- DISCONNECT ---

DisconnectModel(m) ==
  /\ InState("DISCONNECT") /\ NextModel(m)
  /\ life' = [life EXCEPT ![m] = "disconnected"]
  /\ Visited(m)
  /\ UNCHANGED <<ctx, oper, aborted, toErase, faults>>

\* disconnect() of a model throws: nothing catches it here, so that ModelStop and
\* ModelReset lead from Disconnect to Stop and to Reset.
DisconnectThrows(x) ==
  /\ InState("DISCONNECT") /\ todo # {}
  /\ Fault
  /\ Throw(x)
  /\ UNCHANGED <<config, ctx, life, oper, aborted, flags, signals, requests>>

DisconnectDone == Done("DISCONNECT", None) /\ Rest /\ UNCHANGED <<models, flags>>

Disconnect ==
  \/ \E m \in Models : DisconnectModel(m)
  \/ \E x \in Throwable : DisconnectThrows(x)
  \/ DisconnectDone

-----------------------------------------------------------------------------
(* The SIGINT handler, which runs on any thread at any time.               *)

\* Each model of the context is told to abort; it may stop being operational.
AbortDirectly ==
  /\ aborted' = aborted \cup ctx
  /\ \E D \in SUBSET (oper \cap ctx) : oper' = oper \ D
  /\ UNCHANGED <<status, slot, outcome>>

\* A model is being initialized, or its initialization has failed: then the
\* context still points to it.
NowInitializing ==
  ~initEnded /\ (prev = None => running = "CONNECT" /\ todo # {})

\* The handler throws, or what it calls is gone: a second interrupt, or abort()
\* of the model that is being initialized.  Nothing catches it.
HandlerThrows ==
  /\ status' = "crashed" /\ outcome' = "Aborted"
  /\ UNCHANGED <<slot, aborted, oper>>

Signal ==
  /\ status = "running"
  /\ signals < MaxSignals /\ signals' = signals + 1
  /\ \/ /\ initEnded /\ signals = 0
        /\ \/ slot = None /\ slot' = "ABORT" /\ UNCHANGED <<status, aborted, oper, outcome>>
           \/ slot # None /\ HandlerThrows
     \/ /\ (~initEnded \/ signals > 0) /\ signals < 3
        /\ AbortDirectly
     \/ /\ NowInitializing /\ signals < 3
        /\ HandlerThrows
     \/ /\ signals >= 3         \* the third time restored SIG_DFL
        /\ HandlerThrows
  /\ UNCHANGED <<config, machine, ctx, life, toErase, flags, requests, faults>>

-----------------------------------------------------------------------------

Run ==
  \/ Loop
  \/ Connect \/ Start \/ StepBegin \/ StepSimulators \/ StepControllers \/ StepEnd
  \/ \E s \in {"PAUSE", "RESUME", "SUCCESS", "FAIL", "KEEP_ALIVE", "PROBE"} : PassThrough(s)
  \/ Stop \/ Reset \/ Abort \/ Disconnect

Environment ==
  \/ \E r \in Requests : TriggerRequests(r)
  \/ \E x \in Throwable : TriggerThrows(x)
  \/ \E m \in Models : DropOut(m)
  \/ TriggerKeepsAlive \/ WatchdogTimeout \/ Signal

\* The process has left Simulation::run.
Terminated == status # "running" /\ UNCHANGED vars

Next == Run \/ Environment \/ Terminated

Spec == Init /\ [][Next]_vars

\* The thread that runs the machine is never starved: a state that is running
\* visits its next model, returns or throws.  Nothing else is assumed fair.
FairSpec == Spec /\ WF_vars(Run)

-----------------------------------------------------------------------------
(* Properties.                                                             *)

\* Every variable has its type.
TypeOK ==
  /\ config \in Config
  /\ status \in {"running", "done", "crashed"}
  /\ id \in States \cup {None} /\ prev \in States \cup {None}
  /\ running \in States \cup {None}
  /\ slot \in Interrupts \cup {None}
  /\ watched \in BOOLEAN /\ timedOut \in BOOLEAN
  /\ paused \in BOOLEAN /\ keepAlive \in BOOLEAN
  /\ server \in BOOLEAN /\ initEnded \in BOOLEAN
  /\ todo \subseteq Models /\ ctx \subseteq Models /\ oper \subseteq Models
  /\ aborted \subseteq Models /\ toErase \subseteq Models
  /\ life \in [Models -> Life]
  /\ outcome \in Outcomes \cup {None}
  /\ signals \in 0..MaxSignals
  /\ requests \in 0..MaxRequests
  /\ faults \in 0..MaxFaults

\* Whatever interrupts, failures and restarts came before, the step states call
\* process() only on models whose start() was called and whose stop() or
\* disconnect() was not, but for the controllers that just died.
ProcessOnlyStarted ==
  status = "running" /\ running \in {"STEP_SIMULATORS", "STEP_CONTROLLERS"} =>
    \A m \in ctx \ toErase : life[m] = "started"

\* A run that reaches Disconnect with a verdict, Success or Failure, has called
\* stop() on every model that could still be stopped: no order of interrupts
\* lets a verdict stand for a simulation that was cut off.
VerdictAfterStop ==
  status = "running" /\ running = "DISCONNECT" /\ outcome \in Verdicts =>
    \A m \in ctx \cap oper : life[m] # "started"

\* Pause never starts the temporary server while it runs (Server::start asserts
\* that it does not): a run never pauses twice without a resume in between.
TempServerFree ==
  AtLoopTop /\ slot = None /\ id = "PAUSE" /\ StartsServer("PAUSE") => ~server

\* A run that ends without an exception has disconnected every model that is
\* left in the context.
EndDisconnects == status = "done" => \A m \in ctx : life[m] = "disconnected"

\* Every model is driven through the lifecycle that cloe::Model documents.
Lifecycle == INSTANCE ModelLifecycle
LifecycleSpec == Lifecycle!Spec

\* "All other interrupts will lead directly to the end of the simulation"
\* (simulation_machine.hpp:250): once one of the states at the end of a run has
\* run, no model is started or processed and nothing pauses or resumes, whatever
\* the triggers of these states, the SIGINT handler or models that throw in
\* stop(), abort() or disconnect() ask for.  A second Connect throws.
Ending == {"SUCCESS", "FAIL", "STOP", "RESET", "KEEP_ALIVE", "ABORT", "DISCONNECT"}

EndIsFinal ==
  [][running = None /\ prev \in Ending /\ running' # None
       => running' \in Ending \cup {"CONNECT"}]_vars

\* A pause requested during a step takes effect before the next step begins; one
\* requested while Start or Resume runs is late by one step.
PauseBetweenSteps ==
  [][running = None /\ running' = "STEP_BEGIN" /\ paused
       => prev \in {"START", "RESUME"}]_vars

\* An abort that was requested, by a model, a controller or SIGINT, reaches
\* Disconnect and ends the run.  Where the simulation is to be kept alive, it need
\* not end: disconnect() of a model may ask for a stop after all.
AbortEnds ==
  /\ slot = "ABORT" ~> (status # "running" \/ running = "DISCONNECT")
  /\ slot = "ABORT" /\ ~keepAlive ~> (status # "running" \/ keepAlive)

\* A stop, success or failure that was requested ends the run or keeps it alive.
StopEnds == slot \in {"STOP", "SUCCESS", "FAIL"} ~> (status # "running" \/ keepAlive)

\* A resume requested while the simulation is paused leaves the Pause state.
ResumeLeaves == slot = "RESUME" /\ id = "PAUSE" ~> (status # "running" \/ id # "PAUSE")

-----------------------------------------------------------------------------
(* What the documentation says and the code does not do.                   *)

\* system-states.rst:57, of Reset: "internal state is reset and the simulation
\* loop repeats".  The run does not end with an exception in Connect instead.
ResetRepeats ==
  [][running = "CONNECT" /\ prev = "RESET" => status' # "crashed"]_vars

=============================================================================
