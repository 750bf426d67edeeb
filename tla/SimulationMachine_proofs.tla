---------------------- MODULE SimulationMachine_proofs ----------------------
(***************************************************************************)
(* Theorems about SimulationMachine, for every set of models, every         *)
(* configuration and every bound.                                           *)
(***************************************************************************)
EXTENDS SimulationMachine, TLAPS

-----------------------------------------------------------------------------
(* Type correctness.                                                       *)

\* What Return assigns.
MachineTyped ==
  /\ id \in States \cup {None} /\ prev \in States \cup {None}
  /\ running \in States \cup {None}
  /\ watched \in BOOLEAN /\ timedOut \in BOOLEAN
  /\ todo \subseteq Models

\* What Throw assigns.
ThrowTyped ==
  /\ MachineTyped
  /\ status \in {"running", "done", "crashed"}
  /\ slot \in Interrupts \cup {None}
  /\ outcome \in Outcomes \cup {None}
  /\ toErase \subseteq Models

\* A state that returns a state leaves the machine well typed.
LEMMA ReturnType ==
  ASSUME TypeOK, NEW next \in States \cup {None}, Return(next)
  PROVE  MachineTyped'
BY DEF TypeOK, Return, EndState, MachineTyped, States, StepStates

\* So does a state that throws, and what it throws becomes an interrupt.
LEMMA ThrowType ==
  ASSUME TypeOK, NEW x \in Throwable, Throw(x)
  PROVE  ThrowTyped'
<1>1. MachineTyped'
  BY DEF TypeOK, Throw, Crash, EndState, MachineTyped, States, StepStates
<1>2. x # "fatal" => x \in Interrupts
  BY DEF Throwable, Interrupts, Requests
<1>. QED  BY <1>1, <1>2 DEF TypeOK, Throw, Crash, EndState, ThrowTyped, Outcomes

\* A fault is counted up to its bound.
LEMMA FaultType ==
  ASSUME TypeOK, Fault
  PROVE  faults' \in 0..MaxFaults
BY BoundAssumption DEF TypeOK, Fault

\* The models that a state visits are models, the outcome is an outcome.
LEMMA EnterType ==
  ASSUME TypeOK, NEW s \in States, Enter(s)
  PROVE  /\ todo' \subseteq Models
         /\ outcome' \in Outcomes \cup {None}
         /\ server' \in BOOLEAN
<1>1. Visits(s) \subseteq Models
  BY DEF Visits, TypeOK, Models
<1>2. OutcomeOnEntry(s) \in Outcomes \cup {None}
  BY DEF OutcomeOnEntry, TypeOK, Outcomes
<1>. QED  BY <1>1, <1>2 DEF Enter, TypeOK, StartsServer, StopsServer

\* Each disjunct of Run and of Environment keeps the types.
LEMMA LoopType == TypeOK /\ Loop => TypeOK'
<1>. SUFFICES ASSUME TypeOK, Loop PROVE TypeOK'
  OBVIOUS
<1>1. CASE HandlePauseOrResume
  BY <1>1 DEF TypeOK, HandlePauseOrResume, machine, models
<1>2. CASE RunInterrupt
  <2>1. slot \in States
    BY <1>2 DEF TypeOK, RunInterrupt, Interrupts, Requests, States
  <2>. QED  BY <1>2, <2>1, EnterType DEF TypeOK, RunInterrupt, Enter, models
<1>3. CASE RunNominal
  <2>1. id \in States
    BY <1>3 DEF TypeOK, RunNominal
  <2>. QED  BY <1>3, <2>1, EnterType DEF TypeOK, RunNominal, Enter, models, Config
<1>4. CASE Finish
  BY <1>4 DEF TypeOK, Finish, machine, models, flags
<1>. QED  BY <1>1, <1>2, <1>3, <1>4 DEF Loop

LEMMA ConnectType == TypeOK /\ Connect => TypeOK'
<1>. SUFFICES ASSUME TypeOK, Connect PROVE TypeOK'
  OBVIOUS
<1>1. ASSUME NEW m \in Models, ConnectModel(m) PROVE TypeOK'
  BY <1>1 DEF TypeOK, ConnectModel, Visited, flags, Life
<1>2. CASE ConnectFails
  <2>1. MachineTyped' /\ faults' \in 0..MaxFaults
    BY <1>2, ReturnType, FaultType DEF ConnectFails, States
  <2>. QED  BY <1>2, <2>1 DEF TypeOK, ConnectFails, MachineTyped, models, flags
<1>3. CASE ConnectAgain
  <2>1. ThrowTyped'
    BY <1>3, ThrowType DEF ConnectAgain, Throwable
  <2>. QED  BY <1>3, <2>1 DEF TypeOK, ConnectAgain, ThrowTyped, MachineTyped, flags
<1>4. CASE ConnectDone
  <2>1. MachineTyped'
    BY <1>4, ReturnType DEF ConnectDone, Done, States
  <2>. QED  BY <1>4, <2>1 DEF TypeOK, ConnectDone, MachineTyped, Rest, models
<1>5. ASSUME NEW x \in Throwable, ConnectThrows(x) PROVE TypeOK'
  <2>1. ThrowTyped' /\ faults' \in 0..MaxFaults
    BY <1>5, ThrowType, FaultType DEF ConnectThrows
  <2>. QED  BY <1>5, <2>1 DEF TypeOK, ConnectThrows, ThrowTyped, MachineTyped, flags
<1>. QED  BY <1>1, <1>2, <1>3, <1>4, <1>5 DEF Connect

LEMMA StartType == TypeOK /\ Start => TypeOK'
<1>. SUFFICES ASSUME TypeOK, Start PROVE TypeOK'
  OBVIOUS
<1>1. ASSUME NEW m \in Models, StartModel(m) PROVE TypeOK'
  BY <1>1 DEF TypeOK, StartModel, Visited, flags, Life
<1>2. ASSUME NEW x \in Throwable, StartThrows(x) PROVE TypeOK'
  <2>1. ThrowTyped' /\ faults' \in 0..MaxFaults
    BY <1>2, ThrowType, FaultType DEF StartThrows
  <2>. QED  BY <1>2, <2>1 DEF TypeOK, StartThrows, ThrowTyped, MachineTyped, flags
<1>3. CASE StartDone
  <2>1. MachineTyped'
    BY <1>3, ReturnType DEF StartDone, Done, StepOrPause, States, StepStates
  <2>. QED  BY <1>3, <2>1 DEF TypeOK, StartDone, MachineTyped, Rest, models, flags
<1>. QED  BY <1>1, <1>2, <1>3 DEF Start

LEMMA StepBeginType == TypeOK /\ StepBegin => TypeOK'
<1>. SUFFICES ASSUME TypeOK, StepBegin PROVE TypeOK'
  OBVIOUS
<1>1. MachineTyped'
  BY ReturnType DEF StepBegin, Done, States, StepStates
<1>. QED  BY <1>1 DEF TypeOK, StepBegin, MachineTyped, Rest, models, flags

LEMMA StepSimulatorsType == TypeOK /\ StepSimulators => TypeOK'
<1>. SUFFICES ASSUME TypeOK, StepSimulators PROVE TypeOK'
  OBVIOUS
<1>1. ASSUME NEW m \in Models, ProcessModel(m) PROVE TypeOK'
  BY <1>1 DEF TypeOK, ProcessModel, Visited, models, flags
<1>2. ASSUME NEW m \in Models, SimulatorNotOperational(m) PROVE TypeOK'
  <2>1. ThrowTyped'
    BY <1>2, ThrowType DEF SimulatorNotOperational, Throwable
  <2>. QED  BY <1>2, <2>1 DEF TypeOK, SimulatorNotOperational, ThrowTyped, MachineTyped, flags
<1>3. ASSUME NEW x \in Throwable, ProcessThrows(x) PROVE TypeOK'
  <2>1. ThrowTyped' /\ faults' \in 0..MaxFaults
    BY <1>3, ThrowType, FaultType DEF ProcessThrows
  <2>. QED  BY <1>3, <2>1 DEF TypeOK, ProcessThrows, ThrowTyped, MachineTyped, flags
<1>4. ASSUME Done("STEP_SIMULATORS", "STEP_CONTROLLERS"), Rest, UNCHANGED <<models, flags>>
      PROVE  TypeOK'
  <2>1. MachineTyped'
    BY <1>4, ReturnType DEF Done, States, StepStates
  <2>. QED  BY <1>4, <2>1 DEF TypeOK, MachineTyped, Rest, models, flags
<1>. QED  BY <1>1, <1>2, <1>3, <1>4 DEF StepSimulators

LEMMA StepControllersType == TypeOK /\ StepControllers => TypeOK'
<1>. SUFFICES ASSUME TypeOK, StepControllers PROVE TypeOK'
  OBVIOUS
<1>1. ASSUME NEW m \in Models, ProcessController(m) PROVE TypeOK'
  BY <1>1 DEF TypeOK, ProcessController, Visited, models, flags
<1>2. ASSUME NEW m \in Models, ControllerDies(m) PROVE TypeOK'
  <2>1. faults' \in 0..MaxFaults
    BY <1>2, FaultType DEF ControllerDies
  <2>2. aborted' \subseteq Models /\ oper' \subseteq Models
    BY <1>2 DEF TypeOK, ControllerDies
  <2>3. CASE UNCHANGED <<status, id, running, prev, watched, timedOut, slot, outcome>>
             /\ life' = [life EXCEPT ![m] = "disconnected"]
             /\ toErase' = toErase \cup {m} /\ todo' = todo \ {m}
    BY <1>2, <2>1, <2>2, <2>3 DEF TypeOK, ControllerDies, flags, Life
  <2>4. ASSUME NEW x \in Throwable, Throw(x), UNCHANGED life
        PROVE  TypeOK'
    <3>1. ThrowTyped'
      BY <2>4, ThrowType
    <3>. QED  BY <1>2, <2>1, <2>2, <2>4, <3>1
              DEF TypeOK, ControllerDies, ThrowTyped, MachineTyped, flags
  <2>. QED  BY <1>2, <2>3, <2>4 DEF ControllerDies
<1>3. ASSUME NEW m \in Models, NEW x \in Throwable, ControllerInterrupts(m, x)
      PROVE  TypeOK'
  <2>1. x \in Interrupts
    BY <1>3 DEF ControllerInterrupts, Throwable, Interrupts, Requests
  <2>2. faults' \in 0..MaxFaults
    BY <1>3, FaultType DEF ControllerInterrupts
  <2>3. CASE slot = None
    BY <1>3, <2>1, <2>2, <2>3 DEF TypeOK, ControllerInterrupts, flags
  <2>4. CASE slot # None
    <3>1. ThrowTyped'
      BY <1>3, <2>4, ThrowType DEF ControllerInterrupts, Throwable
    <3>. QED  BY <1>3, <2>2, <3>1
              DEF TypeOK, ControllerInterrupts, ThrowTyped, MachineTyped, flags
  <2>. QED  BY <2>3, <2>4
<1>4. ASSUME NEW x \in Throwable, ControllerThrows(x) PROVE TypeOK'
  <2>1. ThrowTyped' /\ faults' \in 0..MaxFaults
    BY <1>4, ThrowType, FaultType DEF ControllerThrows
  <2>. QED  BY <1>4, <2>1 DEF TypeOK, ControllerThrows, ThrowTyped, MachineTyped, flags
<1>5. ASSUME Done("STEP_CONTROLLERS", "STEP_END"), EraseControllers, Rest,
             UNCHANGED <<life, oper, aborted, flags>>
      PROVE  TypeOK'
  <2>1. MachineTyped'
    BY <1>5, ReturnType DEF Done, States, StepStates
  <2>. QED  BY <1>5, <2>1 DEF TypeOK, MachineTyped, EraseControllers, Rest, flags
<1>. QED  BY <1>1, <1>2, <1>3, <1>4, <1>5 DEF StepControllers

LEMMA StepEndType == TypeOK /\ StepEnd => TypeOK'
<1>. SUFFICES ASSUME TypeOK, StepEnd PROVE TypeOK'
  OBVIOUS
<1>1. MachineTyped'
  BY ReturnType DEF StepEnd, Done, StepOrPause, States, StepStates
<1>. QED  BY <1>1 DEF TypeOK, StepEnd, MachineTyped, Rest, models, flags

LEMMA PassThroughType ==
  ASSUME TypeOK, PassThrough("PAUSE") \/ PassThrough("RESUME") \/ PassThrough("SUCCESS")
                   \/ PassThrough("FAIL") \/ PassThrough("KEEP_ALIVE") \/ PassThrough("PROBE")
  PROVE  TypeOK'
<1>1. PICK s \in {"PAUSE", "RESUME", "SUCCESS", "FAIL", "KEEP_ALIVE", "PROBE"} : PassThrough(s)
  OBVIOUS
<1>2. Successor(s) \in States
  BY DEF Successor, States, StepStates
<1>3. MachineTyped'
  BY <1>1, <1>2, ReturnType DEF PassThrough, Done
<1>. QED  BY <1>1, <1>3 DEF TypeOK, PassThrough, MachineTyped, Rest, models, flags

LEMMA StopType == TypeOK /\ Stop => TypeOK'
<1>. SUFFICES ASSUME TypeOK, Stop PROVE TypeOK'
  OBVIOUS
<1>1. ASSUME NEW m \in Models, StopModel(m) PROVE TypeOK'
  <2>1. faults' \in 0..MaxFaults
    BY <1>1, FaultType DEF TypeOK, StopModel
  <2>. QED  BY <1>1, <2>1 DEF TypeOK, StopModel, Visited, flags, Life
<1>2. CASE StopDone
  <2>1. MachineTyped'
    BY <1>2, ReturnType DEF StopDone, Done, States
  <2>. QED  BY <1>2, <2>1 DEF TypeOK, StopDone, MachineTyped, Rest, models, flags
<1>. QED  BY <1>1, <1>2 DEF Stop

LEMMA ResetType == TypeOK /\ Reset => TypeOK'
<1>. SUFFICES ASSUME TypeOK, Reset PROVE TypeOK'
  OBVIOUS
<1>1. ASSUME NEW m \in Models, ResetModel(m) PROVE TypeOK'
  BY <1>1 DEF TypeOK, ResetModel, Visited, flags, Life
<1>2. ASSUME NEW m \in Models, ResetFails(m) PROVE TypeOK'
  <2>1. MachineTyped' /\ faults' \in 0..MaxFaults
    BY <1>2, ReturnType, FaultType DEF ResetFails, States
  <2>. QED  BY <1>2, <2>1 DEF TypeOK, ResetFails, MachineTyped, flags, Life
<1>3. CASE ResetDone
  <2>1. MachineTyped'
    BY <1>3, ReturnType DEF ResetDone, Done, States
  <2>. QED  BY <1>3, <2>1 DEF TypeOK, ResetDone, MachineTyped, Rest, models, flags
<1>. QED  BY <1>1, <1>2, <1>3 DEF Reset

LEMMA AbortType == TypeOK /\ Abort => TypeOK'
<1>. SUFFICES ASSUME TypeOK, Abort PROVE TypeOK'
  OBVIOUS
<1>1. ASSUME NEW m \in Models, AbortModel(m) PROVE TypeOK'
  BY <1>1 DEF TypeOK, AbortModel, Visited, flags
<1>2. CASE AbortDone
  <2>1. MachineTyped'
    BY <1>2, ReturnType DEF AbortDone, Done, States
  <2>. QED  BY <1>2, <2>1 DEF TypeOK, AbortDone, MachineTyped, Rest, models, flags
<1>. QED  BY <1>1, <1>2 DEF Abort

LEMMA DisconnectType == TypeOK /\ Disconnect => TypeOK'
<1>. SUFFICES ASSUME TypeOK, Disconnect PROVE TypeOK'
  OBVIOUS
<1>1. ASSUME NEW m \in Models, DisconnectModel(m) PROVE TypeOK'
  BY <1>1 DEF TypeOK, DisconnectModel, Visited, flags, Life
<1>2. ASSUME NEW x \in Throwable, DisconnectThrows(x) PROVE TypeOK'
  <2>1. ThrowTyped' /\ faults' \in 0..MaxFaults
    BY <1>2, ThrowType, FaultType DEF DisconnectThrows
  <2>. QED  BY <1>2, <2>1 DEF TypeOK, DisconnectThrows, ThrowTyped, MachineTyped, flags
<1>3. CASE DisconnectDone
  <2>1. MachineTyped'
    BY <1>3, ReturnType DEF DisconnectDone, Done
  <2>. QED  BY <1>3, <2>1 DEF TypeOK, DisconnectDone, MachineTyped, Rest, models, flags
<1>. QED  BY <1>1, <1>2, <1>3 DEF Disconnect

LEMMA EnvironmentType == TypeOK /\ Environment => TypeOK'
<1>. SUFFICES ASSUME TypeOK, Environment PROVE TypeOK'
  OBVIOUS
<1>1. ASSUME NEW r \in Requests, TriggerRequests(r) PROVE TypeOK'
  <2>1. requests' \in 0..MaxRequests
    BY <1>1, BoundAssumption DEF TypeOK, TriggerRequests
  <2>2. CASE slot' = r /\ UNCHANGED <<status, machine, outcome, toErase>>
    BY <1>1, <2>1, <2>2 DEF TypeOK, TriggerRequests, Interrupts, machine, flags
  <2>3. CASE Throw("fatal")
    <3>1. ThrowTyped'
      BY <2>3, ThrowType DEF Throwable
    <3>. QED  BY <1>1, <2>1, <3>1 DEF TypeOK, TriggerRequests, ThrowTyped, MachineTyped, flags
  <2>4. CASE UNCHANGED <<status, machine, slot, outcome, toErase>>
    BY <1>1, <2>1, <2>4 DEF TypeOK, TriggerRequests, machine, flags
  <2>. QED  BY <1>1, <2>2, <2>3, <2>4 DEF TriggerRequests
<1>2. ASSUME NEW x \in Throwable, TriggerThrows(x) PROVE TypeOK'
  <2>1. ThrowTyped' /\ faults' \in 0..MaxFaults
    BY <1>2, ThrowType, FaultType DEF TriggerThrows
  <2>. QED  BY <1>2, <2>1 DEF TypeOK, TriggerThrows, ThrowTyped, MachineTyped, flags
<1>3. ASSUME NEW m \in Models, DropOut(m) PROVE TypeOK'
  BY <1>3, FaultType DEF TypeOK, DropOut, machine, flags
<1>4. CASE TriggerKeepsAlive
  BY <1>4 DEF TypeOK, TriggerKeepsAlive, machine, models
<1>5. CASE WatchdogTimeout
  BY <1>5, FaultType DEF TypeOK, WatchdogTimeout, models, flags
<1>6. CASE Signal
  <2>1. signals' \in 0..MaxSignals
    BY <1>6, BoundAssumption DEF TypeOK, Signal
  <2>2. CASE slot' = "ABORT" /\ UNCHANGED <<status, aborted, oper, outcome>>
    BY <1>6, <2>1, <2>2 DEF TypeOK, Signal, machine, flags, Interrupts
  <2>3. CASE HandlerThrows
    BY <1>6, <2>1, <2>3 DEF TypeOK, Signal, HandlerThrows, machine, flags, Outcomes
  <2>4. CASE AbortDirectly
    BY <1>6, <2>1, <2>4 DEF TypeOK, Signal, AbortDirectly, machine, flags
  <2>. QED  BY <1>6, <2>2, <2>3, <2>4 DEF Signal
<1>. QED  BY <1>1, <1>2, <1>3, <1>4, <1>5, <1>6 DEF Environment

LEMMA InitType == Init => TypeOK
<1>. SUFFICES ASSUME Init PROVE TypeOK
  OBVIOUS
<1>1. config \in Config
  BY ConfigAssumption DEF Init
<1>2. server \in BOOLEAN /\ keepAlive \in BOOLEAN
  BY <1>1 DEF Init, Config
<1>3. life \in [Models -> Life]
  BY DEF Init, Life
<1>4. 0 \in 0..MaxSignals /\ 0 \in 0..MaxRequests /\ 0 \in 0..MaxFaults
  BY BoundAssumption
<1>. QED  BY <1>1, <1>2, <1>3, <1>4 DEF Init, TypeOK, States

\* No state of the machine, no trigger, failure or signal breaks a type.
THEOREM TypeCorrect == Spec => []TypeOK
<1>1. TypeOK /\ [Next]_vars => TypeOK'
  <2>. SUFFICES ASSUME TypeOK, [Next]_vars PROVE TypeOK'
    OBVIOUS
  <2>1. CASE Run
    BY <2>1, LoopType, ConnectType, StartType, StepBeginType, StepSimulatorsType,
       StepControllersType, StepEndType, PassThroughType, StopType, ResetType,
       AbortType, DisconnectType DEF Run
  <2>2. CASE Environment
    BY <2>2, EnvironmentType
  <2>3. CASE UNCHANGED vars
    BY <2>3 DEF TypeOK, vars, machine, models, flags
  <2>. QED  BY <2>1, <2>2, <2>3 DEF Next, Terminated
<1>. QED  BY <1>1, InitType, PTL DEF Spec

-----------------------------------------------------------------------------
(* The end is final.  The invariant: a state at the end of a run leaves the *)
(* machine with an interrupt that leads to another one, or with one as the  *)
(* nominal successor; the run that has no successor left came through       *)
(* Disconnect, after which only a late SIGINT may be pending; and no         *)
(* initialization has ended before the first state has.                     *)

Ends == {"SUCCESS", "FAIL", "STOP", "RESET", "ABORT"}

EndCommitted ==
  /\ running = "DISCONNECT" => id = "DISCONNECT" /\ slot \in {None, "ABORT"}
  /\ id = None => running \in {None, "ABORT"} /\ slot \in {None, "ABORT"}
  /\ status = "running" /\ running = None /\ prev \in Ending =>
       slot \in Ends \/ id \in Ending \cup {"CONNECT", None}
  /\ prev = None => ~initEnded

\* What an exception that leaves a state does to the machine.
LEMMA ThrowAccounted ==
  ASSUME NEW x \in Throwable, Throw(x)
  PROVE  /\ running' = None /\ prev' = running
         /\ \/ id' = "ABORT" /\ slot' = slot
            \/ id' = id /\ slot' = x /\ x \in Ends
            \/ status' = "crashed" /\ id' = id
BY DEF Throw, EndState, Crash, Throwable, Ends

LEMMA LoopCommitted ==
  ASSUME TypeOK, EndCommitted, Loop
  PROVE  EndCommitted'
<1>1. CASE HandlePauseOrResume
  BY <1>1 DEF EndCommitted, HandlePauseOrResume, AtLoopTop, machine, Ends, None
<1>2. CASE RunInterrupt
  <2>1. /\ running' = slot /\ slot \in Interrupts \ {"PAUSE", "RESUME"} /\ slot' = None
        /\ UNCHANGED <<id, prev, initEnded>>
    BY <1>2 DEF TypeOK, RunInterrupt, Enter
  <2>. QED  BY <2>1 DEF EndCommitted, Interrupts, Requests, None
<1>3. CASE RunNominal
  <2>1. running' = id /\ slot' = None /\ id # None /\ UNCHANGED <<id, prev, initEnded>>
    BY <1>3 DEF RunNominal, Enter
  <2>. QED  BY <2>1 DEF EndCommitted, None
<1>4. CASE Finish
  BY <1>4 DEF EndCommitted, Finish, machine, flags
<1>. QED  BY <1>1, <1>2, <1>3, <1>4 DEF Loop

\* A state throws: what it throws leads to the end, or the run crashes.
LEMMA ThrowCommitted ==
  ASSUME EndCommitted, running \notin {None, "ABORT"}, NEW x \in Throwable, Throw(x)
  PROVE  EndCommitted'
BY ThrowAccounted DEF EndCommitted, Ending, Ends, None

\* A state returns: one at the end of a run returns another one.
LEMMA ReturnCommitted ==
  ASSUME EndCommitted, running # None, NEW next \in States, Return(next),
         running \in Ending => next \in Ending \cup {"CONNECT"}
  PROVE  EndCommitted'
BY DEF Return, EndState, EndCommitted, Ending, States, StepStates, None

\* A state goes on, or a callback returns.
LEMMA GoesOnCommitted ==
  ASSUME EndCommitted, UNCHANGED <<id, running, prev, initEnded>>, status' \in {status, "crashed"},
         \/ slot' = slot
         \/ running \notin {None, "ABORT", "DISCONNECT"}
         \/ slot' = "ABORT"
  PROVE  EndCommitted'
BY DEF EndCommitted, Ends, None

LEMMA OpenStatesCommitted ==
  ASSUME TypeOK, EndCommitted,
         Connect \/ Start \/ StepBegin \/ StepSimulators \/ StepControllers \/ StepEnd
  PROVE  EndCommitted'
<1>1. CASE Connect
  BY <1>1, ThrowCommitted, ReturnCommitted, GoesOnCommitted
     DEF Connect, ConnectModel, ConnectFails, ConnectAgain, ConnectDone, ConnectThrows, InState,
         Visited, Done, Throwable, Ending, States, flags, None
<1>2. CASE Start
  <2>1. StepOrPause \in States
    BY DEF StepOrPause, States, StepStates
  <2>. QED  BY <1>2, <2>1, ThrowCommitted, ReturnCommitted, GoesOnCommitted
            DEF Start, StartModel, StartThrows, StartDone, InState, Visited, Done, flags, Ending, None
<1>3. CASE StepBegin \/ StepEnd
  BY <1>3, ReturnCommitted
     DEF StepBegin, StepEnd, Done, StepOrPause, InState, Ending, States, StepStates, None
<1>4. CASE StepSimulators
  BY <1>4, ThrowCommitted, ReturnCommitted, GoesOnCommitted
     DEF StepSimulators, ProcessModel, SimulatorNotOperational, ProcessThrows, InState,
         Visited, Done, Throwable, Ending, States, StepStates, flags, None
<1>5. CASE StepControllers
  <2>1. ASSUME NEW m \in Models, ProcessController(m) PROVE EndCommitted'
    BY <2>1, GoesOnCommitted DEF ProcessController, InState, Visited, flags
  <2>2. ASSUME NEW m \in Models, ControllerDies(m) PROVE EndCommitted'
    BY <2>2, GoesOnCommitted, ThrowCommitted DEF ControllerDies, InState, flags, None
  <2>3. ASSUME NEW m \in Models, NEW x \in Throwable, ControllerInterrupts(m, x)
        PROVE  EndCommitted'
    BY <2>3, GoesOnCommitted, ThrowCommitted DEF ControllerInterrupts, InState, Throwable, flags, None
  <2>4. ASSUME NEW x \in Throwable, ControllerThrows(x) PROVE EndCommitted'
    BY <2>4, ThrowCommitted DEF ControllerThrows, InState, None
  <2>5. ASSUME Done("STEP_CONTROLLERS", "STEP_END") PROVE EndCommitted'
    BY <2>5, ReturnCommitted DEF Done, InState, Ending, States, StepStates, None
  <2>. QED  BY <1>5, <2>1, <2>2, <2>3, <2>4, <2>5 DEF StepControllers
<1>. QED  BY <1>1, <1>2, <1>3, <1>4, <1>5

LEMMA EndStatesCommitted ==
  ASSUME TypeOK, EndCommitted,
         \/ \E s \in {"PAUSE", "RESUME", "SUCCESS", "FAIL", "KEEP_ALIVE", "PROBE"} :
              PassThrough(s)
         \/ Stop \/ Reset \/ Abort \/ Disconnect
  PROVE  EndCommitted'
<1>1. ASSUME NEW s \in {"PAUSE", "RESUME", "SUCCESS", "FAIL", "KEEP_ALIVE", "PROBE"},
             PassThrough(s)
      PROVE  EndCommitted'
  BY <1>1, ReturnCommitted
     DEF PassThrough, Done, InState, Successor, Ending, States, StepStates, None
<1>2. CASE Stop \/ Reset
  BY <1>2, ReturnCommitted, GoesOnCommitted
     DEF Stop, StopModel, StopDone, Reset, ResetModel, ResetFails, ResetDone, Done, InState,
         Visited, Ending, States, flags, None
<1>3. CASE Abort
  BY <1>3, ReturnCommitted, GoesOnCommitted
     DEF Abort, AbortModel, AbortDone, Done, InState, Visited, Ending, States, flags, None
<1>4. ASSUME NEW m \in Models, DisconnectModel(m) PROVE EndCommitted'
  BY <1>4, GoesOnCommitted DEF DisconnectModel, Visited, flags
<1>5. ASSUME NEW x \in Throwable, DisconnectThrows(x) PROVE EndCommitted'
  BY <1>5, ThrowCommitted DEF DisconnectThrows, InState, None
<1>6. CASE DisconnectDone
  BY <1>6 DEF DisconnectDone, Done, InState, Return, EndState, Rest, EndCommitted, Ending, None
<1>. QED  BY <1>1, <1>2, <1>3, <1>4, <1>5, <1>6 DEF Disconnect

LEMMA EnvironmentCommitted ==
  ASSUME TypeOK, EndCommitted, Environment
  PROVE  EndCommitted'
<1>1. ASSUME NEW r \in Requests, TriggerRequests(r) PROVE EndCommitted'
  <2>1. running \notin {None, "ABORT", "DISCONNECT"}
    BY <1>1 DEF TriggerRequests, FiresTriggers, None
  <2>. QED  BY <1>1, <2>1, GoesOnCommitted, ThrowCommitted
            DEF TriggerRequests, machine, flags, Throwable
<1>2. ASSUME NEW x \in Throwable, TriggerThrows(x) PROVE EndCommitted'
  <2>1. running \notin {None, "ABORT"}
    BY <1>2 DEF TriggerThrows, FiresTriggers, None
  <2>. QED  BY <1>2, <2>1, ThrowCommitted DEF TriggerThrows
<1>3. ASSUME UNCHANGED <<status, running, id, prev, slot, initEnded>> PROVE EndCommitted'
  BY <1>3, GoesOnCommitted
<1>4. CASE Signal
  BY <1>4, GoesOnCommitted DEF Signal, HandlerThrows, AbortDirectly, machine, flags
<1>. QED  BY <1>1, <1>2, <1>3, <1>4
          DEF Environment, DropOut, TriggerKeepsAlive, WatchdogTimeout, machine, flags

\* EndCommitted is inductive.
THEOREM EndCommittedInvariant == Spec => []EndCommitted
<1>1. Init => EndCommitted
  BY DEF Init, EndCommitted, Ending, None
<1>2. TypeOK /\ EndCommitted /\ [Next]_vars => EndCommitted'
  <2>. SUFFICES ASSUME TypeOK, EndCommitted, [Next]_vars PROVE EndCommitted'
    OBVIOUS
  <2>1. CASE Run
    BY <2>1, LoopCommitted, OpenStatesCommitted, EndStatesCommitted DEF Run
  <2>2. CASE Environment
    BY <2>2, EnvironmentCommitted
  <2>3. CASE UNCHANGED vars
    BY <2>3 DEF EndCommitted, vars, machine, flags
  <2>. QED  BY <2>1, <2>2, <2>3 DEF Next, Terminated
<1>. QED  BY <1>1, <1>2, TypeCorrect, PTL DEF Spec

\* At the top of the loop, only the loop itself starts a state.
LEMMA OnlyLoopStarts ==
  ASSUME running = None, Next, running' # None
  PROVE  RunInterrupt \/ RunNominal
<1>1. CASE Loop
  BY <1>1 DEF Loop, HandlePauseOrResume, Finish, machine
<1>2. ~(Connect \/ Start \/ StepBegin \/ StepEnd)
  BY DEF Connect, ConnectModel, ConnectFails, ConnectAgain, ConnectDone, ConnectThrows, Start,
         StartModel, StartThrows, StartDone, StepBegin, StepEnd, Done, InState, None
<1>3. ~(StepSimulators \/ StepControllers)
  BY DEF StepSimulators, ProcessModel, SimulatorNotOperational, ProcessThrows,
         StepControllers, ProcessController, ControllerDies, ControllerInterrupts,
         ControllerThrows, Done, InState, None
<1>4. \A s \in {"PAUSE", "RESUME", "SUCCESS", "FAIL", "KEEP_ALIVE", "PROBE"} : ~PassThrough(s)
  BY DEF PassThrough, Done, InState, None
<1>5. ~(Stop \/ Reset \/ Abort \/ Disconnect)
  BY DEF Stop, StopModel, StopDone, Reset, ResetModel, ResetFails, ResetDone, Abort,
         AbortModel, AbortDone, Disconnect, DisconnectModel, DisconnectThrows,
         DisconnectDone, Done, InState, None
<1>6. ~Environment /\ ~Terminated
  BY DEF Environment, TriggerRequests, TriggerThrows, FiresTriggers, DropOut,
         TriggerKeepsAlive, WatchdogTimeout, Signal, Throw, EndState, Terminated, vars, machine,
         None
<1>. QED  BY <1>1, <1>2, <1>3, <1>4, <1>5, <1>6 DEF Next, Run

\* Once a state at the end of the run has run, no interrupt, no failure and no
\* exception leads back into the simulation: the machine starts, steps, pauses or
\* resumes nothing that it has begun to end, whatever stop(), abort() and
\* disconnect() of the models throw.
THEOREM EndIsFinalHolds == Spec => EndIsFinal
<1>1. TypeOK /\ EndCommitted /\ [Next]_vars =>
        [running = None /\ prev \in Ending /\ running' # None
           => running' \in Ending \cup {"CONNECT"}]_vars
  <2>. SUFFICES ASSUME TypeOK, EndCommitted, Next, running = None, prev \in Ending,
                       running' # None
                PROVE  running' \in Ending \cup {"CONNECT"}
    OBVIOUS
  <2>1. CASE RunInterrupt
    BY <2>1 DEF TypeOK, RunInterrupt, Enter, Interrupts, Requests, Ending
  <2>2. CASE RunNominal
    BY <2>2 DEF EndCommitted, RunNominal, AtLoopTop, Enter, Ends, None
  <2>. QED  BY <2>1, <2>2, OnlyLoopStarts
<1>. QED  BY <1>1, TypeCorrect, EndCommittedInvariant, PTL DEF Spec, EndIsFinal

-----------------------------------------------------------------------------
(* The temporary server.  The invariant: before initialization has ended    *)
(* only Connect and the states at the end are run; while a server runs that *)
(* is not configured, the machine is pausing, or on a way that leads to the *)
(* end of the run (or to a second Connect, which throws) or through Resume. *)

After == {"RESUME", "STOP", "KEEP_ALIVE", "DISCONNECT", "ABORT", "CONNECT", None}

Initializing ==
  /\ running \in Ending \cup {"CONNECT", None}
  /\ id \in Ending \cup {"CONNECT", None}

Temporary == server /\ ~config.listen

PausedOrLeaving ==
  \/ running = None /\ id = "PAUSE" /\ (prev = "PAUSE" \/ slot \in Ends)
  \/ running = None /\ id \in After
  \/ running = "PAUSE" /\ id = "PAUSE"
  \/ running \in Ends \cup {"KEEP_ALIVE", "DISCONNECT", "CONNECT"}
     /\ id \in After \cup {"PAUSE"}

ServerAccounted ==
  /\ Temporary => initEnded
  /\ status = "running" /\ ~initEnded => Initializing
  /\ status = "running" /\ Temporary  => PausedOrLeaving

\* The states that a temporary server never sees.
LEMMA NoServerState ==
  ASSUME ServerAccounted, status = "running",
         running \in StepStates \cup {"START", "RESUME", "PROBE"},
         UNCHANGED <<config, server, initEnded>>
  PROVE  ServerAccounted'
BY DEF ServerAccounted, Initializing, Temporary, PausedOrLeaving, StepStates, Ending, Ends, None

\* The states on the way to the end of the run.
LEMMA LeavingState ==
  ASSUME ServerAccounted, status = "running",
         running \in Ends \cup {"KEEP_ALIVE", "DISCONNECT"},
         UNCHANGED <<config, server, initEnded>>,
         \/ UNCHANGED <<running, id>>
         \/ running' = None /\ id' \in After \ {"RESUME"}
         \/ running' = None /\ id' = id /\ slot' \in Ends
         \/ status' = "crashed"
  PROVE  ServerAccounted'
BY DEF ServerAccounted, Initializing, Temporary, PausedOrLeaving, Ending, Ends, After, None

\* The Pause state itself.
LEMMA PauseState ==
  ASSUME ServerAccounted, status = "running", running = "PAUSE",
         UNCHANGED <<config, server, initEnded>>,
         \/ UNCHANGED <<running, id>>
         \/ running' = None /\ prev' = "PAUSE" /\ id' \in {"PAUSE", "RESUME", "ABORT", id}
         \/ status' = "crashed"
  PROVE  ServerAccounted'
BY DEF ServerAccounted, Initializing, Temporary, PausedOrLeaving, Ending, Ends, After, None

LEMMA LoopAccounted ==
  ASSUME TypeOK, ServerAccounted, Loop
  PROVE  ServerAccounted'
<1>. status = "running" /\ running = None
  BY DEF Loop, HandlePauseOrResume, RunInterrupt, RunNominal, Finish, AtLoopTop
<1>1. CASE HandlePauseOrResume
  BY <1>1 DEF ServerAccounted, Initializing, Temporary, PausedOrLeaving, Ends, None,
              HandlePauseOrResume, machine
<1>2. CASE RunInterrupt
  <2>1. /\ slot \in Ends /\ running' = slot /\ slot' = None
        /\ UNCHANGED <<config, status, id, initEnded>>
    BY <1>2 DEF TypeOK, RunInterrupt, Enter, Interrupts, Requests, Ends
  <2>2. server' = server
    BY <1>2, <2>1 DEF TypeOK, RunInterrupt, Enter, StartsServer, StopsServer, Ends
  <2>. QED  BY <2>1, <2>2 DEF ServerAccounted, Initializing, Temporary, PausedOrLeaving,
                              Ending, Ends, After, None
<1>3. CASE RunNominal
  <2>1. /\ running' = id /\ id # None /\ slot' = None /\ slot = None
        /\ UNCHANGED <<config, status, id, initEnded>>
    BY <1>3 DEF RunNominal, Enter
  <2>2. id = "PAUSE" => running' = "PAUSE" /\ initEnded
    BY <2>1 DEF ServerAccounted, Initializing, Ending, None
  <2>3. id # "PAUSE" => Temporary' = (Temporary /\ id # "RESUME")
    BY <1>3, <2>1 DEF TypeOK, RunNominal, Enter, StartsServer, StopsServer, Temporary, Config
  <2>. QED  BY <2>1, <2>2, <2>3 DEF ServerAccounted, Initializing, PausedOrLeaving, Ends,
                                    After, None
<1>4. CASE Finish
  BY <1>4 DEF ServerAccounted, Temporary, Finish, flags
<1>. QED  BY <1>1, <1>2, <1>3, <1>4 DEF Loop

LEMMA ConnectAccounted ==
  ASSUME TypeOK, EndCommitted, ServerAccounted, Connect
  PROVE  ServerAccounted'
<1>. status = "running" /\ running = "CONNECT"
  BY DEF Connect, ConnectModel, ConnectFails, ConnectAgain, ConnectDone, ConnectThrows, Done,
         InState
<1>1. ASSUME NEW m \in Models, ConnectModel(m) PROVE ServerAccounted'
  BY <1>1 DEF ServerAccounted, Initializing, Temporary, PausedOrLeaving, ConnectModel,
              Visited, flags
<1>2. CASE ConnectFails
  BY <1>2 DEF ServerAccounted, Initializing, Temporary, PausedOrLeaving, After, Ending,
              ConnectFails, Return, EndState, flags, None
<1>3. CASE ConnectAgain
  <2>1. running' = None /\ (id' = "ABORT" \/ status' = "crashed")
    BY <1>3 DEF ConnectAgain, Throw, EndState, Crash
  <2>. QED  BY <1>3, <2>1 DEF ServerAccounted, Initializing, Temporary, PausedOrLeaving,
                              After, Ending, ConnectAgain, flags
<1>4. CASE ConnectDone
  BY <1>4 DEF EndCommitted, ServerAccounted, Temporary, ConnectDone, Rest
<1>5. ASSUME NEW x \in Throwable, ConnectThrows(x) PROVE ServerAccounted'
  <2>1. UNCHANGED <<config, server, initEnded>>
    BY <1>5 DEF ConnectThrows, flags
  <2>. QED  BY <1>5, <2>1, ThrowAccounted
            DEF ServerAccounted, Initializing, Temporary, PausedOrLeaving, ConnectThrows, Ending,
                Ends, After, None
<1>. QED  BY <1>1, <1>2, <1>3, <1>4, <1>5 DEF Connect

LEMMA StepsAccounted ==
  ASSUME ServerAccounted,
         \/ Start \/ StepBegin \/ StepSimulators \/ StepControllers \/ StepEnd
         \/ PassThrough("RESUME") \/ PassThrough("PROBE")
  PROVE  ServerAccounted'
<1>1. /\ status = "running"
      /\ running \in StepStates \cup {"START", "RESUME", "PROBE"}
  BY DEF Start, StartModel, StartThrows, StartDone, StepBegin, StepSimulators, ProcessModel,
         SimulatorNotOperational, ProcessThrows, StepControllers, ProcessController,
         ControllerDies, ControllerInterrupts, ControllerThrows, StepEnd, PassThrough,
         Done, InState, StepStates
<1>2. UNCHANGED <<config, server, initEnded>>
  <2>1. Start => UNCHANGED <<config, flags>>
    BY DEF Start, StartModel, StartThrows, StartDone, Visited, Rest
  <2>2. StepBegin \/ StepEnd => UNCHANGED <<config, flags>>
    BY DEF StepBegin, StepEnd, Rest
  <2>3. StepSimulators => UNCHANGED <<config, flags>>
    BY DEF StepSimulators, ProcessModel, SimulatorNotOperational, ProcessThrows, Visited, Rest
  <2>4. StepControllers => UNCHANGED <<config, flags>>
    BY DEF StepControllers, ProcessController, ControllerDies, ControllerInterrupts,
           ControllerThrows, Visited, Rest
  <2>5. PassThrough("RESUME") \/ PassThrough("PROBE") => UNCHANGED <<config, flags>>
    BY DEF PassThrough, Rest
  <2>. QED  BY <2>1, <2>2, <2>3, <2>4, <2>5 DEF flags
<1>. QED  BY <1>1, <1>2, NoServerState

LEMMA LeavingAccounted ==
  ASSUME ServerAccounted,
         \/ \E s \in {"PAUSE", "SUCCESS", "FAIL", "KEEP_ALIVE"} : PassThrough(s)
         \/ Stop \/ Reset \/ Abort \/ Disconnect
  PROVE  ServerAccounted'
<1>1. CASE PassThrough("PAUSE")
  <2>1. running' = None /\ prev' = "PAUSE" /\ id' \in {"PAUSE", "RESUME", "ABORT", id}
    BY <1>1 DEF PassThrough, Done, InState, Return, EndState, Successor
  <2>. QED  BY <1>1, <2>1, PauseState DEF PassThrough, Done, InState, Rest, flags
<1>2. ASSUME NEW s \in {"SUCCESS", "FAIL", "KEEP_ALIVE"}, PassThrough(s)
      PROVE  ServerAccounted'
  <2>1. Successor(s) \in After \ {"RESUME"}
    BY DEF Successor, After
  <2>2. /\ running = s /\ running' = None /\ id' \in After \ {"RESUME"}
        /\ status = "running" /\ UNCHANGED <<config, server, initEnded>>
    BY <1>2, <2>1 DEF PassThrough, Done, InState, Return, EndState, Rest, flags, After
  <2>. QED  BY <2>2, LeavingState DEF Ends
<1>3. CASE Stop
  <2>1. status = "running" /\ running = "STOP"
    BY <1>3 DEF Stop, StopModel, StopDone, Done, InState
  <2>2. ASSUME NEW m \in Models, StopModel(m) PROVE ServerAccounted'
    BY <2>1, <2>2, LeavingState DEF StopModel, Visited, flags, Ends
  <2>3. CASE StopDone
    <3>1. running' = None /\ id' \in After \ {"RESUME"}
          /\ UNCHANGED <<config, server, initEnded>>
      BY <2>3 DEF StopDone, Done, Return, EndState, Rest, flags, After
    <3>. QED  BY <2>1, <3>1, LeavingState DEF Ends
  <2>. QED  BY <1>3, <2>2, <2>3 DEF Stop
<1>4. CASE Reset
  <2>1. status = "running" /\ running = "RESET"
    BY <1>4 DEF Reset, ResetModel, ResetFails, ResetDone, Done, InState
  <2>2. ASSUME NEW m \in Models, ResetModel(m) PROVE ServerAccounted'
    BY <2>1, <2>2, LeavingState DEF ResetModel, Visited, flags, Ends
  <2>3. ASSUME NEW m \in Models, ResetFails(m) PROVE ServerAccounted'
    <3>1. running' = None /\ id' \in After \ {"RESUME"}
          /\ UNCHANGED <<config, server, initEnded>>
      BY <2>3 DEF ResetFails, Return, EndState, flags, After
    <3>. QED  BY <2>1, <3>1, LeavingState DEF Ends
  <2>4. CASE ResetDone
    <3>1. running' = None /\ id' \in After \ {"RESUME"}
          /\ UNCHANGED <<config, server, initEnded>>
      BY <2>4 DEF ResetDone, Done, Return, EndState, Rest, flags, After
    <3>. QED  BY <2>1, <3>1, LeavingState DEF Ends
  <2>. QED  BY <1>4, <2>2, <2>3, <2>4 DEF Reset
<1>5. ASSUME NEW m \in Models, AbortModel(m) \/ DisconnectModel(m) PROVE ServerAccounted'
  BY <1>5, LeavingState DEF AbortModel, DisconnectModel, InState, Visited, flags, Ends
<1>6. CASE AbortDone \/ DisconnectDone
  <2>1. /\ status = "running" /\ running \in {"ABORT", "DISCONNECT"} /\ running' = None
        /\ id' \in After \ {"RESUME"} /\ UNCHANGED <<config, server, initEnded>>
    BY <1>6 DEF AbortDone, DisconnectDone, Done, InState, Return, EndState, Rest, flags, After,
                None
  <2>. QED  BY <2>1, LeavingState DEF Ends
<1>7. ASSUME NEW x \in Throwable, DisconnectThrows(x) PROVE ServerAccounted'
  <2>1. /\ status = "running" /\ running = "DISCONNECT"
        /\ Throw(x) /\ UNCHANGED <<config, server, initEnded>>
    BY <1>7 DEF DisconnectThrows, InState, flags
  <2>. QED  BY <2>1, ThrowAccounted, LeavingState DEF After
<1>. QED  BY <1>1, <1>2, <1>3, <1>4, <1>5, <1>6, <1>7 DEF Abort, Disconnect

\* A callback belongs to a state that fires triggers.
LEMMA CallbackAccounted ==
  ASSUME ServerAccounted,
         \/ \E r \in Requests : TriggerRequests(r)
         \/ \E x \in Throwable : TriggerThrows(x)
  PROVE  ServerAccounted'
<1>1. /\ status = "running" /\ UNCHANGED <<config, server, initEnded>>
      /\ running \in StepStates \cup {"START", "RESUME"} \cup {"PAUSE"}
                     \cup {"SUCCESS", "FAIL", "STOP", "RESET", "KEEP_ALIVE"}
  BY DEF TriggerRequests, TriggerThrows, FiresTriggers, StepStates, flags
<1>2. \/ UNCHANGED <<running, id>>
      \/ /\ running' = None /\ prev' = running
         /\ \/ id' = "ABORT" /\ slot' = slot
            \/ id' = id /\ slot' \in Ends
            \/ status' = "crashed"
  BY ThrowAccounted DEF TriggerRequests, TriggerThrows, machine, Throwable
<1>3. CASE running \in StepStates \cup {"START", "RESUME"}
  BY <1>1, <1>3, NoServerState
<1>4. CASE running = "PAUSE"
  BY <1>1, <1>2, <1>4, PauseState
<1>5. CASE running \in {"SUCCESS", "FAIL", "STOP", "RESET", "KEEP_ALIVE"}
  BY <1>1, <1>2, <1>5, LeavingState DEF Ends, After
<1>. QED  BY <1>1, <1>3, <1>4, <1>5

LEMMA EnvironmentAccounted ==
  ASSUME ServerAccounted, Environment
  PROVE  ServerAccounted'
<1>1. ASSUME UNCHANGED <<config, status, running, id, prev, slot, server, initEnded>>
      PROVE  ServerAccounted'
  BY <1>1 DEF ServerAccounted, Initializing, Temporary, PausedOrLeaving
<1>2. CASE Signal
  <2>1. /\ UNCHANGED <<config, running, id, prev, server, initEnded>>
        /\ \/ slot' = slot /\ status' \in {status, "crashed"}
           \/ slot = None /\ slot' = "ABORT" /\ UNCHANGED status
    BY <1>2 DEF Signal, HandlerThrows, AbortDirectly, machine, flags
  <2>. QED  BY <2>1 DEF ServerAccounted, Initializing, Temporary, PausedOrLeaving, Ends, None
<1>. QED  BY <1>1, <1>2, CallbackAccounted
          DEF Environment, DropOut, TriggerKeepsAlive, WatchdogTimeout, machine, flags

\* ServerAccounted is inductive.
THEOREM ServerAccountedInvariant == Spec => []ServerAccounted
<1>1. Init => ServerAccounted
  BY DEF Init, ServerAccounted, Initializing, Temporary, None
<1>2. TypeOK /\ EndCommitted /\ ServerAccounted /\ [Next]_vars => ServerAccounted'
  <2>. SUFFICES ASSUME TypeOK, EndCommitted, ServerAccounted, [Next]_vars PROVE ServerAccounted'
    OBVIOUS
  <2>1. CASE Run
    BY <2>1, LoopAccounted, ConnectAccounted, StepsAccounted, LeavingAccounted DEF Run
  <2>2. CASE Environment
    BY <2>2, EnvironmentAccounted
  <2>3. CASE UNCHANGED vars
    BY <2>3 DEF ServerAccounted, Initializing, Temporary, PausedOrLeaving, vars, machine, flags
  <2>. QED  BY <2>1, <2>2, <2>3 DEF Next, Terminated
<1>. QED  BY <1>1, <1>2, TypeCorrect, EndCommittedInvariant, PTL DEF Spec

\* Pause never starts the temporary server a second time, so the assertion at
\* the head of Server::start holds for it.
THEOREM TempServerFreeHolds == Spec => []TempServerFree
<1>1. ServerAccounted => TempServerFree
  BY DEF ServerAccounted, Temporary, PausedOrLeaving, TempServerFree, AtLoopTop,
         StartsServer, Ends, After, None
<1>. QED  BY <1>1, ServerAccountedInvariant, PTL

-----------------------------------------------------------------------------
(* How a state is left.                                                    *)

\* The last states of a run.
Final == {"ABORT", "DISCONNECT"}

\* A state goes on, or it is left by its return value or by an exception.
GoesOn == UNCHANGED <<status, id, running, prev>>

Leaves ==
  /\ running' = None /\ prev' = running
  /\ id' \in {id} \cup States
  /\ status' \in {status, "crashed"}

\* The actions of the states that have not committed the run to its end.
OpenStates ==
  \/ Connect \/ Start \/ StepBegin \/ StepSimulators \/ StepControllers \/ StepEnd
  \/ \E s \in {"PAUSE", "RESUME", "SUCCESS", "FAIL", "KEEP_ALIVE", "PROBE"} : PassThrough(s)
  \/ Stop \/ Reset

\* A returned state and an exception have this shape.
LEMMA ReturnLeaves ==
  ASSUME NEW next \in States, Return(next), UNCHANGED status
  PROVE  Leaves
BY DEF Return, EndState, Leaves, States

LEMMA ThrowLeaves ==
  ASSUME NEW x \in Throwable, Throw(x)
  PROVE  Leaves
BY DEF Throw, EndState, Crash, Leaves, States

\* Every action of an open state has it.
LEMMA OpenShape ==
  ASSUME OpenStates
  PROVE  status = "running" /\ running \in States \ Final /\ (GoesOn \/ Leaves)
<1>1. CASE Connect
  <2>1. ASSUME NEW m \in Models, ConnectModel(m) PROVE running = "CONNECT" /\ GoesOn
    BY <2>1 DEF ConnectModel, InState, Visited, GoesOn
  <2>2. ASSUME ConnectFails \/ ConnectDone PROVE Leaves
    <3>1. PICK s \in {"ABORT", "PROBE", "START"} : Return(s)
      BY <2>2 DEF ConnectFails, ConnectDone, Done
    <3>. QED  BY <2>2, <3>1, ReturnLeaves
              DEF ConnectFails, ConnectDone, Rest, States
  <2>3. ASSUME ConnectAgain \/ \E x \in Throwable : ConnectThrows(x) PROVE Leaves
    <3>1. PICK x \in Throwable : Throw(x)
      BY <2>3 DEF ConnectAgain, ConnectThrows, Throwable
    <3>. QED  BY <3>1, ThrowLeaves
  <2>. QED  BY <1>1, <2>1, <2>2, <2>3
            DEF Connect, ConnectModel, ConnectFails, ConnectAgain, ConnectDone, ConnectThrows,
                Done, InState, States, Final
<1>2. CASE Start
  <2>1. ASSUME NEW m \in Models, StartModel(m) PROVE GoesOn
    BY <2>1 DEF StartModel, Visited, GoesOn
  <2>2. ASSUME NEW x \in Throwable, StartThrows(x) PROVE Leaves
    BY <2>2, ThrowLeaves DEF StartThrows
  <2>3. ASSUME StartDone PROVE Leaves
    BY <2>3, ReturnLeaves DEF StartDone, Done, StepOrPause, Rest, States, StepStates
  <2>. QED  BY <1>2, <2>1, <2>2, <2>3
            DEF Start, StartModel, StartThrows, StartDone, Done, InState, States, Final
<1>3. CASE StepBegin \/ StepEnd
  <2>1. Leaves
    BY <1>3, ReturnLeaves DEF StepBegin, StepEnd, Done, StepOrPause, Rest, States, StepStates
  <2>. QED  BY <1>3, <2>1 DEF StepBegin, StepEnd, Done, InState, States, StepStates, Final
<1>4. CASE StepSimulators
  <2>1. ASSUME NEW m \in Models, ProcessModel(m) PROVE GoesOn
    BY <2>1 DEF ProcessModel, Visited, GoesOn
  <2>2. ASSUME NEW m \in Models, SimulatorNotOperational(m) PROVE Leaves
    BY <2>2, ThrowLeaves DEF SimulatorNotOperational, Throwable
  <2>3. ASSUME NEW x \in Throwable, ProcessThrows(x) PROVE Leaves
    BY <2>3, ThrowLeaves DEF ProcessThrows
  <2>4. ASSUME Done("STEP_SIMULATORS", "STEP_CONTROLLERS"), Rest PROVE Leaves
    BY <2>4, ReturnLeaves DEF Done, Rest, States, StepStates
  <2>. QED  BY <1>4, <2>1, <2>2, <2>3, <2>4
            DEF StepSimulators, ProcessModel, SimulatorNotOperational, ProcessThrows, Done,
                InState, States, StepStates, Final
<1>5. CASE StepControllers
  <2>1. ASSUME NEW m \in Models, ProcessController(m) PROVE GoesOn
    BY <2>1 DEF ProcessController, Visited, GoesOn
  <2>2. ASSUME NEW m \in Models, ControllerDies(m) PROVE GoesOn \/ Leaves
    BY <2>2, ThrowLeaves DEF ControllerDies, GoesOn, Throwable
  <2>3. ASSUME NEW m \in Models, NEW x \in Throwable, ControllerInterrupts(m, x)
        PROVE  GoesOn \/ Leaves
    BY <2>3, ThrowLeaves DEF ControllerInterrupts, GoesOn, Throwable
  <2>4. ASSUME NEW x \in Throwable, ControllerThrows(x) PROVE Leaves
    BY <2>4, ThrowLeaves DEF ControllerThrows
  <2>5. ASSUME Done("STEP_CONTROLLERS", "STEP_END"), Rest PROVE Leaves
    BY <2>5, ReturnLeaves DEF Done, Rest, States, StepStates
  <2>. QED  BY <1>5, <2>1, <2>2, <2>3, <2>4, <2>5
            DEF StepControllers, ProcessController, ControllerDies, ControllerInterrupts,
                ControllerThrows, Done, InState, States, StepStates, Final
<1>6. ASSUME NEW s \in {"PAUSE", "RESUME", "SUCCESS", "FAIL", "KEEP_ALIVE", "PROBE"},
             PassThrough(s)
      PROVE  status = "running" /\ running \in States \ Final /\ Leaves
  <2>1. Successor(s) \in States
    BY DEF Successor, States, StepStates
  <2>. QED  BY <1>6, <2>1, ReturnLeaves DEF PassThrough, Done, InState, Rest, States, Final
<1>7. CASE Stop
  <2>1. ASSUME NEW m \in Models, StopModel(m) PROVE GoesOn
    BY <2>1 DEF StopModel, Visited, GoesOn
  <2>2. ASSUME StopDone PROVE Leaves
    BY <2>2, ReturnLeaves DEF StopDone, Done, Rest, States
  <2>. QED  BY <1>7, <2>1, <2>2 DEF Stop, StopModel, StopDone, Done, InState, States, Final
<1>8. CASE Reset
  <2>1. ASSUME NEW m \in Models, ResetModel(m) PROVE GoesOn
    BY <2>1 DEF ResetModel, Visited, GoesOn
  <2>2. ASSUME NEW m \in Models, ResetFails(m) PROVE Leaves
    BY <2>2, ReturnLeaves DEF ResetFails, States
  <2>3. ASSUME ResetDone PROVE Leaves
    BY <2>3, ReturnLeaves DEF ResetDone, Done, Rest, States
  <2>. QED  BY <1>8, <2>1, <2>2, <2>3
            DEF Reset, ResetModel, ResetFails, ResetDone, Done, InState, States, Final
<1>. QED  BY <1>1, <1>2, <1>3, <1>4, <1>5, <1>6, <1>7, <1>8 DEF OpenStates

-----------------------------------------------------------------------------
(* A run that ends has disconnected its models.  The invariant: Disconnect  *)
(* has disconnected the models it has visited, and where no nominal state   *)
(* is left, at most a late abort still runs, and all are disconnected.      *)

Disconnected(S) == \A m \in S : life[m] = "disconnected"

DisconnectReached ==
  /\ running = "DISCONNECT" => Disconnected(ctx \ todo)
  /\ id = None => Disconnected(ctx)
  /\ status = "done" => id = None

LEMMA LoopReached ==
  ASSUME TypeOK, EndCommitted, DisconnectReached, Loop
  PROVE  DisconnectReached'
<1>. USE DEF DisconnectReached, Disconnected
<1>1. CASE HandlePauseOrResume
  BY <1>1 DEF HandlePauseOrResume, AtLoopTop, machine, models
<1>2. CASE RunInterrupt
  <2>1. running' = slot /\ slot \in Interrupts /\ running = None
    BY <1>2 DEF TypeOK, RunInterrupt, Enter, AtLoopTop
  <2>2. id = None => slot = "ABORT"
    BY <1>2 DEF RunInterrupt, AtLoopTop, EndCommitted
  <2>. QED  BY <1>2, <2>1, <2>2 DEF RunInterrupt, Enter, models, Interrupts, Requests, None
<1>3. CASE RunNominal
  <2>1. running' = id /\ id' = id /\ id # None /\ UNCHANGED <<status, ctx, life>>
        /\ todo' = Visits(id) /\ status = "running"
    BY <1>3 DEF RunNominal, Enter, AtLoopTop, models
  <2>2. Visits("DISCONNECT") = ctx
    BY DEF Visits
  <2>. QED  BY <2>1, <2>2
<1>4. CASE Finish
  BY <1>4 DEF Finish, AtLoopTop, machine, models
<1>. QED  BY <1>1, <1>2, <1>3, <1>4 DEF Loop

\* An open state has a nominal successor, and is not Disconnect.
LEMMA OpenReached ==
  ASSUME TypeOK, EndCommitted, DisconnectReached, OpenStates
  PROVE  DisconnectReached'
<1>1. status = "running" /\ running \in States \ Final /\ (GoesOn \/ Leaves)
  BY OpenShape
<1>2. id # None /\ id' # None /\ status' # "done"
  BY <1>1 DEF EndCommitted, GoesOn, Leaves, States, StepStates, Final, None
<1>3. running' # "DISCONNECT"
  BY <1>1 DEF GoesOn, Leaves, States, StepStates, Final, None
<1>. QED  BY <1>2, <1>3 DEF DisconnectReached

LEMMA FinalReached ==
  ASSUME TypeOK, EndCommitted, DisconnectReached, Abort \/ Disconnect
  PROVE  DisconnectReached'
<1>. USE DEF DisconnectReached, Disconnected
<1>1. ASSUME NEW m \in Models, AbortModel(m) PROVE DisconnectReached'
  BY <1>1 DEF AbortModel, InState, Visited
<1>2. CASE AbortDone
  BY <1>2 DEF AbortDone, Done, InState, Return, EndState, Rest, None
<1>3. ASSUME NEW m \in Models, DisconnectModel(m) PROVE DisconnectReached'
  <2>1. running = "DISCONNECT" /\ status = "running" /\ id = "DISCONNECT"
    BY <1>3 DEF DisconnectModel, InState, EndCommitted
  <2>2. life' = [life EXCEPT ![m] = "disconnected"] /\ todo' = todo \ {m}
        /\ UNCHANGED <<status, id, running, ctx>>
    BY <1>3 DEF DisconnectModel, Visited
  <2>3. \A n \in ctx \ todo' : life'[n] = "disconnected"
    BY <2>1, <2>2 DEF TypeOK
  <2>. QED  BY <2>1, <2>2, <2>3 DEF None
<1>4. ASSUME NEW x \in Throwable, DisconnectThrows(x) PROVE DisconnectReached'
  <2>1. Leaves /\ running = "DISCONNECT" /\ status = "running"
    BY <1>4, ThrowLeaves DEF DisconnectThrows, InState
  <2>2. id' # None /\ status' # "done" /\ running' # "DISCONNECT"
    BY <2>1 DEF EndCommitted, Leaves, States, StepStates, None
  <2>. QED  BY <2>2
<1>5. CASE DisconnectDone
  <2>1. running = "DISCONNECT" /\ todo = {} /\ status = "running"
        /\ running' = None /\ prev' = "DISCONNECT" /\ UNCHANGED <<status, ctx, life>>
    BY <1>5 DEF DisconnectDone, Done, InState, Return, EndState, Rest, models
  <2>. QED  BY <2>1 DEF Final, None
<1>. QED  BY <1>1, <1>2, <1>3, <1>4, <1>5 DEF Abort, Disconnect

LEMMA EnvironmentReached ==
  ASSUME TypeOK, EndCommitted, DisconnectReached, Environment
  PROVE  DisconnectReached'
<1>1. ASSUME UNCHANGED <<id, running, todo, prev, ctx, life>>, status' \in {status, "crashed"}
      PROVE  DisconnectReached'
  BY <1>1 DEF DisconnectReached, Disconnected
<1>2. ASSUME FiresTriggers \/ (status = "running" /\ running = "STEP_END"),
             NEW x \in Throwable, Throw(x)
      PROVE  DisconnectReached'
  <2>1. status = "running" /\ running \in States \ Final /\ Leaves
    BY <1>2, ThrowLeaves DEF FiresTriggers, States, StepStates, Final
  <2>2. id' # None /\ status' # "done" /\ running' # "DISCONNECT"
    BY <2>1 DEF EndCommitted, Leaves, States, StepStates, Final, None
  <2>. QED  BY <2>2 DEF DisconnectReached
<1>3. ASSUME NEW r \in Requests, TriggerRequests(r) PROVE DisconnectReached'
  BY <1>1, <1>2, <1>3 DEF TriggerRequests, Throwable, machine
<1>4. ASSUME NEW x \in Throwable, TriggerThrows(x) PROVE DisconnectReached'
  BY <1>2, <1>4 DEF TriggerThrows
<1>5. CASE Signal
  BY <1>1, <1>5 DEF Signal, HandlerThrows, AbortDirectly, machine
<1>. QED  BY <1>1, <1>3, <1>4, <1>5
          DEF Environment, DropOut, TriggerKeepsAlive, WatchdogTimeout, machine, models

\* However the run came to its end, it has called disconnect() on each model that
\* is left in the context.
THEOREM EndDisconnectsHolds == Spec => []EndDisconnects
<1>1. Init => DisconnectReached
  BY DEF Init, DisconnectReached, Disconnected, None
<1>2. TypeOK /\ EndCommitted /\ DisconnectReached /\ [Next]_vars => DisconnectReached'
  <2>. SUFFICES ASSUME TypeOK, EndCommitted, DisconnectReached, [Next]_vars
                PROVE  DisconnectReached'
    OBVIOUS
  <2>1. CASE Run
    BY <2>1, LoopReached, OpenReached, FinalReached DEF Run, OpenStates
  <2>2. CASE Environment
    BY <2>2, EnvironmentReached
  <2>3. CASE UNCHANGED vars
    BY <2>3 DEF DisconnectReached, Disconnected, vars, machine, models
  <2>. QED  BY <2>1, <2>2, <2>3 DEF Next, Terminated
<1>3. DisconnectReached => EndDisconnects
  BY DEF DisconnectReached, Disconnected, EndDisconnects
<1>. QED  BY <1>1, <1>2, <1>3, TypeCorrect, EndCommittedInvariant, PTL DEF Spec

-----------------------------------------------------------------------------
(* Only started models are processed.  The invariant: a state that executes *)
(* the simulation runs, or is about to be run with no interrupt pending     *)
(* that leads away from it, only while every model of the context has been  *)
(* started, save the controllers that are about to be erased.               *)

Executing == StepStates \cup {"PAUSE", "RESUME"}

Started(S) == \A m \in S : life[m] = "started"

OnlyStarted ==
  /\ running # "STEP_CONTROLLERS" => toErase = {}
  /\ running \in Executing => Started(ctx \ toErase)
  /\ running = "START" => Started(ctx \ todo)
  /\ status = "running" /\ running = None /\ id \in Executing /\ slot \notin Ends =>
       Started(ctx)

\* Whatever a state throws, an interrupt that ends the simulation is pending, or
\* the watchdog aborts it, or the run has crashed.
LEMMA ThrowStarted ==
  ASSUME NEW x \in Throwable, Throw(x)
  PROVE  OnlyStarted'
<1>1. running' = None /\ toErase' = {}
  BY DEF Throw, EndState
<1>2. id' = "ABORT" \/ slot' \in Ends \/ status' = "crashed"
  BY ThrowAccounted
<1>. QED  BY <1>1, <1>2 DEF OnlyStarted, Executing, StepStates, None

\* A state that returns leads away from execution, or is itself executing.
LEMMA ReturnElsewhere ==
  ASSUME NEW next, Return(next), next \notin Executing, toErase' = {}
  PROVE  OnlyStarted'
BY DEF Return, EndState, OnlyStarted, Executing, StepStates, None

LEMMA ReturnExecuting ==
  ASSUME OnlyStarted, NEW next, Return(next), running \in Executing,
         ctx' \subseteq ctx \ toErase, toErase' = {}, life' = life
  PROVE  OnlyStarted'
BY DEF Return, EndState, OnlyStarted, Started, Executing, StepStates, None

LEMMA LoopStarted ==
  ASSUME TypeOK, OnlyStarted, Loop
  PROVE  OnlyStarted'
<1>. USE DEF OnlyStarted, Started
<1>1. CASE HandlePauseOrResume
  BY <1>1 DEF HandlePauseOrResume, AtLoopTop, machine, models, Ends, None
<1>2. CASE RunInterrupt
  <2>1. running' \in Ends /\ toErase' = toErase /\ running = None
    BY <1>2 DEF TypeOK, RunInterrupt, Enter, AtLoopTop, Interrupts, Requests, Ends, models
  <2>. QED  BY <2>1 DEF Ends, Executing, StepStates, None
<1>3. CASE RunNominal
  <2>1. running' = id /\ id # None /\ slot = None /\ status = "running" /\ running = None
        /\ UNCHANGED <<ctx, life, toErase>> /\ todo' = Visits(id)
    BY <1>3 DEF RunNominal, Enter, AtLoopTop, models
  <2>2. Visits("START") = ctx
    BY DEF Visits
  <2>. QED  BY <2>1, <2>2 DEF Ends, Executing, StepStates, None
<1>4. CASE Finish
  BY <1>4 DEF Finish, machine, models
<1>. QED  BY <1>1, <1>2, <1>3, <1>4 DEF Loop

LEMMA StartStarted ==
  ASSUME TypeOK, OnlyStarted, Connect \/ Start
  PROVE  OnlyStarted'
<1>1. ASSUME NEW m \in Models, ConnectModel(m) PROVE OnlyStarted'
  BY <1>1 DEF OnlyStarted, Executing, StepStates, ConnectModel, InState, Visited, None
<1>2. CASE ConnectFails \/ ConnectDone
  <2>1. PICK s \in {"ABORT", "PROBE", "START"} : Return(s)
    BY <1>2 DEF ConnectFails, ConnectDone, Done
  <2>2. toErase' = {}
    BY <1>2 DEF ConnectFails, ConnectDone, Done, InState, models, OnlyStarted
  <2>. QED  BY <2>1, <2>2, ReturnElsewhere DEF Executing, StepStates
<1>3. CASE ConnectAgain \/ \E x \in Throwable : ConnectThrows(x)
  BY <1>3, ThrowStarted DEF ConnectAgain, ConnectThrows, Throwable
<1>4. ASSUME NEW m \in Models, StartModel(m) PROVE OnlyStarted'
  <2>1. running = "START" /\ running' = "START" /\ life' = [life EXCEPT ![m] = "started"]
        /\ todo' = todo \ {m} /\ UNCHANGED <<ctx, toErase>>
    BY <1>4 DEF StartModel, InState, Visited
  <2>2. \A n \in ctx \ todo' : life'[n] = "started"
    BY <2>1 DEF TypeOK, OnlyStarted, Started
  <2>. QED  BY <2>1, <2>2 DEF OnlyStarted, Started, Executing, StepStates, None
<1>5. ASSUME NEW x \in Throwable, StartThrows(x) PROVE OnlyStarted'
  BY <1>5, ThrowStarted DEF StartThrows
<1>6. CASE StartDone
  <2>1. Started(ctx) /\ ctx' = ctx /\ life' = life /\ toErase' = {} /\ running' = None
    BY <1>6 DEF StartDone, Done, InState, Return, EndState, models, OnlyStarted, Started
  <2>. QED  BY <2>1 DEF OnlyStarted, Started, Executing, StepStates, None
<1>. QED  BY <1>1, <1>2, <1>3, <1>4, <1>5, <1>6 DEF Connect, Start

LEMMA StepsStarted ==
  ASSUME TypeOK, OnlyStarted, StepBegin \/ StepSimulators \/ StepControllers \/ StepEnd
  PROVE  OnlyStarted'
<1>1. CASE StepBegin \/ StepEnd
  <2>1. running \in Executing /\ running # "STEP_CONTROLLERS" /\ UNCHANGED <<ctx, life, toErase>>
    BY <1>1 DEF StepBegin, StepEnd, Done, InState, models, Executing, StepStates
  <2>2. PICK s : Return(s)
    BY <1>1 DEF StepBegin, StepEnd, Done
  <2>. QED  BY <2>1, <2>2, ReturnExecuting DEF OnlyStarted
<1>2. ASSUME NEW m \in Models, ProcessModel(m) \/ ProcessController(m) PROVE OnlyStarted'
  BY <1>2 DEF OnlyStarted, Started, Executing, StepStates, ProcessModel, ProcessController,
              InState, Visited, models, None
<1>3. CASE (\E m \in Models : SimulatorNotOperational(m))
           \/ \E x \in Throwable : ProcessThrows(x) \/ ControllerThrows(x)
  BY <1>3, ThrowStarted DEF SimulatorNotOperational, ProcessThrows, ControllerThrows, Throwable
<1>4. ASSUME Done("STEP_SIMULATORS", "STEP_CONTROLLERS"), UNCHANGED models PROVE OnlyStarted'
  BY <1>4, ReturnExecuting DEF Done, InState, models, OnlyStarted, Executing, StepStates
<1>5. ASSUME NEW m \in Models, ControllerDies(m) PROVE OnlyStarted'
  <2>1. CASE \E x \in Throwable : Throw(x)
    BY <2>1, ThrowStarted
  <2>2. ASSUME life' = [life EXCEPT ![m] = "disconnected"], toErase' = toErase \cup {m},
               UNCHANGED <<status, id, running, prev, watched, timedOut, slot, outcome>>
        PROVE  OnlyStarted'
    <3>1. running = "STEP_CONTROLLERS" /\ running' = running /\ ctx' = ctx
      BY <1>5, <2>2 DEF ControllerDies, InState
    <3>2. \A n \in ctx' \ toErase' : life'[n] = "started"
      BY <2>2, <3>1 DEF TypeOK, OnlyStarted, Started, Executing, StepStates
    <3>. QED  BY <3>1, <3>2 DEF OnlyStarted, Started, None
  <2>. QED  BY <1>5, <2>1, <2>2 DEF ControllerDies
<1>6. ASSUME NEW m \in Models, NEW x \in Throwable, ControllerInterrupts(m, x)
      PROVE  OnlyStarted'
  <2>1. CASE slot = None
    BY <1>6, <2>1 DEF ControllerInterrupts, InState, OnlyStarted, Started, None
  <2>2. CASE slot # None
    BY <1>6, <2>2, ThrowStarted DEF ControllerInterrupts, Throwable
  <2>. QED  BY <2>1, <2>2
<1>7. ASSUME Done("STEP_CONTROLLERS", "STEP_END"), EraseControllers, life' = life
      PROVE  OnlyStarted'
  BY <1>7, ReturnExecuting DEF Done, InState, EraseControllers, Executing, StepStates
<1>. QED  BY <1>1, <1>2, <1>3, <1>4, <1>5, <1>6, <1>7 DEF StepSimulators, StepControllers

LEMMA OtherStatesStarted ==
  ASSUME TypeOK, OnlyStarted,
         \/ \E s \in {"PAUSE", "RESUME", "SUCCESS", "FAIL", "KEEP_ALIVE", "PROBE"} :
              PassThrough(s)
         \/ Stop \/ Reset \/ Abort \/ Disconnect
  PROVE  OnlyStarted'
<1>1. ASSUME NEW s \in {"PAUSE", "RESUME"}, PassThrough(s) PROVE OnlyStarted'
  BY <1>1, ReturnExecuting
     DEF PassThrough, Done, InState, models, OnlyStarted, Executing, StepStates
<1>2. ASSUME NEW s \in {"SUCCESS", "FAIL", "KEEP_ALIVE", "PROBE"}, PassThrough(s)
      PROVE  OnlyStarted'
  <2>1. Successor(s) \notin Executing /\ Return(Successor(s)) /\ toErase' = {}
    BY <1>2 DEF Successor, PassThrough, Done, InState, models, OnlyStarted, Executing, StepStates
  <2>. QED  BY <2>1, ReturnElsewhere
<1>3. ASSUME running \in {"STOP", "RESET", "ABORT", "DISCONNECT"},
             UNCHANGED <<running, toErase>>
      PROVE  OnlyStarted'
  BY <1>3 DEF OnlyStarted, Executing, StepStates, None
<1>4. ASSUME running \in {"STOP", "RESET", "ABORT", "DISCONNECT"}, toErase' = toErase,
             NEW s \in {"KEEP_ALIVE", "DISCONNECT", "CONNECT", "ABORT", None}, Return(s)
      PROVE  OnlyStarted'
  BY <1>4, ReturnElsewhere DEF OnlyStarted, Executing, StepStates, None
<1>5. CASE Stop
  BY <1>3, <1>4, <1>5 DEF Stop, StopModel, StopDone, Done, InState, Visited, models
<1>6. CASE Reset
  BY <1>3, <1>4, <1>6
     DEF Reset, ResetModel, ResetFails, ResetDone, Done, InState, Visited, models
<1>7. CASE Abort
  BY <1>3, <1>4, <1>7 DEF Abort, AbortModel, AbortDone, Done, InState, Visited, models
<1>8. CASE Disconnect
  BY <1>3, <1>4, <1>8, ThrowStarted
     DEF Disconnect, DisconnectModel, DisconnectThrows, DisconnectDone, Done, InState, Visited,
         models
<1>. QED  BY <1>1, <1>2, <1>5, <1>6, <1>7, <1>8

LEMMA EnvironmentStarted ==
  ASSUME TypeOK, OnlyStarted, Environment
  PROVE  OnlyStarted'
<1>1. ASSUME UNCHANGED <<id, running, todo, ctx, life, toErase>>,
             status' \in {status, "crashed"},
             \/ running # None \/ slot' = slot \/ slot' = "ABORT"
      PROVE  OnlyStarted'
  BY <1>1 DEF OnlyStarted, Started, Ends
<1>2. ASSUME NEW r \in Requests, TriggerRequests(r) PROVE OnlyStarted'
  BY <1>1, <1>2, ThrowStarted DEF TriggerRequests, FiresTriggers, Throwable, machine, None
<1>3. ASSUME NEW x \in Throwable, TriggerThrows(x) PROVE OnlyStarted'
  BY <1>3, ThrowStarted DEF TriggerThrows
<1>4. CASE Signal
  BY <1>1, <1>4 DEF Signal, HandlerThrows, AbortDirectly, machine
<1>. QED  BY <1>1, <1>2, <1>3, <1>4
          DEF Environment, DropOut, TriggerKeepsAlive, WatchdogTimeout, machine, models

\* OnlyStarted is inductive.
THEOREM OnlyStartedInvariant == Spec => []OnlyStarted
<1>1. Init => OnlyStarted
  BY DEF Init, OnlyStarted, Executing, StepStates, None
<1>2. TypeOK /\ OnlyStarted /\ [Next]_vars => OnlyStarted'
  <2>. SUFFICES ASSUME TypeOK, OnlyStarted, [Next]_vars PROVE OnlyStarted'
    OBVIOUS
  <2>1. CASE Run
    BY <2>1, LoopStarted, StartStarted, StepsStarted, OtherStatesStarted DEF Run
  <2>2. CASE Environment
    BY <2>2, EnvironmentStarted
  <2>3. CASE UNCHANGED vars
    BY <2>3 DEF OnlyStarted, Started, vars, machine, models
  <2>. QED  BY <2>1, <2>2, <2>3 DEF Next, Terminated
<1>. QED  BY <1>1, <1>2, TypeCorrect, PTL DEF Spec

\* The step states call process() on no model that was not started, or that was
\* stopped or disconnected since, the controllers that just died excepted.
THEOREM ProcessOnlyStartedHolds == Spec => []ProcessOnlyStarted
<1>1. OnlyStarted => ProcessOnlyStarted
  BY DEF OnlyStarted, Started, ProcessOnlyStarted, Executing, StepStates
<1>. QED  BY <1>1, OnlyStartedInvariant, PTL

-----------------------------------------------------------------------------
(* A verdict is earned.  The invariant: nothing is left to be stopped while *)
(* the simulation is kept alive, and a run with a verdict is on its way to  *)
(* Stop, to an abort that takes the verdict away, or has nothing left to be *)
(* stopped.                                                                 *)

Verdict == outcome \in Verdicts

\* No model of S still has to be stopped.
NoneLeft(S) == \A m \in S \cap oper : life[m] # "started"

Settled ==
  \/ slot \in Ends \/ id \in {"STOP", "ABORT", "CONNECT"}
  \/ id \in {"KEEP_ALIVE", "DISCONNECT", None} /\ NoneLeft(ctx)

VerdictEarned ==
  /\ id = "KEEP_ALIVE" \/ prev = "KEEP_ALIVE" =>
       NoneLeft(ctx) /\ running \in Ends \cup {"KEEP_ALIVE", None}
  /\ prev = "KEEP_ALIVE" => id \in {"KEEP_ALIVE", "ABORT"}
  /\ running = "KEEP_ALIVE" => id = "KEEP_ALIVE"
  /\ running = "STOP" => NoneLeft(ctx \ todo)
  /\ Verdict /\ running = None => Settled
  /\ Verdict /\ running \in Final => NoneLeft(ctx)
  /\ Verdict => running \notin Executing \cup {"CONNECT", "PROBE", "START"}

\* Nothing is started and nothing joins the context.
Fewer ==
  /\ oper' \subseteq oper /\ ctx' \subseteq ctx
  /\ \A m \in ctx : life'[m] = "started" => life[m] = "started"

\* A state goes on, or a signal arrives.
LEMMA GoesOnVerdict ==
  ASSUME VerdictEarned, Fewer, UNCHANGED <<id, running, prev>>,
         outcome' \in {outcome, "Aborted"},
         running # None \/ slot' \in {slot, "ABORT"},
         running = "STOP" => NoneLeft(ctx \ todo)'
  PROVE  VerdictEarned'
<1>1. NoneLeft(ctx) => NoneLeft(ctx)'
  BY DEF NoneLeft, Fewer
<1>2. Verdict' => Verdict
  BY DEF Verdict, Verdicts
<1>3. Settled /\ running = None => Settled'
  BY <1>1 DEF Settled, Ends
<1>. QED  BY <1>1, <1>2, <1>3 DEF VerdictEarned

\* A state throws.
LEMMA ThrowVerdict ==
  ASSUME VerdictEarned, Fewer, NEW x \in Throwable, Throw(x)
  PROVE  VerdictEarned'
<1>1. running' = None /\ prev' = running
  BY DEF Throw, EndState
<1>2. NoneLeft(ctx) => NoneLeft(ctx)'
  BY DEF NoneLeft, Fewer
<1>3. id' = "ABORT" \/ (id' = id /\ (slot' \in Ends \/ outcome' = "Aborted"))
  BY DEF Throw, EndState, Crash, Throwable, Ends
<1>4. Verdict' => Settled'
  BY <1>3 DEF Settled, Verdict, Verdicts
<1>. QED  BY <1>1, <1>2, <1>3, <1>4
          DEF VerdictEarned, Executing, StepStates, Ends, Final, None

\* A state other than Stop and KeepAlive returns.
LEMMA ReturnVerdict ==
  ASSUME VerdictEarned, Fewer, outcome' = outcome, running # "KEEP_ALIVE",
         NEW next, Return(next), next # "KEEP_ALIVE",
         Verdict => \/ next \in {"STOP", "CONNECT", "ABORT"}
                    \/ next \in {"DISCONNECT", None} /\ NoneLeft(ctx)
  PROVE  VerdictEarned'
<1>1. running' = None /\ prev' = running /\ id' \in {"ABORT", next}
  BY DEF Return, EndState
<1>2. NoneLeft(ctx) => NoneLeft(ctx)'
  BY DEF NoneLeft, Fewer
<1>3. Verdict' => Settled'
  BY <1>1, <1>2 DEF Settled, Verdict
<1>. QED  BY <1>1, <1>3 DEF VerdictEarned, Executing, StepStates, Ends, Final, None

\* States in which there is no verdict.
LEMMA NoVerdictYet ==
  ASSUME VerdictEarned, running \in Executing \cup {"CONNECT", "PROBE", "START"}
  PROVE  ~Verdict /\ id # "KEEP_ALIVE" /\ prev # "KEEP_ALIVE"
BY DEF VerdictEarned, Executing, StepStates, Ends, None

LEMMA LoopVerdict ==
  ASSUME TypeOK, VerdictEarned, Loop
  PROVE  VerdictEarned'
<1>1. CASE HandlePauseOrResume
  BY <1>1 DEF HandlePauseOrResume, AtLoopTop, machine, models, VerdictEarned, Verdict,
              NoneLeft, Settled, Ends, Final, Executing, StepStates, None
<1>2. ASSUME NEW s \in States, running = None, Enter(s),
             s \in Ends \/ (s = id /\ slot = None)
      PROVE  VerdictEarned'
  <2>1. running' = s /\ UNCHANGED <<id, prev, ctx, oper, life>> /\ outcome' = OutcomeOnEntry(s)
        /\ todo' = Visits(s)
    BY <1>2 DEF Enter, models
  <2>2. NoneLeft(ctx)' <=> NoneLeft(ctx)
    BY <2>1 DEF NoneLeft
  <2>3. s = "STOP" => NoneLeft(ctx \ todo)'
    BY <2>1 DEF Visits, NoneLeft
  <2>4. id = "KEEP_ALIVE" \/ prev = "KEEP_ALIVE" => s \in Ends \cup {"KEEP_ALIVE"}
    BY <1>2 DEF VerdictEarned, Ends
  <2>5. Verdict' /\ s \notin {"SUCCESS", "FAIL"} => Verdict /\ s \notin {"CONNECT", "PROBE"}
    BY <2>1 DEF OutcomeOnEntry, Verdict, Verdicts
  <2>6. Verdict /\ s \notin Ends => s \in {"CONNECT", "KEEP_ALIVE"}
                                     \/ (s = "DISCONNECT" /\ NoneLeft(ctx))
    BY <1>2 DEF VerdictEarned, Settled, Ends, States, StepStates, None
  <2>7. Verdict' /\ s = "ABORT" => NoneLeft(ctx)
    <3>1. Verdict' /\ s = "ABORT" => prev = "KEEP_ALIVE"
      BY <2>1 DEF OutcomeOnEntry, Verdict, Verdicts
    <3>. QED  BY <3>1 DEF VerdictEarned
  <2>. QED  BY <1>2, <2>1, <2>2, <2>3, <2>4, <2>5, <2>6, <2>7
            DEF VerdictEarned, Executing, StepStates, States, Ends, Final, None
<1>3. CASE RunInterrupt
  <2>1. slot \in States /\ slot \in Ends /\ running = None /\ Enter(slot)
    BY <1>3 DEF TypeOK, RunInterrupt, AtLoopTop, Interrupts, Requests, Ends, States
  <2>. QED  BY <1>2, <2>1
<1>4. CASE RunNominal
  BY <1>2, <1>4 DEF TypeOK, RunNominal, AtLoopTop
<1>5. CASE Finish
  BY <1>5, GoesOnVerdict DEF Finish, AtLoopTop, machine, models, Fewer, None
<1>. QED  BY <1>1, <1>3, <1>4, <1>5 DEF Loop

LEMMA ConnectVerdict ==
  ASSUME TypeOK, VerdictEarned, Connect \/ Start
  PROVE  VerdictEarned'
<1>1. ASSUME NEW m \in Models, ConnectModel(m) \/ StartModel(m) PROVE VerdictEarned'
  <2>1. running \in {"CONNECT", "START"} /\ UNCHANGED <<id, running, prev, outcome>>
    BY <1>1 DEF ConnectModel, StartModel, InState, Visited
  <2>2. ~Verdict /\ id # "KEEP_ALIVE" /\ prev # "KEEP_ALIVE"
    BY <2>1, NoVerdictYet
  <2>. QED  BY <2>1, <2>2 DEF VerdictEarned, Verdict, Final, None
<1>2. CASE ConnectFails \/ ConnectDone \/ StartDone
  <2>1. PICK s \in {"ABORT", "PROBE", "START", "PAUSE", "STEP_BEGIN"} : Return(s)
    BY <1>2 DEF ConnectFails, ConnectDone, StartDone, Done, StepOrPause
  <2>2. running \in {"CONNECT", "START"} /\ outcome' = outcome /\ Fewer
    BY <1>2 DEF ConnectFails, ConnectDone, StartDone, Done, InState, Rest, models, Fewer
  <2>. QED  BY <2>1, <2>2, NoVerdictYet, ReturnVerdict
<1>3. CASE ConnectAgain \/ \E x \in Throwable : ConnectThrows(x) \/ StartThrows(x)
  BY <1>3, ThrowVerdict DEF ConnectAgain, ConnectThrows, StartThrows, Throwable, Fewer
<1>. QED  BY <1>1, <1>2, <1>3 DEF Connect, Start

LEMMA StepsVerdict ==
  ASSUME TypeOK, VerdictEarned, StepBegin \/ StepSimulators \/ StepControllers \/ StepEnd
  PROVE  VerdictEarned'
<1>. DEFINE Steps == {"STEP_SIMULATORS", "STEP_CONTROLLERS", "STEP_END", "STOP", "PAUSE",
                      "STEP_BEGIN"}
<1>1. ASSUME NEW s \in Steps, Return(s), running \in StepStates, outcome' = outcome, Fewer
      PROVE  VerdictEarned'
  BY <1>1, NoVerdictYet, ReturnVerdict DEF Executing, StepStates
<1>2. CASE StepBegin \/ StepEnd
  <2>1. PICK s \in Steps : Return(s)
    BY <1>2 DEF StepBegin, StepEnd, Done, StepOrPause
  <2>. QED  BY <1>1, <1>2, <2>1
            DEF StepBegin, StepEnd, Done, InState, Rest, models, Fewer, StepStates
<1>3. ASSUME NEW m \in Models, ProcessModel(m) \/ ProcessController(m) PROVE VerdictEarned'
  BY <1>3, GoesOnVerdict
     DEF ProcessModel, ProcessController, InState, Visited, models, Fewer, None
<1>4. CASE (\E m \in Models : SimulatorNotOperational(m))
           \/ \E x \in Throwable : ProcessThrows(x) \/ ControllerThrows(x)
  BY <1>4, ThrowVerdict
     DEF SimulatorNotOperational, ProcessThrows, ControllerThrows, Throwable, Fewer
<1>5. ASSUME NEW m \in Models, ControllerDies(m) PROVE VerdictEarned'
  <2>1. oper' \subseteq oper /\ ctx' = ctx /\ running = "STEP_CONTROLLERS"
    BY <1>5 DEF ControllerDies, InState
  <2>2. CASE UNCHANGED life /\ \E x \in Throwable : Throw(x)
    BY <2>1, <2>2, ThrowVerdict DEF Fewer
  <2>3. ASSUME life' = [life EXCEPT ![m] = "disconnected"],
               UNCHANGED <<status, id, running, prev, watched, timedOut, slot, outcome>>
        PROVE  VerdictEarned'
    <3>1. Fewer
      BY <2>1, <2>3 DEF TypeOK, Fewer
    <3>. QED  BY <2>1, <2>3, <3>1, GoesOnVerdict DEF None
  <2>. QED  BY <1>5, <2>2, <2>3 DEF ControllerDies
<1>6. ASSUME NEW m \in Models, NEW x \in Throwable, ControllerInterrupts(m, x)
      PROVE  VerdictEarned'
  <2>1. Fewer /\ running = "STEP_CONTROLLERS"
    BY <1>6 DEF ControllerInterrupts, InState, Fewer
  <2>. QED  BY <1>6, <2>1, ThrowVerdict, GoesOnVerdict
            DEF ControllerInterrupts, Throwable, None
<1>7. ASSUME Done("STEP_SIMULATORS", "STEP_CONTROLLERS"), Rest, UNCHANGED models
      PROVE  VerdictEarned'
  BY <1>1, <1>7 DEF Done, InState, Rest, models, Fewer, StepStates
<1>8. ASSUME Done("STEP_CONTROLLERS", "STEP_END"), EraseControllers, Rest,
             UNCHANGED <<life, oper>>
      PROVE  VerdictEarned'
  BY <1>1, <1>8 DEF Done, InState, Rest, EraseControllers, Fewer, StepStates
<1>. QED  BY <1>2, <1>3, <1>4, <1>5, <1>6, <1>7, <1>8 DEF StepSimulators, StepControllers

LEMMA PassThroughVerdict ==
  ASSUME TypeOK, VerdictEarned,
         NEW s \in {"PAUSE", "RESUME", "SUCCESS", "FAIL", "KEEP_ALIVE", "PROBE"},
         PassThrough(s)
  PROVE  VerdictEarned'
<1>1. running = s /\ Return(Successor(s)) /\ outcome' = outcome /\ Fewer
      /\ UNCHANGED <<ctx, life, oper>>
  BY DEF PassThrough, Done, InState, Rest, models, Fewer
<1>2. CASE s = "KEEP_ALIVE"
  <2>1. NoneLeft(ctx)' /\ running' = None /\ prev' = "KEEP_ALIVE"
        /\ id' \in {"KEEP_ALIVE", "ABORT"}
    BY <1>1, <1>2 DEF Successor, Return, EndState, VerdictEarned, NoneLeft
  <2>. QED  BY <2>1 DEF VerdictEarned, Settled, Final, Executing, StepStates, None
<1>3. CASE s # "KEEP_ALIVE"
  <2>1. s \in {"SUCCESS", "FAIL"} => Successor(s) = "STOP"
    BY DEF Successor
  <2>2. s \notin {"SUCCESS", "FAIL"} => ~Verdict
    BY <1>1, <1>3, NoVerdictYet DEF Executing
  <2>3. Successor(s) # "KEEP_ALIVE"
    BY <1>3 DEF Successor
  <2>. QED  BY <1>1, <1>3, <2>1, <2>2, <2>3, ReturnVerdict
<1>. QED  BY <1>2, <1>3

LEMMA StopVerdict ==
  ASSUME TypeOK, VerdictEarned, Stop
  PROVE  VerdictEarned'
<1>1. ASSUME NEW m \in Models, StopModel(m) PROVE VerdictEarned'
  <2>1. running = "STOP" /\ UNCHANGED <<id, running, prev, outcome, ctx>>
        /\ todo' = todo \ {m} /\ oper' \subseteq oper
    BY <1>1 DEF StopModel, InState, Visited
  <2>2. \/ life' = [life EXCEPT ![m] = "stopped"]
        \/ life' = life /\ m \notin oper
    BY <1>1 DEF StopModel
  <2>3. Fewer
    BY <2>1, <2>2 DEF TypeOK, Fewer
  <2>4. NoneLeft(ctx \ todo)'
    BY <2>1, <2>2 DEF TypeOK, VerdictEarned, NoneLeft
  <2>. QED  BY <2>1, <2>3, <2>4, GoesOnVerdict DEF None
<1>2. CASE StopDone
  <2>1. NoneLeft(ctx)' /\ running' = None /\ prev' = "STOP"
        /\ id' \in {"KEEP_ALIVE", "DISCONNECT", "ABORT"}
    BY <1>2 DEF StopDone, Done, InState, Return, EndState, models, VerdictEarned, NoneLeft
  <2>. QED  BY <2>1 DEF VerdictEarned, Settled, Final, Executing, StepStates, None
<1>. QED  BY <1>1, <1>2 DEF Stop

LEMMA ResetVerdict ==
  ASSUME TypeOK, VerdictEarned, Reset
  PROVE  VerdictEarned'
<1>1. ASSUME NEW m \in Models, ResetModel(m) \/ ResetFails(m) PROVE Fewer
  BY <1>1 DEF TypeOK, ResetModel, ResetFails, Fewer
<1>2. ASSUME NEW m \in Models, ResetModel(m) PROVE VerdictEarned'
  BY <1>1, <1>2, GoesOnVerdict DEF ResetModel, InState, Visited, None
<1>3. ASSUME NEW m \in Models, ResetFails(m) PROVE VerdictEarned'
  BY <1>1, <1>3, ReturnVerdict DEF ResetFails, InState
<1>4. CASE ResetDone
  BY <1>4, ReturnVerdict DEF ResetDone, Done, InState, Rest, models, Fewer
<1>. QED  BY <1>2, <1>3, <1>4 DEF Reset

LEMMA FinalVerdict ==
  ASSUME TypeOK, VerdictEarned, Abort \/ Disconnect
  PROVE  VerdictEarned'
<1>1. ASSUME NEW m \in Models, AbortModel(m) \/ DisconnectModel(m) PROVE VerdictEarned'
  <2>1. Fewer
    BY <1>1 DEF TypeOK, AbortModel, DisconnectModel, Fewer
  <2>. QED  BY <1>1, <2>1, GoesOnVerdict DEF AbortModel, DisconnectModel, InState, Visited, None
<1>2. CASE AbortDone \/ DisconnectDone
  <2>1. PICK s \in {"DISCONNECT", None} : Return(s)
    BY <1>2 DEF AbortDone, DisconnectDone, Done
  <2>2. running \in Final /\ outcome' = outcome /\ Fewer
    BY <1>2 DEF AbortDone, DisconnectDone, Done, InState, Rest, models, Fewer, Final
  <2>. QED  BY <2>1, <2>2, ReturnVerdict DEF VerdictEarned, Final, None
<1>3. ASSUME NEW x \in Throwable, DisconnectThrows(x) PROVE VerdictEarned'
  BY <1>3, ThrowVerdict DEF DisconnectThrows, Fewer
<1>. QED  BY <1>1, <1>2, <1>3 DEF Abort, Disconnect

LEMMA EnvironmentVerdict ==
  ASSUME TypeOK, VerdictEarned, Environment
  PROVE  VerdictEarned'
<1>1. ASSUME UNCHANGED <<id, running, todo, prev, ctx, life>>, oper' \subseteq oper,
             outcome' \in {outcome, "Aborted"},
             running # None \/ slot' \in {slot, "ABORT"}
      PROVE  VerdictEarned'
  <2>1. NoneLeft(ctx \ todo) => NoneLeft(ctx \ todo)'
    BY <1>1 DEF NoneLeft
  <2>. QED  BY <1>1, <2>1, GoesOnVerdict DEF VerdictEarned, Fewer
<1>2. ASSUME NEW r \in Requests, TriggerRequests(r) PROVE VerdictEarned'
  <2>1. running # None /\ UNCHANGED <<ctx, life, oper>>
    BY <1>2 DEF TriggerRequests, FiresTriggers, None
  <2>2. CASE UNCHANGED <<status, machine, outcome, toErase>>
    BY <1>1, <2>1, <2>2 DEF machine
  <2>3. CASE Throw("fatal")
    BY <2>1, <2>3, ThrowVerdict DEF Throwable, Fewer
  <2>. QED  BY <1>2, <2>2, <2>3 DEF TriggerRequests
<1>3. ASSUME NEW x \in Throwable, TriggerThrows(x) PROVE VerdictEarned'
  BY <1>3, ThrowVerdict DEF TriggerThrows, Fewer
<1>4. CASE Signal
  BY <1>1, <1>4 DEF Signal, HandlerThrows, AbortDirectly, machine
<1>. QED  BY <1>1, <1>2, <1>3, <1>4
          DEF Environment, DropOut, TriggerKeepsAlive, WatchdogTimeout, machine, models

\* VerdictEarned is inductive.
THEOREM VerdictEarnedInvariant == Spec => []VerdictEarned
<1>1. Init => VerdictEarned
  BY DEF Init, VerdictEarned, Verdict, Verdicts, None
<1>2. TypeOK /\ VerdictEarned /\ [Next]_vars => VerdictEarned'
  <2>. SUFFICES ASSUME TypeOK, VerdictEarned, [Next]_vars PROVE VerdictEarned'
    OBVIOUS
  <2>1. CASE Run
    BY <2>1, LoopVerdict, ConnectVerdict, StepsVerdict, PassThroughVerdict, StopVerdict,
       ResetVerdict, FinalVerdict DEF Run
  <2>2. CASE Environment
    BY <2>2, EnvironmentVerdict
  <2>3. CASE UNCHANGED vars
    BY <2>3 DEF VerdictEarned, Verdict, Settled, NoneLeft, vars, machine, models
  <2>. QED  BY <2>1, <2>2, <2>3 DEF Next, Terminated
<1>. QED  BY <1>1, <1>2, TypeCorrect, PTL DEF Spec

\* No order of interrupts, failures and signals lets a run disconnect with the
\* verdict Success or Failure while a model could still have been stopped.
THEOREM VerdictAfterStopHolds == Spec => []VerdictAfterStop
<1>1. VerdictEarned => VerdictAfterStop
  BY DEF VerdictEarned, Verdict, NoneLeft, VerdictAfterStop, Final
<1>. QED  BY <1>1, VerdictEarnedInvariant, PTL

-----------------------------------------------------------------------------
(* A pause takes effect before the next step.  The invariant: StepBegin is  *)
(* the nominal successor of a state other than Start and Resume only if no  *)
(* pause is pending or in force, or the simulation is about to end.         *)

PauseSeen ==
  /\ running = "STEP_END" => slot \in {None, "ABORT"}
  /\ status = "running" /\ running = None /\ id = "STEP_BEGIN"
     /\ prev \notin {"START", "RESUME"} => slot \in Ends \/ (slot = None /\ ~paused)

LEMMA ThrowSeen ==
  ASSUME NEW x \in Throwable, Throw(x)
  PROVE  PauseSeen'
BY ThrowAccounted DEF PauseSeen, None

\* Only Start, Resume and StepEnd return StepBegin.
LEMMA ReturnSeen ==
  ASSUME NEW next, Return(next), running \in {"START", "RESUME"} \/ next # "STEP_BEGIN"
  PROVE  PauseSeen'
BY DEF Return, EndState, PauseSeen, None

LEMMA StepEndSeen == PauseSeen /\ StepEnd => PauseSeen'
BY DEF StepEnd, Done, InState, Return, EndState, StepOrPause, Rest, flags, PauseSeen, Ends,
       None

LEMMA LoopSeen ==
  ASSUME TypeOK, PauseSeen, Loop
  PROVE  PauseSeen'
<1>1. CASE HandlePauseOrResume
  BY <1>1 DEF HandlePauseOrResume, AtLoopTop, machine, PauseSeen, Ends, None
<1>2. CASE RunInterrupt \/ RunNominal
  <2>1. running' # None /\ (running' = "STEP_END" => slot' = None)
    BY <1>2 DEF TypeOK, RunInterrupt, RunNominal, Enter, Interrupts, Requests
  <2>. QED  BY <2>1 DEF PauseSeen
<1>3. CASE Finish
  BY <1>3 DEF Finish, PauseSeen, machine, flags
<1>. QED  BY <1>1, <1>2, <1>3 DEF Loop

LEMMA OtherStatesSeen ==
  ASSUME PauseSeen,
         \/ Connect \/ Start \/ StepBegin \/ StepSimulators \/ StepControllers
         \/ \E s \in {"PAUSE", "RESUME", "SUCCESS", "FAIL", "KEEP_ALIVE", "PROBE"} :
              PassThrough(s)
         \/ Stop \/ Reset \/ Abort \/ Disconnect
  PROVE  PauseSeen'
<1>1. ASSUME running \notin {"STEP_END", None}, running' = running PROVE PauseSeen'
  BY <1>1 DEF PauseSeen
<1>2. CASE Connect \/ Start
  BY <1>1, <1>2, ThrowSeen, ReturnSeen
     DEF Connect, ConnectModel, ConnectFails, ConnectAgain, ConnectDone, ConnectThrows, Start,
         StartModel, StartThrows, StartDone, Done, InState, Visited, Throwable, None
<1>3. CASE StepBegin \/ StepSimulators
  BY <1>1, <1>3, ThrowSeen, ReturnSeen
     DEF StepBegin, StepSimulators, ProcessModel, SimulatorNotOperational, ProcessThrows, Done,
         InState, Visited, Throwable, None
<1>4. CASE StepControllers
  BY <1>1, <1>4, ThrowSeen, ReturnSeen
     DEF StepControllers, ProcessController, ControllerDies, ControllerInterrupts,
         ControllerThrows, Done, InState, Visited, Throwable, None
<1>5. ASSUME NEW s \in {"PAUSE", "RESUME", "SUCCESS", "FAIL", "KEEP_ALIVE", "PROBE"},
             PassThrough(s)
      PROVE  PauseSeen'
  BY <1>5, ReturnSeen DEF PassThrough, Done, InState, Successor
<1>6. CASE Stop \/ Reset
  BY <1>1, <1>6, ReturnSeen
     DEF Stop, StopModel, StopDone, Reset, ResetModel, ResetFails, ResetDone, Done, InState,
         Visited, None
<1>7. CASE Abort \/ Disconnect
  BY <1>1, <1>7, ThrowSeen, ReturnSeen
     DEF Abort, AbortModel, AbortDone, Disconnect, DisconnectModel, DisconnectThrows,
         DisconnectDone, Done, InState, Visited, None
<1>. QED  BY <1>2, <1>3, <1>4, <1>5, <1>6, <1>7

LEMMA EnvironmentSeen ==
  ASSUME PauseSeen, Environment
  PROVE  PauseSeen'
<1>1. ASSUME UNCHANGED <<id, running, prev, paused>>, status' \in {status, "crashed"},
             slot' \in {slot, "ABORT"} \/ running \notin {"STEP_END", None}
      PROVE  PauseSeen'
  BY <1>1 DEF PauseSeen, Ends
<1>2. ASSUME NEW r \in Requests, TriggerRequests(r) PROVE PauseSeen'
  BY <1>1, <1>2, ThrowSeen DEF TriggerRequests, FiresTriggers, Throwable, machine, flags, None
<1>3. ASSUME NEW x \in Throwable, TriggerThrows(x) PROVE PauseSeen'
  BY <1>3, ThrowSeen DEF TriggerThrows
<1>4. CASE Signal
  BY <1>1, <1>4 DEF Signal, HandlerThrows, AbortDirectly, machine, flags
<1>. QED  BY <1>1, <1>2, <1>3, <1>4
          DEF Environment, DropOut, TriggerKeepsAlive, WatchdogTimeout, machine, flags

\* A simulation that was paused while it was stepping begins no other step before
\* the pause has taken effect.
THEOREM PauseBetweenStepsHolds == Spec => PauseBetweenSteps
<1>1. Init => PauseSeen
  BY DEF Init, PauseSeen, None
<1>2. TypeOK /\ PauseSeen /\ [Next]_vars => PauseSeen'
  <2>. SUFFICES ASSUME TypeOK, PauseSeen, [Next]_vars PROVE PauseSeen'
    OBVIOUS
  <2>1. CASE Run
    BY <2>1, LoopSeen, StepEndSeen, OtherStatesSeen DEF Run
  <2>2. CASE Environment
    BY <2>2, EnvironmentSeen
  <2>3. CASE UNCHANGED vars
    BY <2>3 DEF PauseSeen, vars, machine, flags
  <2>. QED  BY <2>1, <2>2, <2>3 DEF Next, Terminated
<1>3. TypeOK /\ PauseSeen /\ [Next]_vars =>
        [running = None /\ running' = "STEP_BEGIN" /\ paused => prev \in {"START", "RESUME"}]_vars
  <2>. SUFFICES ASSUME TypeOK, PauseSeen, Next, running = None, running' = "STEP_BEGIN", paused
                PROVE  prev \in {"START", "RESUME"}
    OBVIOUS
  <2>1. RunInterrupt \/ RunNominal
    BY OnlyLoopStarts DEF None
  <2>2. CASE RunInterrupt
    BY <2>2 DEF TypeOK, RunInterrupt, Enter, Interrupts, Requests
  <2>3. CASE RunNominal
    BY <2>3 DEF RunNominal, Enter, AtLoopTop, PauseSeen, Ends, None
  <2>. QED  BY <2>1, <2>2, <2>3
<1>. QED  BY <1>1, <1>2, <1>3, TypeCorrect, PTL DEF Spec, PauseBetweenSteps

-----------------------------------------------------------------------------
(* The simulation machine drives each model through the lifecycle that      *)
(* ModelLifecycle promises, with and without a watchdog.                    *)

LifecycleStep == [Lifecycle!Next]_<<life, oper, aborted>>

-----------------------------------------------------------------------------
(* The invariant, in parts.                                                *)

\* Before any state has run there is only Connect, and no interrupt.
FirstConnect ==
  prev = None => /\ ~initEnded /\ slot = None /\ id = "CONNECT"
                 /\ running \in {"CONNECT", None}

\* The first Connect visits models that are not in the context, a second one none,
\* every other state those that are.
VisitsContext ==
  /\ running = "CONNECT" /\ prev = None => todo \cap ctx = {}
  /\ running \notin {None, "CONNECT"} => todo \subseteq ctx

InContext ==
  /\ \A m \in ctx : life[m] # "none"
  /\ prev = None => \A m \in Models \ ctx : life[m] = "none"
  /\ prev = None /\ running = None => ctx = {}

\* Between Connect and Start no model goes on.
Connected(S) == \A m \in S : life[m] = "connected"

StillConnected ==
  /\ running = "CONNECT" /\ prev = None => Connected(ctx)
  /\ running = "PROBE" => Connected(ctx)
  /\ running = "START" => Connected(todo)
  /\ status = "running" /\ running = None /\ id \in {"PROBE", "START"} /\ slot \notin Ends
       => Connected(ctx)

\* No model that runs is disconnected before it was stopped or told to abort.
NoneCutOff(S) == \A m \in S \cap oper : life[m] = "started" => m \in aborted

\* Nor is one left running where the machine connects (Abort spares the models
\* after a Connect that failed, the second one included).
NotCutOff ==
  /\ running \in {"ABORT", "RESET"} => NoneCutOff(ctx \ todo)
  /\ running \in {"CONNECT", "DISCONNECT"} => NoneCutOff(ctx)
  /\ status = "running" /\ running = None
     /\ (prev = "CONNECT" \/ (id \in {"CONNECT", "DISCONNECT"} /\ slot \notin Ends))
       => NoneCutOff(ctx)

InLifecycle == FirstConnect /\ VisitsContext /\ InContext /\ StillConnected /\ NotCutOff

\* The invariants proved before.
Known == TypeOK /\ VerdictEarned

-----------------------------------------------------------------------------
(* Leaving a state.                                                        *)

LEMMA ThrowInLifecycle ==
  ASSUME InLifecycle, status = "running", running # None,
         NEW x \in Throwable, Throw(x), UNCHANGED <<ctx, life>>,
         oper' \subseteq oper, aborted \subseteq aborted'
  PROVE  InLifecycle'
<1>1. /\ running' = None /\ prev' = running
      /\ id' = "ABORT" \/ (id' = id /\ slot' \in Ends) \/ status' = "crashed"
  BY ThrowAccounted
<1>2. FirstConnect' /\ VisitsContext' /\ InContext' /\ StillConnected'
  BY <1>1 DEF FirstConnect, VisitsContext, InLifecycle, InContext, StillConnected, None
<1>3. NotCutOff'
  BY <1>1 DEF InLifecycle, NotCutOff, NoneCutOff, None
<1>. QED  BY <1>2, <1>3 DEF InLifecycle

LEMMA ReturnInLifecycle ==
  ASSUME InLifecycle, running # None, NEW next, Return(next),
         \A m \in ctx' : life'[m] # "none",
         next \in {"PROBE", "START"} => Connected(ctx)',
         running = "CONNECT" \/ next \in {"CONNECT", "DISCONNECT"} => NoneCutOff(ctx)'
  PROVE  InLifecycle'
<1>1. running' = None /\ prev' = running /\ id' \in {next, "ABORT"}
  BY DEF Return, EndState
<1>2. FirstConnect' /\ VisitsContext' /\ InContext' /\ StillConnected' /\ NotCutOff'
  BY <1>1 DEF FirstConnect, VisitsContext, InContext, StillConnected, NotCutOff, None
<1>. QED  BY <1>2 DEF InLifecycle

-----------------------------------------------------------------------------
(* The main loop.                                                          *)

LEMMA EnterInLifecycle ==
  ASSUME Known, InLifecycle, NEW s \in States, Enter(s), status = "running", running = None,
         \/ s = slot /\ slot \in Ends
         \/ s = id /\ slot = None,
         slot' = None
  PROVE  InLifecycle'
<1>1. running' = s /\ todo' = Visits(s)
      /\ UNCHANGED <<status, id, prev, ctx, life, oper, aborted, initEnded>>
  BY DEF Enter, models
<1>2. prev = None => s = "CONNECT" /\ ctx = {}
  BY DEF InLifecycle, FirstConnect, InContext, Ends, None
<1>3. FirstConnect'
  BY <1>1, <1>2 DEF InLifecycle, FirstConnect
<1>4. VisitsContext'
  <2>1. s # "CONNECT" => Visits(s) \subseteq ctx
    BY DEF Visits
  <2>. QED  BY <1>1, <1>2, <2>1 DEF VisitsContext
<1>5. InContext'
  BY <1>1 DEF InLifecycle, InContext, States, StepStates, None
<1>6. StillConnected'
  <2>1. s \in {"PROBE", "START"} => Connected(ctx)
    BY DEF InLifecycle, StillConnected, Ends, None
  <2>2. Visits("START") = ctx
    BY DEF Visits
  <2>. QED  BY <1>1, <1>2, <2>1, <2>2 DEF StillConnected, Connected, States, StepStates, None
<1>7. NotCutOff'
  <2>1. s \in {"CONNECT", "DISCONNECT"} => NoneCutOff(ctx)
    BY <1>2 DEF InLifecycle, NotCutOff, Ends, None
  <2>2. s \in {"ABORT", "RESET"} => NoneCutOff(ctx \ Visits(s))
    <3>1. prev = "CONNECT" => NoneCutOff(ctx)
      BY DEF InLifecycle, NotCutOff
    <3>2. prev = "KEEP_ALIVE" => NoneLeft(ctx)
      BY DEF Known, VerdictEarned
    <3>3. Visits("RESET") = ctx
          /\ (prev \notin {"CONNECT", "KEEP_ALIVE"} => Visits("ABORT") = ctx)
      BY DEF Visits
    <3>. QED  BY <3>1, <3>2, <3>3 DEF NoneCutOff, NoneLeft
  <2>. QED  BY <1>1, <2>1, <2>2 DEF NotCutOff, NoneCutOff, States, StepStates, None
<1>. QED  BY <1>3, <1>4, <1>5, <1>6, <1>7 DEF InLifecycle

LEMMA LoopInLifecycle ==
  ASSUME Known, InLifecycle, Loop
  PROVE  InLifecycle' /\ LifecycleStep
<1>1. CASE HandlePauseOrResume
  <2>1. slot \in {"PAUSE", "RESUME"} /\ slot' = None /\ running = None /\ status = "running"
        /\ UNCHANGED <<status, id, running, prev, ctx, life, oper, aborted, initEnded>>
    BY <1>1 DEF HandlePauseOrResume, AtLoopTop, machine, models
  <2>. QED  BY <2>1
            DEF InLifecycle, FirstConnect, VisitsContext, InContext, StillConnected, Connected,
                NotCutOff, NoneCutOff, Ends, LifecycleStep, None
<1>2. CASE RunInterrupt
  <2>1. slot \in States /\ slot \in Ends
    BY <1>2 DEF Known, TypeOK, RunInterrupt, Interrupts, Requests, Ends, States
  <2>. QED  BY <1>2, <2>1, EnterInLifecycle
            DEF RunInterrupt, AtLoopTop, Enter, models, LifecycleStep
<1>3. CASE RunNominal
  <2>1. id \in States
    BY <1>3 DEF Known, TypeOK, RunNominal
  <2>. QED  BY <1>3, <2>1, EnterInLifecycle
            DEF RunNominal, AtLoopTop, Enter, models, LifecycleStep
<1>4. CASE Finish
  BY <1>4 DEF Finish, AtLoopTop, InLifecycle, FirstConnect, VisitsContext, InContext,
              StillConnected, Connected, NotCutOff, NoneCutOff, LifecycleStep, machine, models,
              flags, None
<1>. QED  BY <1>1, <1>2, <1>3, <1>4 DEF Loop

-----------------------------------------------------------------------------
(* The states, each in terms of the steps of ModelLifecycle.               *)

\* A state throws and leaves the lifecycle of its models alone.
LEMMA ThrowStep ==
  ASSUME InLifecycle, status = "running", running # None, NEW x \in Throwable, Throw(x),
         UNCHANGED <<ctx, life, oper, aborted>>
  PROVE  InLifecycle' /\ LifecycleStep
BY ThrowInLifecycle DEF LifecycleStep

\* A state other than Connect returns a state before which there is nothing to do.
LEMMA ReturnStep ==
  ASSUME InLifecycle, NEW s, NEW next, Done(s, next), Rest, UNCHANGED <<models, flags>>,
         s \notin {"CONNECT", None}, next \notin {"PROBE", "START"},
         next \in {"CONNECT", "DISCONNECT"} => NoneCutOff(ctx)
  PROVE  InLifecycle' /\ LifecycleStep
<1>1. running = s /\ Return(next)
  BY DEF Done, InState
<1>2. UNCHANGED <<ctx, life, oper, aborted>>
  BY DEF models
<1>3. \A m \in ctx' : life'[m] # "none"
  BY <1>2 DEF InLifecycle, InContext
<1>4. NoneCutOff(ctx) => NoneCutOff(ctx)'
  BY <1>2 DEF NoneCutOff
<1>5. InLifecycle'
  BY <1>1, <1>3, <1>4, ReturnInLifecycle
<1>. QED  BY <1>2, <1>5 DEF LifecycleStep

LEMMA ConnectStep ==
  ASSUME Known, InLifecycle, Connect
  PROVE  InLifecycle' /\ LifecycleStep
<1>1. ASSUME NEW m \in Models, ConnectModel(m) PROVE InLifecycle' /\ LifecycleStep
  <2>1. /\ running = "CONNECT" /\ prev = None /\ status = "running" /\ m \in todo
        /\ life' = [life EXCEPT ![m] = "connected"] /\ ctx' = ctx \cup {m}
        /\ todo' = todo \ {m}
        /\ UNCHANGED <<status, id, running, prev, slot, oper, aborted, initEnded>>
    BY <1>1 DEF ConnectModel, InState, NextModelReversed, Visited, flags
  <2>2. life[m] = "none" /\ m \notin ctx /\ life \in [Models -> Life] /\ ctx \subseteq Models
    BY <2>1 DEF InLifecycle, InContext, VisitsContext, Known, TypeOK
  <2>3. LifecycleStep
    <3>1. Lifecycle!Connect(m)
      BY <2>1, <2>2 DEF Lifecycle!Connect, Lifecycle!Goes
    <3>. QED  BY <3>1 DEF LifecycleStep, Lifecycle!Next
  <2>4. FirstConnect' /\ VisitsContext' /\ InContext'
    BY <2>1, <2>2 DEF InLifecycle, FirstConnect, VisitsContext, InContext, None
  <2>5. Connected(ctx)'
    BY <2>1, <2>2 DEF InLifecycle, StillConnected, Connected
  <2>6. StillConnected' /\ NotCutOff'
    BY <2>1, <2>5 DEF StillConnected, Connected, NotCutOff, NoneCutOff, None
  <2>. QED  BY <2>3, <2>4, <2>6 DEF InLifecycle
<1>2. CASE ConnectFails \/ ConnectDone
  <2>1. /\ running = "CONNECT" /\ prev = None /\ UNCHANGED <<ctx, life, oper, aborted>>
    BY <1>2 DEF ConnectFails, ConnectDone, Done, InState, models
  <2>2. PICK s \in {"ABORT", "PROBE", "START"} : Return(s)
    BY <1>2 DEF ConnectFails, ConnectDone, Done
  <2>3. Connected(ctx)'
    BY <2>1 DEF InLifecycle, StillConnected, Connected
  <2>4. (\A m \in ctx' : life'[m] # "none") /\ NoneCutOff(ctx)'
    BY <2>3 DEF Connected, NoneCutOff
  <2>. QED  BY <2>1, <2>2, <2>3, <2>4, ReturnInLifecycle DEF LifecycleStep, None
<1>3. CASE ConnectAgain \/ \E x \in Throwable : ConnectThrows(x)
  <2>1. PICK x \in Throwable : Throw(x)
    BY <1>3 DEF ConnectAgain, ConnectThrows, Throwable
  <2>. QED  BY <1>3, <2>1, ThrowStep DEF ConnectAgain, ConnectThrows, InState, None
<1>. QED  BY <1>1, <1>2, <1>3 DEF Connect

LEMMA StartStep ==
  ASSUME Known, InLifecycle, Start
  PROVE  InLifecycle' /\ LifecycleStep
<1>1. ASSUME NEW m \in Models, StartModel(m) PROVE InLifecycle' /\ LifecycleStep
  <2>1. /\ running = "START" /\ status = "running" /\ m \in todo
        /\ life' = [life EXCEPT ![m] = "started"] /\ oper' = oper \cup {m}
        /\ todo' = todo \ {m}
        /\ UNCHANGED <<status, id, running, prev, slot, ctx, aborted, initEnded>>
    BY <1>1 DEF StartModel, InState, NextModel, Visited, flags
  <2>2. life[m] = "connected" /\ m \in ctx /\ life \in [Models -> Life] /\ ctx \subseteq Models
    BY <2>1 DEF InLifecycle, StillConnected, Connected, VisitsContext, Known, TypeOK, None
  <2>3. LifecycleStep
    <3>1. Lifecycle!Start(m)
      BY <2>1, <2>2 DEF Lifecycle!Start, Lifecycle!Goes
    <3>. QED  BY <3>1 DEF LifecycleStep, Lifecycle!Next
  <2>4. FirstConnect' /\ VisitsContext' /\ InContext'
    BY <2>1, <2>2 DEF InLifecycle, FirstConnect, VisitsContext, InContext, None
  <2>5. StillConnected' /\ NotCutOff'
    BY <2>1, <2>2
       DEF InLifecycle, StillConnected, Connected, NotCutOff, Known, TypeOK, None
  <2>. QED  BY <2>3, <2>4, <2>5 DEF InLifecycle
<1>2. ASSUME NEW x \in Throwable, StartThrows(x) PROVE InLifecycle' /\ LifecycleStep
  BY <1>2, ThrowStep DEF StartThrows, InState, None
<1>3. CASE StartDone
  BY <1>3, ReturnStep DEF StartDone, StepOrPause, None
<1>. QED  BY <1>1, <1>2, <1>3 DEF Start

\* A state goes on to its next model, or a callback returns, and the lifecycle of
\* the models stays as it is, save for those that drop out or are aborted.
LEMMA StayInLifecycle ==
  ASSUME InLifecycle,
         UNCHANGED <<status, id, running, prev, ctx, life, initEnded>>,
         todo' \subseteq todo, running \in {"ABORT", "RESET"} => todo' = todo,
         oper' \subseteq oper, aborted \subseteq aborted',
         \/ slot' = slot
         \/ running \notin {None, "CONNECT"}
         \/ slot' = "ABORT" /\ slot = None /\ initEnded
  PROVE  InLifecycle'
<1>1. FirstConnect' /\ VisitsContext' /\ InContext'
  BY DEF InLifecycle, FirstConnect, VisitsContext, InContext, None
<1>2. StillConnected' /\ NotCutOff'
  BY DEF InLifecycle, StillConnected, Connected, NotCutOff, NoneCutOff, Ends, None
<1>. QED  BY <1>1, <1>2 DEF InLifecycle

\* A model is visited by a state that ends its run.
LEMMA VisitInLifecycle ==
  ASSUME Known, InLifecycle, NEW m \in todo, running \in {"STOP", "RESET", "STEP_CONTROLLERS"},
         NEW l \in {"stopped", "disconnected"}, life' = [life EXCEPT ![m] = l],
         todo' = todo \ {m}, oper' \subseteq oper, aborted \subseteq aborted',
         UNCHANGED <<status, id, running, prev, slot, ctx, initEnded>>
  PROVE  InLifecycle'
<1>1. m \in ctx /\ life \in [Models -> Life] /\ ctx \subseteq Models /\ m \in Models
  BY DEF InLifecycle, VisitsContext, Known, TypeOK, None
<1>2. FirstConnect' /\ VisitsContext' /\ InContext'
  BY <1>1 DEF InLifecycle, FirstConnect, VisitsContext, InContext, None
<1>3. StillConnected'
  BY DEF StillConnected, None
<1>4. NotCutOff'
  BY <1>1 DEF InLifecycle, NotCutOff, NoneCutOff, None
<1>. QED  BY <1>2, <1>3, <1>4 DEF InLifecycle

LEMMA StepsStep ==
  ASSUME Known, InLifecycle, StepBegin \/ StepSimulators \/ StepEnd
  PROVE  InLifecycle' /\ LifecycleStep
<1>1. ASSUME NEW m \in Models, ProcessModel(m) PROVE InLifecycle' /\ LifecycleStep
  BY <1>1, StayInLifecycle
     DEF ProcessModel, InState, Visited, models, flags, LifecycleStep, None
<1>2. ASSUME NEW m \in Models, SimulatorNotOperational(m) PROVE InLifecycle' /\ LifecycleStep
  BY <1>2, ThrowStep DEF SimulatorNotOperational, InState, Throwable, flags, None
<1>3. ASSUME NEW x \in Throwable, ProcessThrows(x) PROVE InLifecycle' /\ LifecycleStep
  BY <1>3, ThrowStep DEF ProcessThrows, InState, flags, None
<1>4. ASSUME Done("STEP_SIMULATORS", "STEP_CONTROLLERS"), Rest, UNCHANGED <<models, flags>>
      PROVE  InLifecycle' /\ LifecycleStep
  BY <1>4, ReturnStep DEF None
<1>5. CASE StepBegin
  BY <1>5, ReturnStep DEF StepBegin, None
<1>6. CASE StepEnd
  BY <1>6, ReturnStep DEF StepEnd, StepOrPause, None
<1>. QED  BY <1>1, <1>2, <1>3, <1>4, <1>5, <1>6 DEF StepSimulators

LEMMA StepControllersStep ==
  ASSUME Known, InLifecycle, StepControllers
  PROVE  InLifecycle' /\ LifecycleStep
<1>1. ASSUME NEW m \in Models, ProcessController(m) PROVE InLifecycle' /\ LifecycleStep
  BY <1>1, StayInLifecycle
     DEF ProcessController, InState, Visited, models, flags, LifecycleStep, None
<1>2. ASSUME NEW m \in Models, ControllerDies(m) PROVE InLifecycle' /\ LifecycleStep
  <2>1. /\ running = "STEP_CONTROLLERS" /\ status = "running" /\ m \in todo
        /\ aborted' = aborted \cup {m} /\ oper' \in {oper, oper \ {m}}
        /\ UNCHANGED <<ctx, initEnded>>
    BY <1>2 DEF ControllerDies, InState, NextModel, flags
  <2>2. m \in ctx /\ life[m] \in {"connected", "started", "stopped", "disconnected"}
    BY <2>1 DEF InLifecycle, VisitsContext, InContext, Known, TypeOK, Life, None
  <2>3. CASE life' = life /\ \E x \in Throwable : Throw(x)
    <3>1. InLifecycle'
      BY <2>1, <2>3, ThrowInLifecycle DEF None
    <3>2. Lifecycle!Abort({m})
      <4>1. \E D \in SUBSET {m} : oper' = oper \ D
        <5>1. oper \ {} = oper /\ {} \in SUBSET {m} /\ {m} \in SUBSET {m}
          OBVIOUS
        <5>. QED  BY <2>1, <5>1
      <4>. QED  BY <2>1, <2>2, <2>3, <4>1 DEF Lifecycle!Abort
    <3>. QED  BY <3>1, <3>2 DEF LifecycleStep, Lifecycle!Next
  <2>4. ASSUME life' = [life EXCEPT ![m] = "disconnected"], todo' = todo \ {m},
               UNCHANGED <<status, id, running, prev, slot>>
        PROVE  InLifecycle' /\ LifecycleStep
    <3>1. Lifecycle!Disconnect(m)
      BY <2>1, <2>2, <2>4 DEF Lifecycle!Disconnect, Lifecycle!Goes
    <3>2. InLifecycle'
      BY <2>1, <2>4, VisitInLifecycle
    <3>. QED  BY <3>1, <3>2 DEF LifecycleStep, Lifecycle!Next
  <2>. QED  BY <1>2, <2>3, <2>4 DEF ControllerDies
<1>3. ASSUME NEW m \in Models, NEW x \in Throwable, ControllerInterrupts(m, x)
      PROVE  InLifecycle' /\ LifecycleStep
  <2>1. /\ running = "STEP_CONTROLLERS" /\ status = "running"
        /\ UNCHANGED <<ctx, life, oper, aborted, initEnded>>
    BY <1>3 DEF ControllerInterrupts, InState, flags
  <2>2. CASE Throw("fatal")
    BY <2>1, <2>2, ThrowStep DEF Throwable, None
  <2>3. CASE UNCHANGED <<status, id, running, prev>> /\ todo' = {}
    BY <2>1, <2>3, StayInLifecycle DEF LifecycleStep, None
  <2>. QED  BY <1>3, <2>2, <2>3 DEF ControllerInterrupts
<1>4. ASSUME NEW x \in Throwable, ControllerThrows(x) PROVE InLifecycle' /\ LifecycleStep
  BY <1>4, ThrowStep DEF ControllerThrows, InState, None
<1>5. ASSUME Done("STEP_CONTROLLERS", "STEP_END"), EraseControllers,
             UNCHANGED <<life, oper, aborted>>
      PROVE  InLifecycle' /\ LifecycleStep
  <2>1. running = "STEP_CONTROLLERS" /\ Return("STEP_END") /\ ctx' \subseteq ctx
    BY <1>5 DEF Done, InState, EraseControllers
  <2>2. \A m \in ctx' : life'[m] # "none"
    BY <1>5, <2>1 DEF InLifecycle, InContext
  <2>. QED  BY <1>5, <2>1, <2>2, ReturnInLifecycle DEF LifecycleStep, None
<1>. QED  BY <1>1, <1>2, <1>3, <1>4, <1>5 DEF StepControllers, flags

LEMMA PassThroughStep ==
  ASSUME Known, InLifecycle,
         NEW s \in {"PAUSE", "RESUME", "SUCCESS", "FAIL", "KEEP_ALIVE", "PROBE"},
         PassThrough(s)
  PROVE  InLifecycle' /\ LifecycleStep
<1>1. s = "PROBE" => NoneCutOff(ctx)
  BY DEF PassThrough, Done, InState, InLifecycle, StillConnected, Connected, NoneCutOff
<1>2. Successor(s) \notin {"CONNECT", "PROBE", "START"}
      /\ (Successor(s) = "DISCONNECT" => s = "PROBE")
  BY DEF Successor
<1>. QED  BY <1>1, <1>2, ReturnStep DEF PassThrough, None

LEMMA StopStep ==
  ASSUME Known, InLifecycle, Stop
  PROVE  InLifecycle' /\ LifecycleStep
<1>1. ASSUME NEW m \in Models, StopModel(m) PROVE InLifecycle' /\ LifecycleStep
  <2>1. /\ running = "STOP" /\ m \in todo /\ todo' = todo \ {m}
        /\ oper' \in {oper, oper \ {m}}
        /\ UNCHANGED <<status, id, running, prev, slot, ctx, aborted, initEnded>>
    BY <1>1 DEF StopModel, InState, NextModel, Visited, flags
  <2>2. CASE UNCHANGED <<life, oper>>
    BY <2>1, <2>2, StayInLifecycle DEF LifecycleStep, None
  <2>3. CASE life' = [life EXCEPT ![m] = "stopped"]
    <3>1. m \in ctx /\ life[m] \in Life \ {"none"}
      BY <2>1 DEF InLifecycle, VisitsContext, InContext, Known, TypeOK, None
    <3>2. Lifecycle!Stop(m)
      BY <2>1, <2>3, <3>1 DEF Lifecycle!Stop, Lifecycle!Goes, Life
    <3>3. InLifecycle'
      BY <2>1, <2>3, VisitInLifecycle
    <3>. QED  BY <3>2, <3>3 DEF LifecycleStep, Lifecycle!Next
  <2>. QED  BY <1>1, <2>2, <2>3 DEF StopModel
<1>2. CASE StopDone
  <2>1. NoneCutOff(ctx)
    BY <1>2 DEF StopDone, Done, InState, Known, VerdictEarned, NoneLeft, NoneCutOff
  <2>. QED  BY <1>2, <2>1, ReturnStep DEF StopDone, None
<1>. QED  BY <1>1, <1>2 DEF Stop

LEMMA ResetStep ==
  ASSUME Known, InLifecycle, Reset
  PROVE  InLifecycle' /\ LifecycleStep
<1>1. CASE ResetDone
  <2>1. NoneCutOff(ctx)
    BY <1>1 DEF ResetDone, Done, InState, InLifecycle, NotCutOff, NoneCutOff
  <2>. QED  BY <1>1, <2>1, ReturnStep DEF ResetDone, None
<1>2. ASSUME NEW m \in Models, ResetModel(m) \/ ResetFails(m)
      PROVE  InLifecycle' /\ LifecycleStep
  <2>1. /\ running = "RESET" /\ m \in todo
        /\ life' = [life EXCEPT ![m] = "stopped"] /\ oper' \in {oper, oper \ {m}}
        /\ UNCHANGED <<ctx, aborted, initEnded>>
    BY <1>2 DEF ResetModel, ResetFails, InState, NextModel, Visited, flags
  <2>2. m \in ctx /\ life[m] \in Life \ {"none"}
    BY <2>1 DEF InLifecycle, VisitsContext, InContext, Known, TypeOK, None
  <2>3. Lifecycle!Stop(m)
    BY <2>1, <2>2 DEF Lifecycle!Stop, Lifecycle!Goes, Life
  <2>4. CASE ResetModel(m)
    <3>1. InLifecycle'
      BY <2>1, <2>4, VisitInLifecycle DEF ResetModel, Visited
    <3>. QED  BY <2>3, <3>1 DEF LifecycleStep, Lifecycle!Next
  <2>5. CASE ResetFails(m)
    <3>1. life \in [Models -> Life] /\ ctx \subseteq Models
      BY DEF Known, TypeOK
    <3>2. \A n \in ctx' : life'[n] # "none"
      BY <2>1, <2>2, <3>1 DEF InLifecycle, InContext
    <3>3. InLifecycle'
      BY <2>1, <2>5, <3>2, ReturnInLifecycle DEF ResetFails, None
    <3>. QED  BY <2>3, <3>3 DEF LifecycleStep, Lifecycle!Next
  <2>. QED  BY <1>2, <2>4, <2>5
<1>. QED  BY <1>1, <1>2 DEF Reset

LEMMA AbortStep ==
  ASSUME Known, InLifecycle, Abort
  PROVE  InLifecycle' /\ LifecycleStep
<1>1. ASSUME NEW m \in Models, AbortModel(m) PROVE InLifecycle' /\ LifecycleStep
  <2>1. /\ running = "ABORT" /\ m \in todo /\ todo' = todo \ {m}
        /\ aborted' = aborted \cup {m} /\ oper' \in {oper, oper \ {m}}
        /\ UNCHANGED <<status, id, running, prev, slot, ctx, life, initEnded>>
    BY <1>1 DEF AbortModel, InState, NextModel, Visited, flags
  <2>2. m \in ctx /\ life[m] # "none"
    BY <2>1 DEF InLifecycle, VisitsContext, InContext, None
  <2>3. Lifecycle!Abort({m})
    <3>1. \E D \in SUBSET {m} : oper' = oper \ D
      <4>1. oper \ {} = oper /\ {} \in SUBSET {m} /\ {m} \in SUBSET {m}
        OBVIOUS
      <4>. QED  BY <2>1, <4>1
    <3>. QED  BY <2>1, <2>2, <3>1 DEF Lifecycle!Abort
  <2>4. FirstConnect' /\ VisitsContext' /\ InContext'
    BY <2>1 DEF InLifecycle, FirstConnect, VisitsContext, InContext, None
  <2>5. StillConnected' /\ NotCutOff'
    BY <2>1 DEF InLifecycle, StillConnected, NotCutOff, NoneCutOff, None
  <2>. QED  BY <2>3, <2>4, <2>5 DEF InLifecycle, LifecycleStep, Lifecycle!Next
<1>2. CASE AbortDone
  <2>1. NoneCutOff(ctx)
    BY <1>2 DEF AbortDone, Done, InState, InLifecycle, NotCutOff, NoneCutOff
  <2>. QED  BY <1>2, <2>1, ReturnStep DEF AbortDone, None
<1>. QED  BY <1>1, <1>2 DEF Abort

LEMMA DisconnectStep ==
  ASSUME Known, InLifecycle, Disconnect
  PROVE  InLifecycle' /\ LifecycleStep
<1>1. ASSUME NEW m \in Models, DisconnectModel(m) PROVE InLifecycle' /\ LifecycleStep
  <2>1. /\ running = "DISCONNECT" /\ m \in todo /\ todo' = todo \ {m}
        /\ life' = [life EXCEPT ![m] = "disconnected"]
        /\ UNCHANGED <<status, id, running, prev, slot, ctx, oper, aborted, initEnded>>
    BY <1>1 DEF DisconnectModel, InState, NextModel, Visited, flags
  <2>2. m \in ctx /\ life[m] \in {"connected", "started", "stopped", "disconnected"}
    BY <2>1 DEF InLifecycle, VisitsContext, InContext, Known, TypeOK, Life, None
  <2>3. life \in [Models -> Life] /\ ctx \subseteq Models
    BY DEF Known, TypeOK
  <2>4. ~(life[m] = "started" /\ m \in oper \ aborted)
    BY <2>1, <2>2 DEF InLifecycle, NotCutOff, NoneCutOff
  <2>5. Lifecycle!Disconnect(m)
    BY <2>1, <2>2, <2>4 DEF Lifecycle!Disconnect, Lifecycle!Goes, Lifecycle!CutOff
  <2>6. FirstConnect' /\ VisitsContext' /\ InContext'
    BY <2>1, <2>2, <2>3 DEF InLifecycle, FirstConnect, VisitsContext, InContext, None
  <2>7. StillConnected' /\ NotCutOff'
    BY <2>1, <2>2, <2>3 DEF InLifecycle, StillConnected, NotCutOff, NoneCutOff, None
  <2>. QED  BY <2>5, <2>6, <2>7 DEF InLifecycle, LifecycleStep, Lifecycle!Next
<1>2. ASSUME NEW x \in Throwable, DisconnectThrows(x) PROVE InLifecycle' /\ LifecycleStep
  BY <1>2, ThrowStep DEF DisconnectThrows, InState, None
<1>3. CASE DisconnectDone
  BY <1>3, ReturnStep DEF DisconnectDone, None
<1>. QED  BY <1>1, <1>2, <1>3 DEF Disconnect

LEMMA EnvironmentStep ==
  ASSUME Known, InLifecycle, Environment
  PROVE  InLifecycle' /\ LifecycleStep
<1>1. ASSUME NEW r \in Requests, TriggerRequests(r) PROVE InLifecycle' /\ LifecycleStep
  <2>1. /\ running \notin {None, "CONNECT"} /\ status = "running"
        /\ UNCHANGED <<ctx, life, oper, aborted, initEnded>>
    BY <1>1 DEF TriggerRequests, FiresTriggers, flags, None
  <2>2. CASE Throw("fatal")
    BY <2>1, <2>2, ThrowStep DEF Throwable
  <2>3. CASE UNCHANGED <<status, machine, outcome, toErase>>
    BY <2>1, <2>3, StayInLifecycle DEF machine, LifecycleStep
  <2>. QED  BY <1>1, <2>2, <2>3 DEF TriggerRequests
<1>2. ASSUME NEW x \in Throwable, TriggerThrows(x) PROVE InLifecycle' /\ LifecycleStep
  BY <1>2, ThrowStep DEF TriggerThrows, FiresTriggers, None
<1>3. ASSUME NEW m \in Models, DropOut(m) PROVE InLifecycle' /\ LifecycleStep
  <2>1. InLifecycle'
    BY <1>3, StayInLifecycle DEF DropOut, machine, flags
  <2>2. Lifecycle!DropOut(m)
    BY <1>3 DEF DropOut, Lifecycle!DropOut
  <2>. QED  BY <2>1, <2>2, <1>3 DEF LifecycleStep, Lifecycle!Next
<1>4. CASE TriggerKeepsAlive \/ WatchdogTimeout
  BY <1>4, StayInLifecycle
     DEF TriggerKeepsAlive, WatchdogTimeout, machine, models, flags, LifecycleStep
<1>5. CASE Signal
  <2>1. UNCHANGED <<id, running, todo, prev, ctx, life, initEnded>> /\ status = "running"
    BY <1>5 DEF Signal, flags, machine
  <2>2. CASE slot' = "ABORT" /\ slot = None /\ initEnded /\ UNCHANGED <<status, aborted, oper>>
    BY <2>1, <2>2, StayInLifecycle DEF LifecycleStep
  <2>3. CASE HandlerThrows
    <3>1. status' = "crashed" /\ UNCHANGED <<slot, aborted, oper>>
      BY <2>3 DEF HandlerThrows
    <3>. QED  BY <2>1, <3>1
              DEF InLifecycle, FirstConnect, VisitsContext, InContext, StillConnected, Connected,
                  NotCutOff, NoneCutOff, LifecycleStep
  <2>4. CASE AbortDirectly
    <3>1. InLifecycle'
      BY <2>1, <2>4, StayInLifecycle DEF AbortDirectly
    <3>2. Lifecycle!Abort(ctx)
      BY <2>1, <2>4 DEF AbortDirectly, Lifecycle!Abort, InLifecycle, InContext
    <3>3. ctx \in SUBSET Models
      BY DEF Known, TypeOK
    <3>. QED  BY <3>1, <3>2, <3>3 DEF LifecycleStep, Lifecycle!Next
  <2>. QED  BY <1>5, <2>2, <2>3, <2>4 DEF Signal
<1>. QED  BY <1>1, <1>2, <1>3, <1>4, <1>5 DEF Environment

-----------------------------------------------------------------------------

\* Every step that the machine, its watchdog, a failure or a signal takes is one
\* that ModelLifecycle allows: no model is connected or started twice, and none
\* that runs is disconnected before it was stopped or told to abort.
THEOREM LifecycleImplemented == Spec => LifecycleSpec
<1>1. Init => Lifecycle!Init
  BY DEF Init, Lifecycle!Init
<1>2. Init => InLifecycle
  BY DEF Init, InLifecycle, FirstConnect, VisitsContext, InContext, StillConnected, NotCutOff,
         Connected, NoneCutOff, None
<1>3. Known /\ InLifecycle /\ [Next]_vars => InLifecycle' /\ LifecycleStep
  <2>. SUFFICES ASSUME Known, InLifecycle, [Next]_vars
                PROVE  InLifecycle' /\ LifecycleStep
    OBVIOUS
  <2>1. CASE Run
    BY <2>1, LoopInLifecycle, ConnectStep, StartStep, StepsStep, StepControllersStep,
       PassThroughStep, StopStep, ResetStep, AbortStep, DisconnectStep DEF Run
  <2>2. CASE Environment
    BY <2>2, EnvironmentStep
  <2>3. CASE UNCHANGED vars
    BY <2>3 DEF InLifecycle, FirstConnect, VisitsContext, InContext, StillConnected, Connected,
                NotCutOff, NoneCutOff, LifecycleStep, vars, machine, models, flags
  <2>. QED  BY <2>1, <2>2, <2>3 DEF Next, Terminated
<1>4. Spec => []Known
  BY TypeCorrect, VerdictEarnedInvariant, PTL DEF Known
<1>5. LifecycleStep <=> [Lifecycle!Next]_(Lifecycle!lifecycle)
  BY DEF LifecycleStep, Lifecycle!lifecycle
<1>. QED  BY <1>1, <1>2, <1>3, <1>4, <1>5, PTL DEF Spec, LifecycleSpec, Lifecycle!Spec

=============================================================================
