----------------------------- MODULE VtdBinding -----------------------------
(***************************************************************************)
(* The simulator binding for VTD (optional/vtd).  The binding talks to VTD *)
(* over three kinds of TCP streams: SCP (control commands, both ways), the *)
(* task control RDB stream (triggers out, ground truth in) and one RDB or  *)
(* OSI stream per sensor of each vehicle.                                  *)
(*                                                                         *)
(* The binding runs in the engine's thread.  connect() is a dialogue with  *)
(* a sequence of waits (Stages); process() reads SCP, then blocks on every *)
(* codec in turn until it holds the frame of the current step, then sends  *)
(* the trigger that lets VTD compute the next frame.  VTD, the network,    *)
(* other SCP clients and the signal handler that calls abort() act at any  *)
(* time in between; VTD is external and is modelled from what the binding  *)
(* sends it and expects back.                                              *)
(***************************************************************************)
EXTENDS Integers, Sequences, FiniteSets, SequencesExt, FiniteSetsExt

CONSTANTS
    Agents,         \* players of the scenario with Control="external"
    OsiAgents,      \* those that may be configured with an OSI sensor
    Strangers,      \* ids that another SCP client may name in a Set command
    Scenarios,      \* scenario files
    RetryAttempts,  \* configuration_retry_attempts
    WaitTries,      \* connection.retry_attempts, of TCP and of SCP waits
    OsiForms,       \* OSI messages: size on the wire and the fields that are set
    MockMount,      \* mock level configured for the mounting position
    OsiThreshold,   \* sizeof(osi3::SensorData)
    MaxStep, MaxEvents   \* bounds of the exploration

Players == Agents \cup Strangers
TC      == "task_control"
Osi     == "osi"                     \* the OSI sensor of one of the agents
NoScenario == ""
Codecs  == Players \cup {TC, Osi}

ASSUME VtdAssumption ==
    /\ IsFiniteSet(Agents) /\ OsiAgents \subseteq Agents /\ Scenarios # {}
    /\ RetryAttempts \in Nat /\ WaitTries \in Nat /\ OsiThreshold \in Nat
    /\ OsiForms \subseteq [size : Nat, timestamp : BOOLEAN, view : BOOLEAN, mount : BOOLEAN]
    /\ MockMount \in {"overwrite_none", "interpolate_missing", "overwrite_all"}
    /\ {TC, Osi} \cap Players = {}
    /\ MaxStep \in Nat /\ MaxEvents \in Nat

VARIABLES
    phase,        \* the call of the engine that is in progress, or its end
    stage,        \* what connect() waits for
    attempt,      \* attempts of connect()
    tries,        \* tries left in the current wait
    polling,      \* a round of scp_try_read_until is in progress
    scenario,     \* config_.scenario, empty when the user selects it in VTD
    taskControl,  \* task_control_ != nullptr
    expected,     \* agents_expected_
    vehicles,     \* vehicles_, by player id
    unregistered, \* remaining_vehicles_: configured, and never created
    initDone, operational,
    abort,        \* abort_signal_
    step,         \* sync.step()
    todo,         \* codecs that process() has still to step
    received,     \* messages of the current receive() that are still to be processed
    codec,        \* per codec: frame_number_, processing_frame_, restart_, data
    nextTime,     \* sensor_data_time_next_ of the OSI sensor
    osiOwner,     \* agents that are configured with the OSI sensor
    scp,          \* SCP messages on their way to the binding
    broken,       \* the SCP stream fails once it is drained
    stream,       \* per codec: messages of VTD that the binding has yet to process
    vtd,          \* VTD: mode, frame and run (restarts so far)
    early,        \* streams in which the last reset left a frame 0 of the run before it
    events        \* failures, commands by others and aborts so far

sensing == <<step, todo, received, codec, nextTime>>
waiting == <<stage, attempt, tries, polling>>
known   == <<scenario, taskControl, expected, vehicles, unregistered, initDone,
             operational>>
binding == <<phase, waiting, known, sensing>>
world   == <<scp, broken, stream, vtd>>
vars    == <<binding, world, abort, osiOwner, early, events>>

Stages == <<"paramserver", "scp", "task_control", "scenario", "agents",
            "vehicles", "init_done", "operational">>
StageAfter(s) == Stages[(CHOOSE i \in DOMAIN Stages : Stages[i] = s) + 1]

Silent == [c \in Codecs |-> <<>>]

FreshCodec == [frame |-> 0, open |-> FALSE, restart |-> FALSE, data |-> {}]

SensorsOf(p) == {p} \cup (IF p \in osiOwner THEN {Osi} ELSE {})

TypeOK ==
    /\ phase \in {"idle", "connect", "ready", "process", "sensors", "reset",
                  "stopped", "failed", "aborted", "disconnected"}
    /\ stage \in Range(Stages)
    /\ tries \in 0..WaitTries
    /\ expected \subseteq Agents
    /\ Range(vehicles) \subseteq Players
    /\ vtd.mode \in {"config", "apply", "init", "run"}
    /\ \A c \in Codecs : codec[c].open \in BOOLEAN /\ codec[c].restart \in BOOLEAN

Init ==
    /\ phase = "idle" /\ stage = "paramserver" /\ attempt = 0 /\ tries = WaitTries
    /\ scenario \in {NoScenario, CHOOSE s \in Scenarios : TRUE}
    /\ polling = FALSE
    /\ taskControl = FALSE /\ expected = {} /\ vehicles = <<>>
    /\ initDone = FALSE /\ operational = FALSE /\ abort = FALSE
    /\ step = 0 /\ todo = <<>> /\ received = 0 /\ nextTime = 0
    /\ codec = [c \in Codecs |-> FreshCodec]
    /\ osiOwner \in {{}} \cup {{a} : a \in OsiAgents}
    /\ unregistered = osiOwner
    /\ scp = <<>> /\ broken = FALSE /\ early = {}
    /\ stream = Silent
    /\ vtd \in [mode : {"config", "apply"}, frame : {0}, run : {0}]
    /\ events = 0

(***************************************************************************)
(* What VTD writes.  An RDB frame may come in two messages, the first with *)
(* START_OF_FRAME, the second with END_OF_FRAME; an OSI frame is one.      *)
(***************************************************************************)
Part(r, f, p, form) == [run |-> r, frame |-> f, part |-> p, form |-> form]

\* The messages of frame f of run r for codec c; the OSI sensor is silent until
\* the first frame that is triggered.
Frame(r, f, c, form) ==
    IF c # Osi THEN <<Part(r, f, 1, {}), Part(r, f, 2, {})>>
    ELSE IF f = 0 THEN <<>> ELSE <<Part(r, f, 1, {form})>>

Active == (IF taskControl THEN {TC} ELSE {}) \cup UNION {SensorsOf(p) : p \in Range(vehicles)}

\* VTD computes frame f and queues it for every open stream.
Emit(f) ==
    stream' \in {[c \in Codecs |-> IF c \in Active THEN stream[c] \o Frame(vtd.run, f, c, form)
                                   ELSE stream[c]] : form \in OsiForms}

\* What reaches the binding of the answers ms, when the stream still works.
Answer(ms) == scp' = IF broken THEN scp ELSE scp \o ms

(***************************************************************************)
(* connect(): the clients, the dialogue, and what happens on an error      *)
(***************************************************************************)
Connect ==
    /\ phase = "idle" /\ phase' = "connect" /\ attempt' = 1
    /\ UNCHANGED <<stage, tries, polling, known, sensing, world, abort, osiOwner,
                   early, events>>

\* TcpTransceiverFactory::create_or_throw: try, give up after retry_attempts
\* failures, leave at the checkpoint when aborted.
ClientFails ==
    /\ phase = "connect" /\ stage \in {"paramserver", "scp"}
    /\ \/ tries = 0 /\ phase' = "failed" /\ UNCHANGED tries
       \/ tries > 0 /\ abort /\ phase' = "aborted" /\ UNCHANGED tries
       \/ tries > 0 /\ ~abort /\ tries' = tries - 1 /\ UNCHANGED phase
    /\ UNCHANGED <<stage, attempt, polling, known, sensing, world, abort,
                   osiOwner, early, events>>

ClientConnects ==
    /\ phase = "connect" /\ stage = "paramserver"
    /\ stage' = "scp" /\ tries' = WaitTries
    /\ UNCHANGED <<phase, attempt, polling, known, sensing, world, abort,
                   osiOwner, early, events>>

\* The SCP client is up: Config, a checkpoint, the parameters, Apply and
\* QueryInit are sent.  A VTD that is not in its configuration mode answers
\* Config by resetting the connection.
Configure ==
    /\ phase = "connect" /\ stage = "scp"
    /\ IF abort THEN phase' = "aborted" /\ UNCHANGED <<stage, tries>>
                ELSE stage' = "task_control" /\ tries' = WaitTries /\ UNCHANGED phase
    /\ stream' = Silent
    /\ IF vtd.mode # "config"
         THEN broken' = TRUE /\ scp' = <<>> /\ vtd' = [vtd EXCEPT !.mode = "config"]
         ELSE /\ broken' = FALSE
              /\ scp' = IF abort THEN <<>> ELSE << <<"RDB">> >>
              /\ vtd' = IF abort THEN vtd ELSE [vtd EXCEPT !.mode = "apply"]
    /\ UNCHANGED <<attempt, polling, known, sensing, abort, osiOwner, early,
                   events>>

\* The predicate each scp_try_read_until waits for.
ArrivedSome == CASE stage = "task_control" -> taskControl
                 [] stage = "scenario"     -> scenario # NoScenario
                 [] stage = "agents"       -> expected # {}
                 [] stage = "vehicles"     -> vehicles # <<>>
                 [] stage = "init_done"    -> initDone
                 [] stage = "operational"  -> operational
                 [] OTHER                  -> FALSE
Arrived == CASE stage = "task_control" -> taskControl
             [] stage = "scenario"     -> scenario # NoScenario
             [] stage = "agents"       -> expected # {}
             [] stage = "vehicles"     -> Cardinality(expected) = Len(vehicles)
             [] stage = "init_done"    -> initDone
             [] stage = "operational"  -> operational
             [] OTHER                  -> FALSE

\* A wait is over: what is sent next, and VTD's answer to it.  QueryScenario
\* follows the choice of the scenario; LoadScenario, after a checkpoint, and
\* InitOperation make VTD set up one player per agent; AckInit lets it run.
Advance ==
    /\ phase = "connect" /\ ~polling /\ Arrived /\ stage # "operational"
    /\ stage = "agents" => ~abort
    /\ stage' = StageAfter(stage) /\ tries' = WaitTries
    /\ CASE stage = "scenario" ->
              Answer(<< <<"Scenario">> >>) /\ UNCHANGED <<vtd, stream>>
         [] stage = "agents" /\ ~broken ->
              /\ Answer(<< <<"LoadScenario", scenario>> >>
                        \o [i \in DOMAIN SetToSeq(Agents) |-> <<"Set", SetToSeq(Agents)[i]>>])
              /\ vtd' = [vtd EXCEPT !.mode = "init"] /\ UNCHANGED stream
         [] stage = "vehicles" /\ ~broken ->
              /\ Answer(<< <<"InitDone">>, <<"Run">> >>)
              /\ vtd' = [vtd EXCEPT !.mode = "run", !.frame = 0]
              /\ Emit(0)
         [] OTHER -> UNCHANGED <<scp, vtd, stream>>
    /\ UNCHANGED <<phase, attempt, polling, known, sensing, broken, abort,
                   osiOwner, early, events>>

\* The checkpoint in sleep_awhile, before the scenario is loaded.
Checkpoint ==
    /\ phase = "connect" /\ ~polling /\ Arrived /\ stage = "agents" /\ abort
    /\ phase' = "aborted"
    /\ UNCHANGED <<waiting, known, sensing, world, abort, osiOwner, early,
                   events>>

\* scp_try_read_until looks whether it has what it waits for only before a
\* round of reading; a round reads what has come by then.
Poll ==
    /\ phase = "connect" /\ stage \notin {"paramserver", "scp"}
    /\ ~polling /\ ~Arrived
    /\ polling' = TRUE
    /\ UNCHANGED <<phase, stage, attempt, tries, known, sensing, world, abort,
                   osiOwner, early, events>>

\* After retry_attempts + 1 rounds the wait gives up, whatever the last of them
\* has read: a ModelError, which the retry of connect() does not catch.
TickForever ==
    phase = "connect" /\ polling /\ ~(broken /\ scp = <<>>) /\ UNCHANGED vars
Tick ==
    /\ phase = "connect" /\ polling /\ ~(broken /\ scp = <<>>)
    /\ polling' = FALSE
    /\ IF tries = 0 THEN phase' = "failed" /\ UNCHANGED tries
                    ELSE tries' = tries - 1 /\ UNCHANGED phase
    /\ UNCHANGED <<stage, attempt, known, sensing, world, abort, osiOwner,
                   early, events>>

\* VTD runs.  Every vehicle of the configuration must have been created, in this
\* attempt or in an earlier one; then frame 1 is triggered with a time step of 0.
Connected ==
    /\ phase = "connect" /\ stage = "operational" /\ ~polling /\ operational
    /\ \/ /\ unregistered = {} /\ phase' = "ready"
          /\ vtd' = [vtd EXCEPT !.frame = @ + 1] /\ Emit(vtd.frame + 1)
       \/ /\ unregistered # {} /\ phase' = "failed"
          /\ UNCHANGED <<vtd, stream>>
    /\ UNCHANGED <<waiting, known, sensing, scp, broken, abort, osiOwner,
                   early, events>>

(***************************************************************************)
(* readall_scp(): connect(), process() and reset() read and apply SCP      *)
(***************************************************************************)
Reading == phase \in {"process", "reset"} \/ (phase = "connect" /\ polling)

\* A Set makes a vehicle only before VTD runs and for a new id.
Creates(m) == /\ m[1] = "Set" /\ ~operational /\ taskControl
              /\ m[2] \notin Range(vehicles)

\* A restart by someone else, or a scenario other than the configured one.
Refused(m) == \/ m[1] = "Restart" /\ operational
              \/ m[1] = "LoadScenario" /\ scenario \notin {NoScenario, m[2]}

Apply(m) ==
    /\ taskControl' = (taskControl \/ m[1] = "RDB")
    /\ expected' = IF m[1] = "Scenario" THEN expected \cup Agents ELSE expected
    /\ vehicles' = IF Creates(m) THEN Append(vehicles, m[2]) ELSE vehicles
    /\ unregistered' = IF Creates(m) THEN unregistered \ {m[2]} ELSE unregistered
    /\ codec' = [c \in Codecs |->
                   IF \/ Creates(m) /\ c \in SensorsOf(m[2])
                      \/ m[1] = "RDB" /\ c = TC
                     THEN FreshCodec ELSE codec[c]]
    /\ nextTime' = IF Creates(m) /\ m[2] \in osiOwner THEN 0 ELSE nextTime
    /\ initDone' = (initDone \/ m[1] = "InitDone")
    /\ operational' = CASE m[1] = "Run"  -> TRUE
                         [] m[1] = "Stop" -> FALSE
                         [] OTHER         -> operational
    /\ scenario' = IF m[1] = "LoadScenario" THEN m[2] ELSE scenario

ReadScp ==
    /\ Reading /\ scp # <<>>
    /\ \/ abort /\ phase' = "aborted" /\ UNCHANGED <<known, codec, nextTime,
                                                     scp>>
       \/ /\ ~abort /\ Refused(Head(scp)) /\ phase' = "failed" /\ scp' = Tail(scp)
          /\ UNCHANGED <<known, codec, nextTime>>
       \/ /\ ~abort /\ ~Refused(Head(scp)) /\ Apply(Head(scp)) /\ scp' = Tail(scp)
          /\ UNCHANGED phase
    /\ UNCHANGED <<waiting, step, todo, received, broken, stream, vtd, abort,
                   osiOwner, early, events>>

\* The stream to the task control or to a new sensor cannot be opened: an
\* ios_base::failure, which connect() does not catch.
StreamFails ==
    /\ Reading /\ scp # <<>> /\ ~abort /\ events < MaxEvents
    /\ Head(scp)[1] = "RDB" \/ Creates(Head(scp))
    /\ events' = events + 1 /\ phase' = "failed" /\ scp' = Tail(scp)
    /\ UNCHANGED <<waiting, known, sensing, broken, stream, vtd, abort,
                   osiOwner, early>>

\* A TcpReadError or an ScpError.  In connect() it starts a new attempt, after
\* clear() and disconnect(), as long as there are attempts left; what the
\* failed attempt learnt of VTD is kept.
ReadFails ==
    /\ Reading /\ broken /\ scp = <<>>
    /\ IF phase = "connect" /\ attempt <= RetryAttempts
         THEN /\ attempt' = attempt + 1 /\ stage' = "paramserver"
              /\ tries' = WaitTries /\ polling' = FALSE
              /\ vehicles' = <<>> /\ taskControl' = FALSE
              /\ UNCHANGED phase
         ELSE phase' = "failed" /\ UNCHANGED <<waiting, vehicles, taskControl>>
    /\ UNCHANGED <<scenario, expected, unregistered, initDone, operational,
                   sensing, world, abort, osiOwner, early, events>>

(***************************************************************************)
(* process(): SCP, then every codec, then the trigger                      *)
(***************************************************************************)
Process ==
    /\ phase = "ready" /\ operational /\ step < MaxStep
    /\ phase' = "process" /\ step' = step + 1
    /\ UNCHANGED <<waiting, known, todo, received, codec, nextTime, world,
                   abort, osiOwner, early, events>>

\* SCP is read; when VTD was stopped the step ends here.
ScpRead ==
    /\ phase = "process"
    /\ IF operational
         THEN phase' = "sensors" /\ todo' = <<TC>> \o vehicles
         ELSE phase' = "stopped" /\ UNCHANGED todo
    /\ UNCHANGED <<waiting, known, step, received, codec, nextTime, world,
                   abort, osiOwner, early, events>>

\* What is left after the codec at hand: the task control is followed by the
\* vehicles, and a vehicle steps its OSI sensor after the other one.
NextTodo == (IF Head(todo) \in osiOwner THEN <<Osi>> ELSE <<>>) \o Tail(todo)

\* VtdOmniSensor: START_OF_FRAME clears the data, everything else adds to it.
Store(k, m) == (IF m.part = 1 THEN {} ELSE k.data) \cup {m}

\* START_OF_FRAME opens the frame, END_OF_FRAME closes it.
Open(m) == m.part = 1

\* RdbCodec::process: a message of another frame than 0 is dropped, but its
\* number kept, while a restart is due; frame 0 ends the restart.
Decode(k, m) ==
    IF k.restart /\ m.frame # 0
      THEN [k EXCEPT !.frame = m.frame]
      ELSE [frame |-> m.frame, restart |-> (k.restart /\ m.frame # 0),
            open |-> Open(m), data |-> Store(k, m)]

\* RdbCodec::step goes on until the frame of this step is complete.
WantingNumber(k) == k.frame < step \/ k.restart
Wanting(k) == k.open \/ k.frame < step \/ k.restart

CodecDone ==
    /\ phase = "sensors" /\ todo # <<>> /\ Head(todo) # Osi
    /\ received = 0 /\ ~Wanting(codec[Head(todo)])
    /\ todo' = NextTodo
    /\ UNCHANGED <<phase, waiting, known, step, received, codec, nextTime,
                   world, abort, osiOwner, early, events>>

\* Until then it takes all messages that have arrived, at least one, and
\* processes each of them before it looks again.
StepCodec ==
    LET c == Head(todo)
    IN /\ phase = "sensors" /\ todo # <<>> /\ c # Osi
       /\ received > 0 \/ Wanting(codec[c])
       /\ \E n \in 1..Len(stream[c]) :
            (received > 0 => n = received) /\ received' = n - 1
       /\ codec' = [codec EXCEPT ![c] = Decode(@, Head(stream[c]))]
       /\ stream' = [stream EXCEPT ![c] = Tail(@)]
       /\ UNCHANGED <<phase, waiting, known, step, todo, nextTime, scp, broken,
                      vtd, abort, osiOwner, early, events>>

\* OsiTransceiverTcp::receive_osi_msgs, when n messages have arrived: a message
\* is taken as long as there are sizeof(osi3::SensorData) bytes.
OsiBytes(i, n) == FoldLeft(LAMBDA b, m : b + (CHOOSE x \in m.form : TRUE).size, 0,
                           SubSeq(stream[Osi], i, n))
Takes(k, n) == OsiBytes(k, n) >= OsiThreshold /\ OsiBytes(k + 1, n) < OsiThreshold

\* OsiMsgHandler refuses a message without a timestamp, without a sensor view,
\* or without a mounting position unless that may be mocked.
OsiAccepts(m) ==
    \A form \in m.form : /\ form.timestamp /\ form.view
                         /\ form.mount \/ MockMount # "overwrite_none"

\* The earliest time of the messages is t; frame f was taken at time f - 1,
\* since frame 1 was triggered with a step of zero.
OsiTime(ms, t) == /\ \A m \in ms : m.frame - 1 >= t
                  /\ \E m \in ms : m.frame - 1 = t

\* VtdOsiSensor::step takes what it can get of the messages, at least one, and
\* compares their time with the expected one.  Nothing ends a restart.
StepOsi ==
    /\ phase = "sensors" /\ todo # <<>> /\ Head(todo) = Osi
    /\ \E n \in 1..Len(stream[Osi]) : \E k \in 1..n :
         LET ms == Range(SubSeq(stream[Osi], 1, k))
             ok == /\ \A m \in ms : OsiAccepts(m)
                   /\ codec[Osi].restart \/ OsiTime(ms, nextTime)
         IN /\ Takes(k, n)
            /\ stream' = [stream EXCEPT ![Osi] = SubSeq(@, k + 1, Len(@))]
            /\ codec' = [codec EXCEPT ![Osi].data =
                           (IF codec[Osi].restart THEN @ ELSE {}) \cup ms]
            /\ IF ~ok THEN phase' = "failed" /\ UNCHANGED <<todo, nextTime>>
               ELSE IF codec[Osi].restart THEN UNCHANGED <<phase, todo,
                                                           nextTime>>
               ELSE todo' = Tail(todo) /\ nextTime' = step /\ UNCHANGED phase
    /\ UNCHANGED <<waiting, known, step, received, scp, broken, vtd, abort,
                   osiOwner, early, events>>

\* The sensors hold the frame; the actuations and the trigger are sent.
Trigger ==
    /\ phase = "sensors" /\ todo = <<>> /\ phase' = "ready"
    /\ vtd' = [vtd EXCEPT !.frame = @ + 1] /\ Emit(vtd.frame + 1)
    /\ UNCHANGED <<waiting, known, sensing, scp, broken, abort, osiOwner,
                   early, events>>

(***************************************************************************)
(* reset() after stop(), and disconnect()                                  *)
(***************************************************************************)
\* Stop and Restart come back to every SCP client, then VTD runs from frame 0;
\* it may or may not go on to frame 1 before it waits for a trigger.  What is
\* left of the old frame has been written to all, one or none of the streams.
Restarted(f) ==
    LET r == vtd.run + 1
    IN /\ scp' = scp \o << <<"Stop">>, <<"Restart">>, <<"Run">> >>
       /\ vtd' = [mode |-> "run", frame |-> f, run |-> r]
       /\ \E form \in OsiForms, kept \in {{}, {TC}, Active} :
            stream' = [c \in Codecs |->
                        (IF c \in kept THEN stream[c] ELSE <<>>)
                        \o (IF c \in Active THEN Frame(r, 0, c, form) ELSE <<>>)
                        \o (IF c \in Active /\ f = 1 THEN Frame(r, 1, c, form) ELSE <<>>)]

\* reset() may come at any time between two steps, also before the first one.
\* early is history: the streams in which the frame 0 of the run that ends here
\* is still to be read.
Reset ==
    /\ phase \in {"ready", "stopped"} /\ vtd.run = 0
    /\ phase' = "reset" /\ operational' = FALSE
    /\ IF broken THEN UNCHANGED <<scp, vtd, stream>> ELSE \E f \in {0, 1} : Restarted(f)
    /\ early' = {c \in Active : \E i \in DOMAIN stream'[c] :
                                  stream'[c][i].run = vtd.run /\ stream'[c][i].frame = 0}
    /\ UNCHANGED <<waiting, scenario, taskControl, expected, vehicles,
                   unregistered, initDone, sensing, broken, abort, osiOwner,
                   events>>

\* VTD runs again: every sensor and the task control drop their data.
ResetDone ==
    /\ phase = "reset" /\ operational
    /\ phase' = "ready" /\ step' = 0
    /\ codec' = [c \in Codecs |-> IF c \in Active
                   THEN [codec[c] EXCEPT !.data = {}, !.restart = TRUE] ELSE codec[c]]
    /\ UNCHANGED <<waiting, known, todo, received, nextTime, world, abort,
                   osiOwner, early, events>>

Disconnect ==
    /\ phase \in {"ready", "stopped"} /\ phase' = "disconnected"
    /\ vehicles' = <<>> /\ taskControl' = FALSE
    /\ UNCHANGED <<waiting, scenario, expected, unregistered, initDone, operational, sensing,
                   world, abort, osiOwner, early, events>>

(***************************************************************************)
(* The world: VTD's streams, other SCP clients, the network, the signal    *)
(***************************************************************************)
\* What they do during a step is as if it came before, when SCP is read after it,
\* or else after the step: nothing of it is seen while the sensors are read.
Live == phase \in {"connect", "ready", "reset"}

\* While VTD sets up its players it writes as it goes, so that what others send
\* comes anywhere behind the message that is next.
OtherClient ==
    /\ Live /\ ~broken /\ events < MaxEvents /\ events' = events + 1
    /\ vtd.mode # "config"
    /\ \E m \in {<<"Set", p>> : p \in Strangers}
              \cup {<<"LoadScenario", s>> : s \in Scenarios}
              \cup (IF vtd.mode = "run" THEN {<<"Stop">>, <<"Restart">>} ELSE {<<"Run">>}),
          i \in 1..Len(scp) + 1 :
         /\ (i > 1 /\ vtd.mode = "init") \/ i = Len(scp) + 1
         /\ scp' = InsertAt(scp, i, m)
    /\ UNCHANGED <<binding, broken, stream, vtd, abort, osiOwner, early>>

Break ==
    /\ Live /\ ~broken /\ events < MaxEvents /\ events' = events + 1
    /\ broken' = TRUE
    /\ UNCHANGED <<binding, scp, stream, vtd, abort, osiOwner, early>>

Abort ==
    /\ Live /\ ~abort /\ events < MaxEvents
    /\ abort' = TRUE /\ events' = events + 1
    /\ UNCHANGED <<binding, world, osiOwner, early>>

Dialogue == Connect \/ ClientFails \/ ClientConnects \/ Configure \/ Advance \/ Checkpoint
            \/ Poll \/ Tick \/ Connected \/ ReadScp \/ StreamFails \/ ReadFails
Stepping == Process \/ ScpRead \/ CodecDone \/ StepCodec \/ StepOsi \/ Trigger
Next == \/ Dialogue \/ Stepping \/ Reset \/ ResetDone \/ Disconnect
        \/ OtherClient \/ Break \/ Abort

\* The engine's thread keeps running; nothing is assumed of VTD.
Spec == Init /\ [][Next]_vars /\ WF_vars(Dialogue)

(***************************************************************************)
(* Properties                                                              *)
(***************************************************************************)
\* When a step has read its sensors, each of them holds exactly the frame of
\* that step, complete and of the current run of VTD: no torn frame, nothing
\* left over from before a restart, nothing of the next frame.  The exception is
\* the first step after a reset, for a sensor whose frame 0 of the run before
\* the reset had not been read: it ends the restart as the new frame 0 would.
FrameAligned ==
    phase = "sensors" /\ todo = <<>> =>
        \A c \in Active : (c \in early => step > 1) =>
            /\ {m.frame : m \in codec[c].data} = {step}
            /\ {m.run : m \in codec[c].data} = {vtd.run}
            /\ {m.part : m \in codec[c].data} = IF c = Osi THEN {1} ELSE {1, 2}

\* Once connect() has returned the vehicles have distinct ids, and there are at
\* least as many as the scenario has agents: exactly the agents, unless one comes
\* from a Set command of another client, which may stand for an agent or come
\* after the number is reached.  When the first attempt succeeds, the vehicles
\* that the configuration names are among them; later ones do not check that.
VehiclesCounted ==
    phase \in {"ready", "process", "sensors"} =>
        /\ IsInjective(vehicles) /\ Len(vehicles) >= Cardinality(Agents)
        /\ Range(vehicles) \subseteq Agents => Range(vehicles) = Agents
        /\ attempt = 1 => osiOwner \subseteq Range(vehicles)

\* connect() returns, connected or not, even if VTD never answers: its waits
\* and its attempts are bounded.
ConnectReturns == phase = "connect" ~> phase # "connect"

=============================================================================
