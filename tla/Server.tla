------------------------------- MODULE Server -------------------------------
(***************************************************************************)
(* The web server of cloe-engine: HTTP threads answer requests while the    *)
(* thread of the simulation machine registers endpoints, processes models,  *)
(* refreshes the buffer of the buffered endpoints and streams what the      *)
(* endpoints answer to a file.  Two locks keep them apart: the one of the   *)
(* buffer, and the one that the states take with Server::lock for the       *)
(* dynamic endpoints.  The guard that lock() returns unlocks nothing: the   *)
(* unique_lock is a local variable of lock() and is released when it        *)
(* returns, so that a state waits for the readers and then goes on unlocked.*)
(* Models are two counters: world, which a step of the machine increments,  *)
(* and posts, which requests increment that set something in a model, at any *)
(* time and on their own threads.                                           *)
(***************************************************************************)
EXTENDS Naturals, Sequences

CONSTANTS
  Threads,   \* the HTTP threads
  Dynamic,   \* endpoints of the LockedRegistrar that answer without looking at the request
  Settings,  \* those that read it, and set what it says in a model (FromConf)
  Buffered,  \* endpoints of the BufferRegistrar
  Unknown,   \* a route that nothing is registered for
  MaxWorld,  \* bound: how often the machine changes the models
  MaxPosts   \* bound: how often requests do

ASSUME EndpointsAssumption == /\ Dynamic \cap Buffered = {} /\ Settings \cap (Dynamic \cup Buffered) = {}
                              /\ Unknown \notin Dynamic \cup Settings \cup Buffered
ASSUME BoundsAssumption    == MaxWorld \in Nat /\ MaxPosts \in Nat

Locked    == Dynamic \cup Settings
Endpoints == Locked \cup Buffered
Recorded  == Dynamic \cup Buffered  \* RequestStub answers no question of the others
Response  == [step : Nat, posts : Nat]
Never     == [step |-> 0, posts |-> 0]  \* the world before the first change is 1

VARIABLES
  listen,     \* config.server.listen
  listening,  \* Server::is_listening
  file,       \* the serializer of the data stream
  streaming,  \* is_streaming_
  routes,     \* the endpoints that the muxer knows
  at,         \* what the machine's thread is doing
  back,       \* what it does after the refresh
  todo,       \* the routes that the refresh has still to do
  failed,     \* a handler threw during a refresh
  record,     \* the record that is being made for the stream
  world,      \* what the machine has done to the models
  posts,      \* what requests have done to them
  buffer,     \* the models that each buffered response describes
  snapshot,   \* the world at the last refresh
  stream,     \* the records written to the file
  client      \* what each HTTP thread is doing

config  == <<listen>>
machine == <<at, back, todo, failed, record, world>>
vars    == <<config, listening, file, streaming, routes, machine, posts, buffer, snapshot, stream, client>>

Idle == [pc |-> "idle", e |-> Unknown]
Now  == [step |-> world, posts |-> posts]

Readers(endpoints) == {t \in Threads : client[t].pc = "inside" /\ client[t].e \in endpoints}

Init ==
  /\ listen \in BOOLEAN /\ listening = listen
  /\ file \in {"none", "open"} /\ streaming = FALSE
  /\ routes = {} /\ buffer = [e \in Buffered |-> Never] /\ snapshot = 0
  /\ at = "connect" /\ back = "connect" /\ todo = {} /\ failed = FALSE
  /\ record = [e \in Recorded |-> Never] /\ world = 1 /\ posts = 0
  /\ stream = <<>>
  /\ client = [t \in Threads |-> Idle]

-----------------------------------------------------------------------------
(* HTTP threads.                                                           *)

Request(t, e) ==
  /\ listening /\ client[t].pc = "idle"
  /\ client' = [client EXCEPT ![t] = [pc |-> "sent", e |-> e]]
  /\ UNCHANGED <<config, listening, file, streaming, routes, machine, posts, buffer, snapshot, stream>>

\* The default of the muxer answers what no route matches.
NotFound(t) ==
  /\ client[t].pc = "sent" /\ client[t].e \notin routes
  /\ client' = [client EXCEPT ![t] = Idle]
  /\ UNCHANGED <<config, listening, file, streaming, routes, machine, posts, buffer, snapshot, stream>>

\* The buffer's lock is held by the machine while it refreshes.
BufferLocked == at = "refresh"

\* Mutant: the handler of a buffered endpoint does not lock ("technically it's not
\* necessary").
EnterUnlocked(t) ==
  /\ client[t].pc = "sent" /\ client[t].e \in routes
  /\ client' = [client EXCEPT ![t].pc = "inside"]
  /\ UNCHANGED <<config, listening, file, streaming, routes, machine, posts, buffer, snapshot, stream>>

\* The handler takes the read lock of its registrar.
Enter(t) ==
  /\ client[t].pc = "sent" /\ client[t].e \in routes
  /\ client[t].e \in Buffered => ~BufferLocked
  /\ client' = [client EXCEPT ![t].pc = "inside"]
  /\ UNCHANGED <<config, listening, file, streaming, routes, machine, posts, buffer, snapshot, stream>>

\* A handler that throws is answered too, with an error.  One that sets something in
\* a model does it whatever the machine is doing with the model.
Answer(t) ==
  /\ client[t].pc = "inside"
  /\ client' = [client EXCEPT ![t] = Idle]
  /\ posts' \in {posts} \cup (IF client[t].e \in Settings /\ posts < MaxPosts THEN {posts + 1} ELSE {})
  /\ UNCHANGED <<config, listening, file, streaming, routes, machine, buffer, snapshot, stream>>

-----------------------------------------------------------------------------
(* The thread of the machine.                                              *)

\* Mutant: a new buffered endpoint has no response until the next refresh.
RegisterUnfilled(e) ==
  /\ at = "connect" /\ e \notin routes
  /\ routes' = routes \cup {e}
  /\ UNCHANGED <<config, listening, file, streaming, machine, posts, buffer, snapshot, stream,
                 client>>

\* The response of a buffered endpoint is made before the server knows the route.
Register(e) ==
  /\ at = "connect" /\ e \notin routes
  /\ routes' = routes \cup {e}
  /\ buffer' = IF e \in Buffered THEN [buffer EXCEPT ![e] = Now] ELSE buffer
  /\ UNCHANGED <<config, listening, file, streaming, machine, posts, snapshot, stream, client>>

\* Mutant: nobody reads the buffer when nothing is streamed.
OnlyStreamed(streams) == streams

\* Whether the buffer is read, streams being the new value of is_streaming_.
Served(streams) == listening \/ streams

\* refresh_buffer does nothing when nobody reads.
RefreshThen(next, streams) ==
  /\ at' = IF Served(streams) THEN "acquire" ELSE next
  /\ back' = next

\* update_progress in Connect, after something was set up.
Progress ==
  /\ at = "connect" /\ world < MaxWorld
  /\ world' = world + 1
  /\ RefreshThen("connect", streaming)
  /\ UNCHANGED <<config, listening, file, streaming, routes, todo, failed, record, posts, buffer,
                 snapshot, stream, client>>

\* refresh_buffer_start_stream, at the end of Connect.
InitEnd ==
  /\ at = "connect" /\ routes = Endpoints
  /\ streaming' = (file # "none")
  /\ RefreshThen("start", streaming')
  /\ UNCHANGED <<config, listening, file, routes, todo, failed, record, world, posts, buffer,
                 snapshot, stream, client>>

\* Mutant: the refresh is to go over all routes of the server.
AcquireAll ==
  /\ at = "acquire" /\ Readers(Buffered) = {}
  /\ at' = "refresh" /\ todo' = routes /\ snapshot' = world
  /\ UNCHANGED <<config, listening, file, streaming, routes, back, failed, record, world, posts,
                 buffer, stream, client>>

\* std::unique_lock on the lock of the buffer.
AcquireBuffer ==
  /\ at = "acquire" /\ Readers(Buffered) = {}
  /\ at' = "refresh" /\ todo' = routes \cap Buffered /\ snapshot' = world
  /\ UNCHANGED <<config, listening, file, streaming, routes, back, failed, record, world, posts,
                 buffer, stream, client>>

RefreshRoute(e) ==
  /\ at = "refresh" /\ e \in todo
  /\ todo' = todo \ {e} /\ buffer' = [buffer EXCEPT ![e] = Now]
  /\ UNCHANGED <<config, listening, file, streaming, routes, at, back, failed, record, world, posts,
                 snapshot, stream, client>>

\* A handler throws through the refresh, which unlocks, and through the state.
RefreshThrows ==
  /\ at = "refresh" /\ todo # {}
  /\ at' = "stop" /\ failed' = TRUE /\ todo' = {}
  /\ UNCHANGED <<config, listening, file, streaming, routes, back, world, posts, record, buffer,
                 snapshot, stream, client>>

\* Mutant: the lock is given back by the next refresh only, when it is taken again.
KeepBuffer ==
  /\ at = "refresh" /\ todo = {}
  /\ todo' = Buffered
  /\ UNCHANGED <<config, listening, file, streaming, routes, at, back, failed, record, world, posts,
                 buffer, snapshot, stream, client>>

\* When the refresh is streamed, the record begins with the buffered responses.
ReleaseBuffer ==
  /\ at = "refresh" /\ todo = {}
  /\ at' = IF streaming THEN "stream" ELSE back
  /\ todo' = IF streaming THEN Dynamic ELSE {}
  /\ record' = IF streaming THEN [e \in Recorded |-> IF e \in Buffered THEN buffer[e] ELSE Never]
               ELSE record
  /\ UNCHANGED <<config, listening, file, streaming, routes, back, failed, world, posts, buffer,
                 snapshot, stream, client>>

\* endpoints_to_json calls the handlers of the dynamic endpoints, which read the
\* models; those that ask RequestStub anything are left out, as are responses
\* that are errors.
StreamRoute(e) ==
  /\ at = "stream" /\ e \in todo
  /\ todo' = todo \ {e} /\ record' = [record EXCEPT ![e] = Now]
  /\ UNCHANGED <<config, listening, file, streaming, routes, at, back, failed, world, posts, buffer,
                 snapshot, stream, client>>

\* What a handler throws otherwise goes through the state: no record is written.
StreamThrows ==
  /\ at = "stream" /\ todo # {}
  /\ at' = "stop" /\ failed' = TRUE /\ todo' = {}
  /\ UNCHANGED <<config, listening, file, streaming, routes, back, record, world, posts, buffer,
                 snapshot, stream, client>>

\* A serializer whose file is closed writes nothing.
WriteStream ==
  /\ at = "stream" /\ todo = {}
  /\ stream' = IF file = "open" THEN Append(stream, record) ELSE stream
  /\ at' = back
  /\ UNCHANGED <<config, listening, file, streaming, routes, back, todo, failed, record, world,
                 posts, buffer, snapshot, client>>

\* Server::lock: wait for the readers of the locked endpoints, and hold nothing.
Lock == Readers(Locked) = {}

Start ==
  /\ at = "start" /\ world < MaxWorld
  /\ world' = world + 1 /\ at' \in {"begin", "pause"}
  /\ UNCHANGED <<config, listening, file, streaming, routes, back, todo, failed, record, posts,
                 buffer, snapshot, stream, client>>

StepBegin ==
  /\ at = "begin"
  /\ RefreshThen("simulate", streaming)
  /\ UNCHANGED <<config, listening, file, streaming, routes, todo, failed, record, world, posts,
                 buffer, snapshot, stream, client>>

\* StepSimulators and StepControllers.
ProcessBegin ==
  /\ at = "simulate" /\ world < MaxWorld /\ Lock
  /\ at' = "process"
  /\ UNCHANGED <<config, listening, file, streaming, routes, back, todo, failed, record, world,
                 posts, buffer, snapshot, stream, client>>

ProcessEnd ==
  /\ at = "process"
  /\ world' = world + 1 /\ at' = "end"
  /\ UNCHANGED <<config, listening, file, streaming, routes, back, todo, failed, record, posts,
                 buffer, snapshot, stream, client>>

StepEnd ==
  /\ at = "end" /\ Lock
  /\ at' \in {"begin", "pause"}
  /\ UNCHANGED <<config, listening, file, streaming, routes, back, todo, failed, record, world,
                 posts, buffer, snapshot, stream, client>>

\* Mutant: Pause refreshes the buffer, too, for its temporary server.
PauseRefreshes ==
  /\ at = "pause"
  /\ listening' = TRUE /\ at' = "acquire" /\ back' = "pause"
  /\ UNCHANGED <<config, file, streaming, routes, todo, failed, record, world, posts, buffer,
                 snapshot, stream, client>>

\* The first visit of Pause starts a temporary server.  Pause refreshes nothing.
Pause ==
  /\ at = "pause"
  /\ listening' = TRUE /\ at' = "paused"
  /\ UNCHANGED <<config, file, streaming, routes, back, todo, failed, record, world, posts, buffer,
                 snapshot, stream, client>>

\* Stopping the server closes the file as well.
StopServer == listening' = FALSE /\ file' = IF file = "open" THEN "closed" ELSE file

Resume ==
  /\ at = "paused" /\ Lock
  /\ IF listen THEN UNCHANGED <<listening, file>> ELSE StopServer
  /\ at' = "begin"
  /\ UNCHANGED <<config, streaming, routes, back, todo, failed, record, world, posts, buffer,
                 snapshot, stream, client>>

\* Any state may be the last but one; the destructor of the server stops it.
Stop ==
  /\ at \in {"connect", "start", "simulate", "end", "paused", "stop"}
  /\ StopServer /\ at' = "stopped"
  /\ UNCHANGED <<config, streaming, routes, back, todo, failed, record, world, posts, buffer,
                 snapshot, stream, client>>

Terminated == at = "stopped" /\ (\A t \in Threads : client[t] = Idle) /\ UNCHANGED vars

Serve(t) == NotFound(t) \/ Enter(t) \/ Answer(t)

Refresh ==
  \/ AcquireBuffer \/ ReleaseBuffer \/ RefreshThrows
  \/ \E e \in Buffered : RefreshRoute(e)

WriteRecord == StreamThrows \/ WriteStream \/ \E e \in Dynamic : StreamRoute(e)

Run ==
  \/ Refresh \/ WriteRecord \/ Progress \/ InitEnd \/ Start
  \/ \E e \in Endpoints : Register(e)
  \/ StepBegin \/ ProcessBegin \/ ProcessEnd \/ StepEnd \/ Pause \/ Resume \/ Stop

Next ==
  \/ \E t \in Threads : Serve(t) \/ \E e \in Endpoints \cup {Unknown} : Request(t, e)
  \/ Run
  \/ Terminated

Spec == Init /\ [][Next]_vars

\* The machine's thread goes on with the refresh it has begun.  Nothing is assumed
\* of the HTTP threads, of which the server may run out, or be stopped.
FairSpec == Spec /\ WF_vars(Refresh)

-----------------------------------------------------------------------------
(* Properties.                                                             *)

\* Every variable has its type.
TypeOK ==
  /\ listen \in BOOLEAN /\ listening \in BOOLEAN /\ streaming \in BOOLEAN /\ failed \in BOOLEAN
  /\ file \in {"none", "open", "closed"}
  /\ routes \subseteq Endpoints /\ todo \subseteq Recorded
  /\ record \in [Recorded -> Response]
  /\ at \in {"connect", "acquire", "refresh", "stream", "start", "simulate", "process", "end", "begin",
             "pause", "paused", "stop", "stopped"}
  /\ back \in {"connect", "start", "simulate"}
  /\ world \in Nat /\ posts \in Nat /\ snapshot \in Nat /\ buffer \in [Buffered -> Response]
  /\ stream \in Seq([Recorded -> Response])
  /\ client \in [Threads -> [pc : {"idle", "sent", "inside"}, e : Endpoints \cup {Unknown}]]

\* Connect has ended, and so has the refresh at its end.
Running == back = "simulate" \/ (back = "start" /\ at # "acquire")

\* Once the simulation runs, whoever reads the buffer finds the responses of one
\* refresh, and none that is older than one step, unless a handler has failed or
\* only a temporary server listens (BufferRegistrar: "one anyway only wants to
\* receive data from different endpoints that is coherent").  Coherent is what the
\* steps did: what a request sets during the refresh is in the later responses only.
BufferedSnapshot ==
  Readers(Buffered) # {} /\ Running /\ ~failed /\ (listen \/ streaming) =>
    (\A e \in Buffered : buffer[e].step = snapshot) /\ world <= snapshot + 1

\* No response is handed out before its handler has run once.
BufferedFilled ==
  \A t \in Readers(Buffered) : buffer[client[t].e] # Never

\* Each record of the data stream is of one step, no step is missing between two
\* records, and nothing in a record is older than what the record before it says:
\* what a request sets in a model may be in a part of one record, and is in all of
\* the next.
StreamComplete ==
  /\ \A i \in DOMAIN stream : \A e, f \in Recorded : stream[i][e].step = stream[i][f].step
  /\ \A i \in DOMAIN stream \ {1} : \A e, f \in Recorded :
       /\ stream[i][e].step = stream[i - 1][e].step + 1
       /\ stream[i - 1][f].posts <= stream[i][e].posts

\* The lock of the buffer is given back, whatever handlers do during the refresh:
\* requests that wait for it, and the next refresh, do not wait forever.
BufferReleased == BufferLocked ~> ~BufferLocked

=============================================================================
