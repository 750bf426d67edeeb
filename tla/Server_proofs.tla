---------------------------- MODULE Server_proofs ----------------------------
(***************************************************************************)
(* Theorems about Server, for every number of HTTP threads, every set of   *)
(* endpoints and every bound.                                              *)
(***************************************************************************)
EXTENDS Server, TLAPS

-----------------------------------------------------------------------------
(* Type correctness.                                                       *)

Client == [pc : {"idle", "sent", "inside"}, e : Endpoints \cup {Unknown}]

\* A step of HTTP thread t.
Works(t) == Serve(t) \/ \E e \in Endpoints \cup {Unknown} : Request(t, e)

\* What no HTTP thread changes.
OthersSame ==
  UNCHANGED <<config, listening, file, streaming, routes, machine, buffer, snapshot, stream>>

\* The steps of an HTTP thread change nothing but what this thread is doing, and
\* what requests have set in the models.
LEMMA ThreadsApart ==
  ASSUME TypeOK, NEW t \in Threads, Works(t)
  PROVE  OthersSame /\ posts' \in Nat /\ posts <= posts'
<1>1. OthersSame
  BY DEF Works, Serve, Request, NotFound, Enter, Answer, OthersSame
<1>2. CASE Answer(t)
  <2>1. posts' = posts \/ posts' = posts + 1
    BY <1>2 DEF Answer
  <2>. QED  BY <1>1, <2>1 DEF TypeOK
<1>3. CASE UNCHANGED posts
  BY <1>1, <1>3 DEF TypeOK
<1>. QED  BY <1>2, <1>3 DEF Works, Serve, Request, NotFound, Enter

\* So they keep the types.
LEMMA ThreadType ==
  ASSUME TypeOK, NEW t \in Threads, Works(t)
  PROVE  TypeOK'
<1>1. client' \in [Threads -> Client]
  <2>1. client[t] \in Client /\ client \in [Threads -> Client] /\ Idle \in Client
    BY DEF TypeOK, Client, Idle
  <2>2. \A e \in Endpoints \cup {Unknown} : Request(t, e) => client' \in [Threads -> Client]
    BY <2>1 DEF Request, Client
  <2>3. NotFound(t) \/ Answer(t) => client' \in [Threads -> Client]
    BY <2>1 DEF NotFound, Answer
  <2>4. Enter(t) => client' \in [Threads -> Client]
    BY <2>1 DEF Enter, Client
  <2>. QED  BY <2>2, <2>3, <2>4 DEF Works, Serve
<1>. QED  BY <1>1, ThreadsApart DEF OthersSame, TypeOK, Client, config, machine

\* What a response describes now.
LEMMA NowType == TypeOK => Now \in Response /\ Now.step = world /\ Now.posts = posts
BY DEF TypeOK, Now, Response

\* The steps of the machine's thread, those first that come before the first step.
LEMMA ConnectType ==
  ASSUME TypeOK,
         Start \/ InitEnd \/ Progress \/ \E e \in Endpoints : Register(e)
  PROVE  TypeOK'
<1>1. CASE Start
  BY <1>1 DEF TypeOK, Start, config
<1>2. CASE InitEnd
  BY <1>2 DEF TypeOK, InitEnd, config, RefreshThen
<1>3. CASE Progress
  BY <1>3 DEF TypeOK, Progress, config, RefreshThen
<1>4. ASSUME NEW e \in Endpoints, Register(e) PROVE TypeOK'
  BY <1>4, NowType DEF TypeOK, Register, config, machine
<1>. QED  BY <1>1, <1>2, <1>3, <1>4

LEMMA RefreshType ==
  ASSUME TypeOK, Refresh \/ WriteRecord
  PROVE  TypeOK'
<1>1. CASE AcquireBuffer
  BY <1>1 DEF TypeOK, AcquireBuffer, config, Recorded
<1>2. ASSUME NEW e \in Buffered, RefreshRoute(e) PROVE TypeOK'
  BY <1>2, NowType DEF TypeOK, RefreshRoute, config
<1>3. CASE RefreshThrows
  BY <1>3 DEF TypeOK, RefreshThrows, config
<1>4. CASE ReleaseBuffer
  <2>1. Never \in Response
    BY DEF Never, Response
  <2>2. record' \in [Recorded -> Response]
    BY <1>4, <2>1 DEF TypeOK, ReleaseBuffer
  <2>. QED  BY <1>4, <2>2 DEF TypeOK, ReleaseBuffer, config, Recorded
<1>5. CASE WriteStream
  BY <1>5 DEF TypeOK, WriteStream, config
<1>6. ASSUME NEW e \in Dynamic, StreamRoute(e) PROVE TypeOK'
  BY <1>6, NowType DEF TypeOK, StreamRoute, config
<1>7. CASE StreamThrows
  BY <1>7 DEF TypeOK, StreamThrows, config
<1>. QED  BY <1>1, <1>2, <1>3, <1>4, <1>5, <1>6, <1>7 DEF Refresh, WriteRecord

LEMMA StepType ==
  ASSUME TypeOK,
         StepBegin \/ ProcessBegin \/ ProcessEnd \/ StepEnd \/ Pause \/ Resume \/ Stop
  PROVE  TypeOK'
<1>1. CASE StepBegin
  BY <1>1 DEF TypeOK, StepBegin, config, RefreshThen
<1>2. CASE ProcessBegin \/ ProcessEnd \/ StepEnd
  BY <1>2 DEF TypeOK, ProcessBegin, ProcessEnd, StepEnd, config
<1>3. CASE Pause \/ Resume \/ Stop
  BY <1>3 DEF TypeOK, Pause, Resume, Stop, StopServer, config
<1>. QED  BY <1>1, <1>2, <1>3

\* Every variable keeps its type, whatever handlers throw and requests ask for.
THEOREM TypeCorrect == Spec => []TypeOK
<1>1. Init => TypeOK
  <2>. SUFFICES ASSUME Init PROVE TypeOK
    OBVIOUS
  <2>1. Idle \in Client /\ client \in [Threads -> Client]
    BY DEF Init, Idle, Client
  <2>2. stream \in Seq([Recorded -> Response])
    BY DEF Init
  <2>3. /\ buffer \in [Buffered -> Response] /\ record \in [Recorded -> Response]
        /\ snapshot \in Nat
    BY DEF Init, Never, Response
  <2>. QED  BY <2>1, <2>2, <2>3 DEF Init, TypeOK, Client
<1>2. TypeOK /\ [Next]_vars => TypeOK'
  <2>. SUFFICES ASSUME TypeOK, [Next]_vars PROVE TypeOK'
    OBVIOUS
  <2>1. CASE Run
    BY <2>1, ConnectType, RefreshType, StepType DEF Run
  <2>2. CASE UNCHANGED vars
    BY <2>2 DEF TypeOK, vars, config, machine
  <2>3. ASSUME NEW t \in Threads, Works(t) PROVE TypeOK'
    BY <2>3, ThreadType
  <2>. QED  BY <2>1, <2>2, <2>3 DEF Next, Terminated, Works
<1>. QED  BY <1>1, <1>2, PTL DEF Spec

-----------------------------------------------------------------------------
(* The invariant: what the machine's thread is doing says how far the buffer *)
(* and the stream are.                                                     *)

\* Where a refresh may return to, and what it may have refreshed.
Placed ==
  /\ back = "connect" =>
       /\ at \in {"connect", "acquire", "refresh", "stop", "stopped"}
       /\ ~streaming
  /\ back = "start" => at \notin {"connect", "simulate", "process", "end"}
  /\ back = "simulate" => at \notin {"connect", "start"}
  /\ back # "connect" => routes = Endpoints
  /\ at = "stream" => streaming
  /\ at = "stop" => failed
  /\ failed => at \in {"stop", "stopped"}
  /\ listen => listening \/ at = "stopped"

\* A thread is inside a handler that the muxer knows, and not inside that of a
\* buffered endpoint while the buffer is refreshed.
ReadersPlaced ==
  /\ \A t \in Threads : client[t].pc = "inside" => client[t].e \in routes
  /\ at = "refresh" => Readers(Buffered) = {}

\* A buffered endpoint that the muxer knows has a response.
Filled ==
  /\ world > 0
  /\ \A e \in routes \cap Buffered : buffer[e].step > 0

\* A refresh has done some of the routes; when there is none, all responses are
\* of the last one, after which there was one step at most.  A record that is
\* being made is of the same step.
Fresh ==
  back # "connect" /\ ~failed /\ (listen \/ streaming) =>
    /\ at = "refresh" =>
         /\ snapshot = world
         /\ \A e \in Buffered \ todo : buffer[e].step = snapshot
    /\ at # "refresh" /\ ~(at = "acquire" /\ back = "start") =>
         \A e \in Buffered : buffer[e].step = snapshot
    /\ at = "stream" => \A e \in Recorded \ todo : record[e].step = snapshot
    /\ at \in {"stream", "simulate", "process", "start"} => world = snapshot
    /\ ~(at = "acquire" /\ back = "start") => world <= snapshot + 1

\* The last record is of the step that was made last, or of the one before it if
\* the refresh of this step has still to come; and whatever has been refreshed or
\* recorded since then is not older than anything in it.
Latest ==
  \A e \in Recorded :
    LET last == stream[Len(stream)][e] IN
      /\ at \in {"start", "simulate", "process"} => world = last.step
      /\ at \in {"end", "pause", "paused", "begin", "acquire", "refresh", "stream"} =>
           world = last.step + 1
      /\ last.posts <= posts
      /\ at = "refresh" => \A f \in Buffered \ todo : last.posts <= buffer[f].posts
      /\ at = "stream" => \A f \in Recorded \ todo : last.posts <= record[f].posts

\* No response is newer than the models are.
RecordPast ==
  /\ \A e \in Buffered : buffer[e].posts <= posts
  /\ \A e \in Recorded : record[e].posts <= posts

\* Records are written only to an open file, the first at the end of Connect.
Streamed ==
  /\ back = "connect" => stream = <<>>
  /\ back = "start" /\ at \in {"acquire", "refresh", "stream"} => stream = <<>>
  /\ ~streaming => stream = <<>>
  /\ file = "open" /\ stream # <<>> => Latest

ServerInv == TypeOK /\ Placed /\ ReadersPlaced /\ Filled /\ Fresh /\ RecordPast /\ Streamed /\ StreamComplete

-----------------------------------------------------------------------------
(* Each part of the invariant, over all steps.  The steps of the machine are *)
(* grouped by what they have in common; those of the threads change none of *)
(* the variables that the parts are about, but for ReadersPlaced.           *)

LEMMA PlacedKept == ASSUME ServerInv, [Next]_vars PROVE Placed'
<1>. USE DEF ServerInv, TypeOK, Placed
<1>1. ASSUME NEW t \in Threads, Works(t) PROVE Placed'
  BY <1>1, ThreadsApart DEF OthersSame, config, machine
<1>2. CASE Refresh \/ WriteRecord
  BY <1>2 DEF Refresh, AcquireBuffer, RefreshRoute, RefreshThrows, ReleaseBuffer, WriteRecord,
            StreamRoute, StreamThrows, WriteStream, config
<1>3. CASE Progress \/ InitEnd \/ StepBegin
  BY <1>3 DEF Progress, InitEnd, StepBegin, RefreshThen, config
<1>4. ASSUME NEW e \in Endpoints, Register(e) PROVE Placed'
  BY <1>4 DEF Register, config, machine
<1>5. CASE Start \/ ProcessBegin \/ ProcessEnd \/ StepEnd
  BY <1>5 DEF Start, ProcessBegin, ProcessEnd, StepEnd, config
<1>6. CASE Pause \/ Resume \/ Stop
  BY <1>6 DEF Pause, Resume, Stop, StopServer, config
<1>7. CASE UNCHANGED vars
  BY <1>7 DEF vars, config, machine
<1>. QED  BY <1>1, <1>2, <1>3, <1>4, <1>5, <1>6, <1>7 DEF Next, Run, Terminated, Works

\* The lock of the buffer: nobody is inside when a refresh begins, and nobody
\* enters while it lasts.
LEMMA ReadersPlacedKept == ASSUME ServerInv, [Next]_vars PROVE ReadersPlaced'
<1>. USE DEF ServerInv, TypeOK, ReadersPlaced, Readers
<1>1. ASSUME NEW t \in Threads, Works(t) PROVE ReadersPlaced'
  <2>1. CASE \E e \in Endpoints \cup {Unknown} : Request(t, e)
    BY <2>1 DEF Request, machine
  <2>2. CASE NotFound(t) \/ Answer(t)
    <3>1. \A u \in Threads : client'[u] = client[u] \/ client'[u].pc = "idle"
      BY <2>2 DEF NotFound, Answer, Idle
    <3>. QED  BY <2>2, <3>1 DEF NotFound, Answer, machine
  <2>3. CASE Enter(t)
    BY <2>3 DEF Enter, BufferLocked, machine
  <2>. QED  BY <1>1, <2>1, <2>2, <2>3 DEF Works, Serve
<1>2. CASE Refresh \/ WriteRecord
  BY <1>2 DEF Refresh, AcquireBuffer, RefreshRoute, RefreshThrows, ReleaseBuffer, WriteRecord,
            StreamRoute, StreamThrows, WriteStream, Placed
<1>3. CASE Progress \/ InitEnd \/ StepBegin
  BY <1>3 DEF Progress, InitEnd, StepBegin, RefreshThen
<1>4. ASSUME NEW e \in Endpoints, Register(e) PROVE ReadersPlaced'
  BY <1>4 DEF Register, machine
<1>5. CASE Start \/ ProcessBegin \/ ProcessEnd \/ StepEnd \/ Pause \/ Resume \/ Stop
  BY <1>5 DEF Start, ProcessBegin, ProcessEnd, StepEnd, Pause, Resume, Stop
<1>6. CASE UNCHANGED vars
  BY <1>6 DEF vars, machine
<1>. QED  BY <1>1, <1>2, <1>3, <1>4, <1>5, <1>6 DEF Next, Run, Terminated, Works

LEMMA FilledKept == ASSUME ServerInv, [Next]_vars PROVE Filled'
<1>. USE NowType DEF ServerInv, TypeOK, Filled
<1>1. ASSUME NEW t \in Threads, Works(t) PROVE Filled'
  BY <1>1, ThreadsApart DEF OthersSame, machine
<1>2. CASE Refresh \/ WriteRecord
  BY <1>2 DEF Refresh, AcquireBuffer, RefreshRoute, RefreshThrows, ReleaseBuffer, WriteRecord,
            StreamRoute, StreamThrows, WriteStream
<1>3. ASSUME NEW e \in Endpoints, Register(e) PROVE Filled'
  BY <1>3 DEF Register, machine
<1>4. CASE Progress \/ InitEnd \/ StepBegin
  BY <1>4 DEF Progress, InitEnd, StepBegin
<1>5. CASE Start \/ ProcessBegin \/ ProcessEnd \/ StepEnd \/ Pause \/ Resume \/ Stop
  BY <1>5 DEF Start, ProcessBegin, ProcessEnd, StepEnd, Pause, Resume, Stop
<1>6. CASE UNCHANGED vars
  BY <1>6 DEF vars, machine
<1>. QED  BY <1>1, <1>2, <1>3, <1>4, <1>5, <1>6 DEF Next, Run, Terminated, Works

\* A refresh goes over all buffered endpoints, as all of them are registered when
\* the first one that matters begins.
LEMMA FreshKept == ASSUME ServerInv, [Next]_vars PROVE Fresh'
<1>. USE DEF ServerInv, TypeOK, Fresh, Placed
<1>1. ASSUME NEW t \in Threads, Works(t) PROVE Fresh'
  BY <1>1, ThreadsApart DEF OthersSame, machine, config
<1>2. CASE AcquireBuffer
  <2>1. back # "connect" => todo' = Buffered
    BY <1>2 DEF AcquireBuffer, Endpoints
  <2>. QED  BY <1>2, <2>1 DEF AcquireBuffer, config
<1>3. ASSUME NEW e \in Buffered, RefreshRoute(e) PROVE Fresh'
  BY <1>3, NowType DEF RefreshRoute, config
<1>4. CASE RefreshThrows \/ StreamThrows \/ WriteStream
  BY <1>4 DEF RefreshThrows, StreamThrows, WriteStream, config
<1>10. CASE ReleaseBuffer
  BY <1>10 DEF ReleaseBuffer, config, Recorded
<1>11. ASSUME NEW e \in Dynamic, StreamRoute(e) PROVE Fresh'
  BY <1>11, NowType DEF StreamRoute, config
<1>5. CASE Progress \/ InitEnd \/ StepBegin
  BY <1>5 DEF Progress, InitEnd, StepBegin, RefreshThen, Served, config
<1>6. ASSUME NEW e \in Endpoints, Register(e) PROVE Fresh'
  BY <1>6 DEF Register, config, machine
<1>7. CASE Start \/ ProcessBegin \/ ProcessEnd \/ StepEnd
  BY <1>7 DEF Start, ProcessBegin, ProcessEnd, StepEnd, config
<1>8. CASE Pause \/ Resume \/ Stop
  BY <1>8 DEF Pause, Resume, Stop, config
<1>9. CASE UNCHANGED vars
  BY <1>9 DEF vars, config, machine
<1>. QED  BY <1>1, <1>2, <1>3, <1>4, <1>5, <1>6, <1>7, <1>8, <1>9, <1>10, <1>11
          DEF Next, Run, Refresh, WriteRecord, Terminated, Works

LEMMA RecordPastKept == ASSUME ServerInv, [Next]_vars PROVE RecordPast'
<1>. USE NowType DEF ServerInv, TypeOK, RecordPast
<1>1. ASSUME NEW t \in Threads, Works(t) PROVE RecordPast'
  <2>1. UNCHANGED <<buffer, record>> /\ posts' \in Nat /\ posts <= posts'
    BY <1>1, ThreadsApart DEF OthersSame, machine
  <2>2. /\ \A e \in Buffered : buffer[e].posts \in Nat
        /\ \A e \in Recorded : record[e].posts \in Nat
    BY DEF Response
  <2>. QED  BY <2>1, <2>2
<1>2. CASE Refresh \/ WriteRecord
  <2>1. ASSUME NEW e \in Buffered, RefreshRoute(e) PROVE RecordPast'
    BY <2>1 DEF RefreshRoute
  <2>2. ASSUME NEW e \in Dynamic, StreamRoute(e) PROVE RecordPast'
    BY <2>2 DEF StreamRoute
  <2>3. CASE ReleaseBuffer
    BY <2>3 DEF ReleaseBuffer, Never
  <2>. QED  BY <1>2, <2>1, <2>2, <2>3
            DEF Refresh, AcquireBuffer, RefreshThrows, WriteRecord, StreamThrows, WriteStream
<1>3. ASSUME NEW e \in Endpoints, Register(e) PROVE RecordPast'
  BY <1>3 DEF Register, machine
<1>4. CASE Progress \/ InitEnd \/ StepBegin
  BY <1>4 DEF Progress, InitEnd, StepBegin
<1>5. CASE Start \/ ProcessBegin \/ ProcessEnd \/ StepEnd \/ Pause \/ Resume \/ Stop
  BY <1>5 DEF Start, ProcessBegin, ProcessEnd, StepEnd, Pause, Resume, Stop
<1>6. CASE UNCHANGED vars
  BY <1>6 DEF vars, machine
<1>. QED  BY <1>1, <1>2, <1>3, <1>4, <1>5, <1>6 DEF Next, Run, Terminated, Works

\* When a record is written, all of it is of the step that was made last.
LEMMA RecordCoherent ==
  ASSUME ServerInv, at = "stream", todo = {}
  PROVE  \A e \in Recorded : record[e].step = world
BY DEF ServerInv, TypeOK, Fresh, Placed

LEMMA StreamKept == ASSUME ServerInv, [Next]_vars PROVE (Streamed /\ StreamComplete)'
<1>. USE DEF ServerInv, TypeOK, Placed, Streamed
<1>1. ASSUME WriteStream, file = "open" PROVE (Streamed /\ StreamComplete)'
  <2>1. /\ stream' = Append(stream, record) /\ at' = back /\ todo = {}
        /\ UNCHANGED <<file, streaming, back, world, posts>>
    BY <1>1 DEF WriteStream
  <2>2. /\ stream' # <<>> /\ Len(stream') = Len(stream) + 1
        /\ DOMAIN stream' = 1 .. Len(stream) + 1
        /\ \A i \in 1 .. Len(stream) : stream'[i] = stream[i]
        /\ stream'[Len(stream')] = record
    BY <2>1
  <2>3. \A e \in Recorded : record[e].step = world /\ record[e].posts <= posts
    BY <1>1, <2>1, RecordCoherent DEF WriteStream, RecordPast
  <2>4. stream # <<>> => \A e, f \in Recorded : /\ record[e].step = stream[Len(stream)][e].step + 1
                                                 /\ stream[Len(stream)][f].posts <= record[e].posts
    BY <1>1, <2>1, <2>3 DEF WriteStream, Latest
  <2>5. Streamed'
    BY <1>1, <2>1, <2>2, <2>3 DEF WriteStream, Latest
  <2>6. ASSUME NEW i \in DOMAIN stream', NEW e \in Recorded, NEW f \in Recorded
        PROVE  /\ stream'[i][e].step = stream'[i][f].step
               /\ i # 1 => /\ stream'[i][e].step = stream'[i - 1][e].step + 1
                           /\ stream'[i - 1][f].posts <= stream'[i][e].posts
    <3>1. CASE i = Len(stream')
      <4>1. stream'[i] = record
        BY <2>2, <3>1
      <4>2. ASSUME i # 1
            PROVE  stream'[i - 1] = stream[Len(stream)] /\ stream # <<>>
        <5>1. Len(stream) \in Nat /\ stream \in Seq([Recorded -> Response])
          OBVIOUS
        <5>2. i = Len(stream) + 1 /\ i - 1 \in 1 .. Len(stream) /\ i - 1 = Len(stream)
          BY <2>2, <3>1, <4>2, <5>1
        <5>. QED  BY <2>2, <5>1, <5>2
      <4>. QED  BY <2>3, <2>4, <4>1, <4>2
    <3>2. CASE i \in 1 .. Len(stream)
      <4>1. i \in DOMAIN stream /\ stream'[i] = stream[i]
        BY <2>2, <3>2
      <4>2. ASSUME i # 1 PROVE i - 1 \in 1 .. Len(stream)
        BY <3>2, <4>2
      <4>3. i # 1 => stream'[i - 1] = stream[i - 1]
        BY <2>2, <4>2
      <4>. QED  BY <4>1, <4>3 DEF StreamComplete
    <3>. QED  BY <2>2, <2>6, <3>1, <3>2
  <2>7. StreamComplete'
    <3>1. \A i \in DOMAIN stream' : \A e, f \in Recorded : stream'[i][e].step = stream'[i][f].step
      BY <2>6
    <3>2. ASSUME NEW i \in DOMAIN stream' \ {1}, NEW e \in Recorded, NEW f \in Recorded
          PROVE  /\ stream'[i][e].step = stream'[i - 1][e].step + 1
                 /\ stream'[i - 1][f].posts <= stream'[i][e].posts
      <4>1. i \in DOMAIN stream' /\ i # 1
        OBVIOUS
      <4>. QED  BY <2>6, <4>1
    <3>. QED  BY <3>1, <3>2 DEF StreamComplete
  <2>. QED  BY <2>5, <2>7
<1>2. ASSUME UNCHANGED stream, Streamed' PROVE (Streamed /\ StreamComplete)'
  BY <1>2 DEF StreamComplete
<1>3. ASSUME NEW t \in Threads, Works(t) PROVE UNCHANGED stream /\ Streamed'
  <2>1. OthersSame /\ posts' \in Nat /\ posts <= posts'
    BY <1>3, ThreadsApart
  <2>2. stream # <<>> => stream[Len(stream)] \in [Recorded -> Response]
    OBVIOUS
  <2>3. Latest /\ stream # <<>> => Latest'
    BY <2>1, <2>2 DEF OthersSame, machine, Latest, Response
  <2>. QED  BY <2>1, <2>3 DEF OthersSame, machine
<1>4. ASSUME RefreshThrows \/ StreamThrows \/ (WriteStream /\ file # "open")
      PROVE UNCHANGED stream /\ Streamed'
  BY <1>4 DEF RefreshThrows, StreamThrows, WriteStream, Latest
<1>10. ASSUME AcquireBuffer PROVE UNCHANGED stream /\ Streamed'
  <2>1. back # "connect" => todo' = Buffered
    BY <1>10 DEF AcquireBuffer, Endpoints
  <2>2. stream # <<>> => back # "connect"
    OBVIOUS
  <2>. QED  BY <1>10, <2>1, <2>2 DEF AcquireBuffer, Latest
<1>11. ASSUME NEW e \in Buffered, RefreshRoute(e) PROVE UNCHANGED stream /\ Streamed'
  BY <1>11, NowType DEF RefreshRoute, Latest
<1>12. ASSUME ReleaseBuffer PROVE UNCHANGED stream /\ Streamed'
  BY <1>12 DEF ReleaseBuffer, Latest, Recorded
<1>13. ASSUME NEW e \in Dynamic, StreamRoute(e) PROVE UNCHANGED stream /\ Streamed'
  BY <1>13, NowType DEF StreamRoute, Latest
<1>5. ASSUME Progress \/ InitEnd \/ StepBegin PROVE UNCHANGED stream /\ Streamed'
  BY <1>5 DEF Progress, InitEnd, StepBegin, RefreshThen, Served, Latest
<1>6. ASSUME NEW e \in Endpoints, Register(e) PROVE UNCHANGED stream /\ Streamed'
  BY <1>6 DEF Register, machine, Latest
<1>7. ASSUME Start \/ ProcessBegin \/ ProcessEnd \/ StepEnd PROVE UNCHANGED stream /\ Streamed'
  BY <1>7 DEF Start, ProcessBegin, ProcessEnd, StepEnd, Latest
<1>8. ASSUME Pause \/ Resume \/ Stop PROVE UNCHANGED stream /\ Streamed'
  BY <1>8 DEF Pause, Resume, Stop, StopServer, Latest
<1>9. ASSUME UNCHANGED vars PROVE UNCHANGED stream /\ Streamed'
  BY <1>9 DEF vars, machine, Latest
<1>. QED  BY <1>1, <1>2, <1>3, <1>4, <1>5, <1>6, <1>7, <1>8, <1>9, <1>10, <1>11, <1>12, <1>13
          DEF Next, Run, Refresh, WriteRecord, Terminated, Works

LEMMA ServerInvariant == Spec => []ServerInv
<1>1. Init => Placed /\ ReadersPlaced /\ Filled /\ Fresh /\ RecordPast /\ Streamed /\ StreamComplete
  BY DEF Init, Placed, ReadersPlaced, Readers, Idle, Filled, Never, Fresh, RecordPast, Streamed,
         StreamComplete
<1>2. TypeOK' /\ ServerInv /\ [Next]_vars => ServerInv'
  BY PlacedKept, ReadersPlacedKept, FilledKept, FreshKept, RecordPastKept, StreamKept DEF ServerInv
<1>3. Init /\ TypeOK => ServerInv
  BY <1>1 DEF ServerInv
<1>. QED  BY <1>2, <1>3, TypeCorrect, PTL DEF Spec

-----------------------------------------------------------------------------
(* The theorems.                                                           *)

\* Whoever reads buffered endpoints while the simulation runs finds the responses
\* of one refresh, at most one step old: BufferRegistrar's promise of coherence.
THEOREM BufferedSnapshotHolds == Spec => []BufferedSnapshot
<1>1. ServerInv => BufferedSnapshot
  BY DEF ServerInv, BufferedSnapshot, Running, ReadersPlaced, Fresh, Placed
<1>. QED  BY <1>1, ServerInvariant, PTL

\* No request is answered from a buffered endpoint whose handler has never run.
THEOREM BufferedFilledHolds == Spec => []BufferedFilled
<1>1. ServerInv => BufferedFilled
  <2>. SUFFICES ASSUME ServerInv, NEW t \in Readers(Buffered) PROVE buffer[client[t].e] # Never
    BY DEF BufferedFilled
  <2>1. client[t].e \in routes \cap Buffered
    BY DEF ServerInv, ReadersPlaced, Readers
  <2>. QED  BY <2>1 DEF ServerInv, Filled, Never
<1>. QED  BY <1>1, ServerInvariant, PTL

\* The data stream has one record for each step, from the end of Connect until its
\* file is closed; each record is of one step, and what requests set in the models
\* meanwhile is never missing from a record after one that has it.
THEOREM StreamCompleteHolds == Spec => []StreamComplete
<1>1. ServerInv => StreamComplete
  BY DEF ServerInv
<1>. QED  BY <1>1, ServerInvariant, PTL
=============================================================================
