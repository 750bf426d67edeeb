-------------------------- MODULE VtdBinding_proofs --------------------------
(***************************************************************************)
(* Theorems about VtdBinding, for all agents, whatever other clients of    *)
(* VTD send, and however often connect() is tried.                         *)
(***************************************************************************)
EXTENDS VtdBinding, FiniteSetTheorems, SequenceTheorems, TLAPS

USE DEF waiting, known

-----------------------------------------------------------------------------
(* The invariant, in parts.                                                *)

Words == {"RDB", "Scenario", "InitDone", "Run", "Stop", "Restart"}

\* What may be on its way over the SCP stream.
Messages == {<<w>> : w \in Words}
              \cup {<<"Set", p>> : p \in Players}
              \cup {<<"LoadScenario", s>> : s \in Scenarios \cup {NoScenario}}

Typed ==
    /\ phase \in {"idle", "connect", "ready", "process", "sensors", "reset",
                  "stopped", "failed", "aborted", "disconnected"}
    /\ stage \in {"paramserver", "scp", "task_control", "scenario", "agents",
                  "vehicles", "init_done", "operational"}
    /\ tries \in 0 .. WaitTries
    /\ scenario \in Scenarios \cup {NoScenario}
    /\ vehicles \in Seq(Players) /\ scp \in Seq(Messages)

\* VTD names all agents at once, and connect() goes on to wait for the vehicles
\* only then; no attempt forgets them.
Told ==
    /\ phase = "idle" => stage = "paramserver"
    /\ expected \in {{}, Agents}
    /\ phase = "connect" /\ stage \in {"vehicles", "init_done", "operational"} => expected = Agents
    /\ polling => stage \notin {"paramserver", "scp"}

\* The wait for the vehicles is over, in this attempt.
Populated == \/ phase = "connect" /\ stage \in {"init_done", "operational"}
             \/ phase \in {"ready", "process", "sensors", "stopped", "reset"}

Crowded == Populated => Len(vehicles) >= Cardinality(Agents)

\* A configured vehicle is on the list until it has been created, and connect()
\* returns when the list is empty; only a later attempt may then be without it.
Registered ==
    /\ attempt \in Nat /\ (phase # "idle" => attempt >= 1)
    /\ (phase = "idle" => attempt = 0)
    /\ attempt <= 1 /\ phase # "disconnected" => osiOwner \ Range(vehicles) \subseteq unregistered
    /\ phase \in {"ready", "process", "sensors", "stopped", "reset"} => unregistered = {}

VtdInv == Typed /\ Told /\ Crowded /\ Registered /\ IsInjective(vehicles)

-----------------------------------------------------------------------------
(* The parts that most steps leave alone.                                  *)

\* What the constants are.
LEMMA Constants ==
    /\ WaitTries \in Nat /\ 0 \in 0 .. WaitTries /\ WaitTries \in 0 .. WaitTries
    /\ IsFiniteSet(Agents) /\ Cardinality(Agents) \in Nat
    /\ (CHOOSE s \in Scenarios : TRUE) \in Scenarios
<1>1. WaitTries \in Nat /\ IsFiniteSet(Agents) /\ Scenarios # {}
  BY VtdAssumption
<1>2. Cardinality(Agents) \in Nat
  BY <1>1, FS_CardinalityType
<1>. QED  BY <1>1, <1>2

\* The stages of connect(), one after the other.
LEMMA StagesInOrder ==
    /\ StageAfter("task_control") = "scenario"
    /\ StageAfter("scenario") = "agents"
    /\ StageAfter("agents") = "vehicles"
    /\ StageAfter("vehicles") = "init_done"
    /\ StageAfter("init_done") = "operational"
<1>1. /\ Stages[3] = "task_control" /\ Stages[4] = "scenario" /\ Stages[5] = "agents"
      /\ Stages[6] = "vehicles" /\ Stages[7] = "init_done" /\ Stages[8] = "operational"
      /\ DOMAIN Stages = 1 .. 8
  BY DEF Stages
<1>2. \A i, j \in 1 .. 8 : Stages[i] = Stages[j] => i = j
  BY DEF Stages
<1>3. ASSUME NEW n \in 1 .. 8
      PROVE  StageAfter(Stages[n]) = Stages[n + 1]
  <2>. DEFINE m == CHOOSE i \in DOMAIN Stages : Stages[i] = Stages[n]
  <2>1. \E i \in DOMAIN Stages : Stages[i] = Stages[n]
    BY <1>1
  <2>2. m \in DOMAIN Stages /\ Stages[m] = Stages[n]
    BY <2>1
  <2>3. m = n
    BY <2>2, <1>1, <1>2
  <2>. HIDE DEF m
  <2>4. StageAfter(Stages[n]) = Stages[m + 1]
    BY DEF StageAfter, m
  <2>. QED  BY <2>3, <2>4
<1>4. /\ StageAfter(Stages[3]) = Stages[4] /\ StageAfter(Stages[4]) = Stages[5]
      /\ StageAfter(Stages[5]) = Stages[6] /\ StageAfter(Stages[6]) = Stages[7]
      /\ StageAfter(Stages[7]) = Stages[8]
  BY <1>3
<1>. QED  BY <1>1, <1>4

\* The Set messages with which VTD announces the agents.
LEMMA Announced ==
  [i \in DOMAIN SetToSeq(Agents) |-> <<"Set", SetToSeq(Agents)[i]>>] \in Seq(Messages)
<1>. DEFINE n == Cardinality(Agents)
<1>1. n \in Nat /\ \E f : f \in Bijection(1 .. n, Agents)
  BY VtdAssumption, FS_CardinalityType DEF ExistsBijection
<1>2. \E f \in [1 .. n -> Agents] : IsInjective(f)
  BY <1>1 DEF Bijection, Injection, IsInjective
<1>3. SetToSeq(Agents) \in [1 .. n -> Agents]
  BY <1>2 DEF SetToSeq
<1>4. \A p \in Agents : <<"Set", p>> \in Messages
  BY DEF Messages, Players
<1>. HIDE DEF n
<1>. QED  BY <1>1, <1>3, <1>4

\* An answer of VTD extends what is on its way.
LEMMA AnswerType ==
  ASSUME Typed, NEW ms \in Seq(Messages), Answer(ms)
  PROVE  scp' \in Seq(Messages)
BY DEF Answer, Typed

\* A step that keeps stage and vehicles, and what has been learnt of VTD, keeps
\* the invariant, wherever the engine's call goes on, unless it goes back.
LEMMA CallsOn ==
  ASSUME VtdInv, UNCHANGED <<stage, attempt, scenario, expected, vehicles, unregistered, osiOwner>>,
         tries' \in 0 .. WaitTries, scp' \in Seq(Messages),
         polling' => polling \/ stage \notin {"paramserver", "scp"},
         \/ phase' = phase
         \/ phase \notin {"idle", "disconnected"} /\ phase' \in {"failed", "aborted"}
         \/ Populated /\ phase # "connect"
              /\ phase' \in {"ready", "process", "sensors", "stopped", "reset"}
  PROVE  VtdInv'
<1>. USE DEF VtdInv
<1>1. Registered'
  BY DEF Registered, Populated
<1>. QED  BY <1>1 DEF Typed, Told, Crowded, Populated, IsInjective

\* One more element, at the end or in between.
LEMMA AppendMembers ==
  ASSUME NEW S, NEW s \in Seq(S), NEW p \in S
  PROVE  Range(Append(s, p)) = Range(s) \cup {p}
<1>. DEFINE r == Append(s, p)
<1>1. /\ Len(s) \in Nat /\ DOMAIN s = 1 .. Len(s) /\ DOMAIN r = 1 .. Len(s) + 1
      /\ \A i \in 1 .. Len(s) : r[i] = s[i]
      /\ r[Len(s) + 1] = p
  OBVIOUS
<1>. HIDE DEF r
<1>2. \A x \in Range(r) : x \in Range(s) \cup {p}
  BY <1>1 DEF Range
<1>3. \A x \in Range(s) \cup {p} : x \in Range(r)
  BY <1>1 DEF Range
<1>. QED  BY <1>2, <1>3 DEF r

LEMMA Inserted ==
  ASSUME NEW S, NEW s \in Seq(S), NEW p \in S, NEW i \in 1 .. Len(s) + 1
  PROVE  /\ InsertAt(s, i, p) \in Seq(S) /\ Len(InsertAt(s, i, p)) = Len(s) + 1
         /\ \A j \in 1 .. Len(s) + 1 :
              InsertAt(s, i, p)[j] = IF j < i THEN s[j] ELSE IF j = i THEN p ELSE s[j - 1]
<1>. DEFINE a == SubSeq(s, 1, i - 1)
            b == SubSeq(s, i, Len(s))
            c == a \o <<p>>
<1>0. Len(s) \in Nat /\ i \in Int /\ 1 <= i /\ i <= Len(s) + 1 /\ DOMAIN s = 1 .. Len(s)
  OBVIOUS
<1>1. a \in Seq(S) /\ Len(a) = i - 1 /\ \A j \in 1 .. i - 1 : a[j] = s[j]
  BY <1>0, SubSeqProperties
<1>2. b \in Seq(S) /\ Len(b) = Len(s) - i + 1 /\ \A j \in 1 .. Len(s) - i + 1 : b[j] = s[i + j - 1]
  BY <1>0, SubSeqProperties
<1>. HIDE DEF a, b
<1>3. c \in Seq(S) /\ Len(c) = i /\ \A j \in 1 .. i : c[j] = IF j < i THEN s[j] ELSE p
  BY <1>0, <1>1
<1>4. InsertAt(s, i, p) = c \o b
  BY DEF InsertAt, a, b
<1>. HIDE DEF c
<1>5. /\ c \o b \in Seq(S) /\ Len(c \o b) = Len(c) + Len(b)
      /\ \A j \in 1 .. Len(c) + Len(b) : (c \o b)[j] = IF j <= Len(c) THEN c[j] ELSE b[j - Len(c)]
  BY <1>2, <1>3, ConcatProperties
<1>. QED  BY <1>0, <1>2, <1>3, <1>4, <1>5

\* A new vehicle is not one of those there are.
LEMMA AppendDistinct ==
  ASSUME NEW S, NEW s \in Seq(S), NEW p \in S, IsInjective(s), p \notin Range(s)
  PROVE  /\ Append(s, p) \in Seq(S) /\ Len(Append(s, p)) = Len(s) + 1
         /\ IsInjective(Append(s, p))
<1>. DEFINE r == Append(s, p)
<1>1. /\ r \in Seq(S) /\ Len(r) = Len(s) + 1 /\ DOMAIN r = 1 .. Len(s) + 1
      /\ \A i \in 1 .. Len(s) : r[i] = s[i]
      /\ r[Len(s) + 1] = p
  OBVIOUS
<1>2. \A i \in 1 .. Len(s) : s[i] # p
  BY DEF Range
<1>3. Len(s) \in Nat /\ DOMAIN s = 1 .. Len(s)
  OBVIOUS
<1>. HIDE DEF r
<1>4. \A i, j \in DOMAIN r : r[i] = r[j] => i = j
  BY <1>1, <1>2, <1>3 DEF IsInjective
<1>. QED  BY <1>1, <1>4 DEF r, IsInjective

-----------------------------------------------------------------------------
(* connect().                                                              *)

LEMMA InitInv == Init => VtdInv
BY Constants DEF Init, VtdInv, Typed, Told, Crowded, Populated, Registered, IsInjective

\* The clients, before anything has been asked of VTD.
LEMMA ClientsInv ==
  ASSUME VtdInv, Connect \/ ClientFails \/ ClientConnects \/ Configure
  PROVE  VtdInv'
<1>. USE DEF VtdInv, Typed
<1>1. CASE Connect
  <2>1. /\ phase' = "connect" /\ stage = "paramserver"
        /\ UNCHANGED <<stage, tries, scenario, expected, vehicles, scp>>
    BY <1>1 DEF Connect, world, Told
  <2>2. UNCHANGED <<polling, unregistered, osiOwner>> /\ attempt' = 1 /\ attempt \in Nat
        /\ osiOwner \ Range(vehicles) \subseteq unregistered
    BY <1>1 DEF Connect, Registered, Told
  <2>3. Registered'
    BY <2>1, <2>2 DEF Registered
  <2>. QED  BY <2>1, <2>2, <2>3 DEF Told, Crowded, Populated, IsInjective
<1>2. CASE ClientFails
  BY <1>2, Constants, CallsOn DEF ClientFails, world
<1>3. CASE ClientConnects
  BY <1>3, Constants DEF ClientConnects, world, Told, Crowded, Populated, Registered
<1>4. CASE Configure
  <2>1. <<"RDB">> \in Messages
    BY DEF Messages, Words
  <2>2. scp' \in {<<>>, << <<"RDB">> >>}
    BY <1>4 DEF Configure
  <2>3. <<>> \in Seq(Messages) /\ << <<"RDB">> >> \in Seq(Messages)
    BY <2>1
  <2>. QED  BY <1>4, <2>2, <2>3, Constants DEF Configure, Told, Crowded, Populated, Registered
<1>. QED  BY <1>1, <1>2, <1>3, <1>4

\* The end of a wait: it was for all vehicles, or comes after the wait for them.
LEMMA AdvanceInv ==
  ASSUME VtdInv, Advance
  PROVE  VtdInv'
<1>. USE DEF VtdInv
<1>1. scp' \in Seq(Messages)
  <2>1. <<"Scenario">> \in Messages /\ <<"InitDone">> \in Messages /\ <<"Run">> \in Messages
    BY DEF Messages, Words
  <2>2. <<"LoadScenario", scenario>> \in Messages
    BY DEF Messages, Typed
  <2>3. CASE stage = "scenario"
    <3>1. Answer(<< <<"Scenario">> >>) /\ << <<"Scenario">> >> \in Seq(Messages)
      BY <2>1, <2>3 DEF Advance
    <3>. QED  BY <3>1, AnswerType
  <2>4. CASE stage = "agents" /\ ~broken
    <3>. DEFINE ms == << <<"LoadScenario", scenario>> >>
                      sets == [i \in DOMAIN SetToSeq(Agents) |-> <<"Set", SetToSeq(Agents)[i]>>]
    <3>1. ms \in Seq(Messages) /\ sets \in Seq(Messages)
      BY <2>2, Announced
    <3>2. Answer(ms \o sets)
      BY <2>4 DEF Advance
    <3>. HIDE DEF ms, sets
    <3>. QED  BY <3>1, <3>2, AnswerType, ConcatProperties
  <2>5. CASE stage = "vehicles" /\ ~broken
    <3>1. Answer(<< <<"InitDone">>, <<"Run">> >>)
      BY <2>5 DEF Advance
    <3>2. << <<"InitDone">>, <<"Run">> >> \in Seq(Messages)
      BY <2>1
    <3>. QED  BY <3>1, <3>2, AnswerType
  <2>. QED  BY <2>3, <2>4, <2>5 DEF Advance, Typed
<1>2. stage \in {"task_control", "scenario", "agents", "vehicles", "init_done"}
  BY DEF Advance, Arrived, Typed
<1>3. /\ phase = "connect" /\ UNCHANGED <<phase, scenario, expected, vehicles>>
      /\ stage' = StageAfter(stage) /\ tries' = WaitTries
  BY DEF Advance
<1>4. stage = "agents" => expected = Agents
  BY DEF Advance, Arrived, Told
<1>5. stage = "vehicles" => Cardinality(Agents) = Len(vehicles)
  BY <1>3 DEF Advance, Arrived, Told
<1>6. Len(vehicles) \in Nat /\ WaitTries \in Nat
  BY Constants DEF Typed
<1>7. Typed'
  BY <1>1, <1>2, <1>3, <1>6, StagesInOrder DEF Typed
<1>8. Told'
  BY <1>2, <1>3, <1>4, StagesInOrder DEF Told
<1>9. Crowded'
  BY <1>2, <1>3, <1>5, <1>6, StagesInOrder DEF Crowded, Populated
<1>10. Registered'
  BY <1>3 DEF Advance, Registered
<1>. QED  BY <1>3, <1>7, <1>8, <1>9, <1>10 DEF IsInjective

\* A wait that goes on or gives up, and the end of the last one.
LEMMA WaitsInv ==
  ASSUME VtdInv, Checkpoint \/ Poll \/ Tick \/ Connected
  PROVE  VtdInv'
<1>. USE DEF VtdInv, Typed
<1>1. CASE Tick
  BY <1>1, Constants, CallsOn DEF Tick, world
<1>2. CASE Connected
  <2>1. CASE phase' = "failed"
    BY <1>2, <2>1, CallsOn DEF Connected
  <2>2. CASE phase' = "ready"
    <3>1. Registered'
      BY <1>2, <2>2 DEF Connected, Registered
    <3>. QED  BY <1>2, <2>2, <3>1 DEF Connected, Told, Crowded, Populated, IsInjective
  <2>. QED  BY <1>2, <2>1, <2>2 DEF Connected
<1>3. CASE Poll
  BY <1>3, CallsOn DEF Poll, world
<1>4. CASE Checkpoint
  BY <1>4, CallsOn DEF Checkpoint, world
<1>. QED  BY <1>1, <1>2, <1>3, <1>4

-----------------------------------------------------------------------------
(* SCP messages.                                                           *)

\* The next message is one, and so are the others.
LEMMA NextMessage ==
  ASSUME Typed, scp # <<>>
  PROVE  /\ Head(scp) \in Messages /\ Tail(scp) \in Seq(Messages)
         /\ Head(scp)[1] = "Set" => Head(scp)[2] \in Players
         /\ Head(scp)[1] = "LoadScenario" => Head(scp)[2] \in Scenarios \cup {NoScenario}
<1>1. Head(scp) \in Messages /\ Tail(scp) \in Seq(Messages)
  BY DEF Typed
<1>2. \A m \in Messages : /\ m[1] = "Set" => m[2] \in Players
                          /\ m[1] = "LoadScenario" => m[2] \in Scenarios \cup {NoScenario}
  BY DEF Messages, Words
<1>. QED  BY <1>1, <1>2

\* A message is applied: a vehicle may be added, and none is taken away.
LEMMA ReadScpInv ==
  ASSUME VtdInv, ReadScp
  PROVE  VtdInv'
<1>. USE DEF VtdInv
<1>. DEFINE m == Head(scp)
<1>1. /\ scp # <<>> /\ UNCHANGED <<stage, tries>>
      /\ Tail(scp) \in Seq(Messages)
      /\ m[1] = "Set" => m[2] \in Players
      /\ m[1] = "LoadScenario" => m[2] \in Scenarios \cup {NoScenario}
  BY NextMessage DEF ReadScp
<1>2. CASE abort \/ Refused(m)
  <2>1. phase \in {"connect", "process", "reset"} /\ scp' \in Seq(Messages)
    BY <1>1, <1>2 DEF ReadScp, Reading, Typed
  <2>. QED  BY <1>1, <1>2, <2>1, CallsOn DEF ReadScp, Typed
<1>3. CASE ~abort /\ ~Refused(m)
  <2>1. Apply(m) /\ scp' = Tail(scp) /\ phase' = phase
    BY <1>3 DEF ReadScp
  <2>. HIDE DEF m
  <2>2. /\ vehicles' \in Seq(Players) /\ IsInjective(vehicles')
        /\ Len(vehicles) \in Nat /\ Len(vehicles') \in {Len(vehicles), Len(vehicles) + 1}
    <3>1. CASE Creates(m)
      <4>1. m[2] \in Players /\ m[2] \notin Range(vehicles) /\ vehicles' = Append(vehicles, m[2])
        <5>1. vehicles' = IF Creates(m) THEN Append(vehicles, m[2]) ELSE vehicles
          BY <2>1 DEF Apply
        <5>2. m[1] = "Set" /\ m[2] \notin Range(vehicles)
          BY <3>1 DEF Creates
        <5>. QED  BY <1>1, <3>1, <5>1, <5>2
      <4>2. vehicles \in Seq(Players) /\ Len(vehicles) \in Nat
        BY DEF Typed
      <4>. QED  BY <4>1, <4>2, AppendDistinct
    <3>2. CASE ~Creates(m)
      BY <2>1, <3>2 DEF Apply, Typed
    <3>. QED  BY <3>1, <3>2
  <2>3. scenario' \in Scenarios \cup {NoScenario}
    BY <1>1, <2>1 DEF Apply, Typed
  <2>4. Typed'
    BY <1>1, <2>1, <2>2, <2>3 DEF Typed
  <2>5. Told' /\ Registered'
    <3>1. UNCHANGED <<attempt, polling, osiOwner>>
      BY DEF ReadScp
    <3>2. Told'
      BY <1>1, <2>1, <3>1 DEF Apply, Told
    <3>3. /\ unregistered' \subseteq unregistered
          /\ \A p \in unregistered : p \notin unregistered' => p \in Range(vehicles')
          /\ Range(vehicles) \subseteq Range(vehicles')
      <4>1. CASE Creates(m)
        <5>1. vehicles' = Append(vehicles, m[2]) /\ unregistered' = unregistered \ {m[2]}
          BY <2>1, <4>1 DEF Apply
        <5>2. Range(Append(vehicles, m[2])) = Range(vehicles) \cup {m[2]}
          <6>1. m[2] \in Players
            BY <1>1, <4>1 DEF Creates
          <6>. QED  BY <6>1, AppendMembers DEF Typed
        <5>. QED  BY <5>1, <5>2
      <4>2. CASE ~Creates(m)
        <5>1. vehicles' = vehicles /\ unregistered' = unregistered
          BY <2>1, <4>2 DEF Apply
        <5>. QED  BY <5>1
      <4>. QED  BY <4>1, <4>2
    <3>4. Registered'
      BY <2>1, <3>1, <3>3 DEF Registered
    <3>. QED  BY <3>2, <3>4
  <2>6. Cardinality(Agents) \in Nat
    BY Constants
  <2>7. Crowded'
    BY <1>1, <2>1, <2>2, <2>6 DEF Crowded, Populated
  <2>. QED  BY <2>2, <2>4, <2>5, <2>7
<1>. QED  BY <1>2, <1>3

\* A failure ends the binding, or begins another attempt without vehicles.
LEMMA FailuresInv ==
  ASSUME VtdInv, StreamFails \/ ReadFails
  PROVE  VtdInv'
<1>. USE DEF VtdInv
<1>1. CASE StreamFails
  BY <1>1, NextMessage, CallsOn DEF StreamFails, Reading, Typed
<1>2. CASE ReadFails
  <2>1. UNCHANGED <<scenario, expected, scp>> /\ phase \in {"connect", "process", "reset"}
    BY <1>2 DEF ReadFails, Reading, world
  <2>2. CASE phase' = "failed"
    BY <1>2, <2>1, <2>2, CallsOn DEF ReadFails, Typed
  <2>3. CASE phase' = "connect" /\ stage' = "paramserver" /\ tries' = WaitTries /\ vehicles' = <<>>
    <3>1. vehicles' \in Seq(Players) /\ IsInjective(vehicles')
      BY <2>3 DEF IsInjective
    <3>2. Registered' /\ polling' = FALSE
      <4>1. attempt \in Nat /\ attempt >= 1 /\ attempt' = attempt + 1
        BY <1>2, <2>1, <2>3 DEF ReadFails, Reading, Registered, Told
      <4>. QED  BY <1>2, <2>1, <2>3, <4>1 DEF ReadFails, Reading, Registered, Told
    <3>. QED  BY <2>1, <2>3, <3>1, <3>2, Constants DEF Typed, Told, Crowded, Populated
  <2>. QED  BY <1>2, <2>1, <2>2, <2>3 DEF ReadFails
<1>. QED  BY <1>1, <1>2

-----------------------------------------------------------------------------
(* The steps, the reset, the end and the world.                            *)

LEMMA SteppingInv ==
  ASSUME VtdInv, Stepping
  PROVE  VtdInv'
<1>. USE DEF VtdInv, Typed
<1>1. CASE Process
  BY <1>1, CallsOn DEF Process, world, Populated
<1>2. CASE ScpRead
  BY <1>2, CallsOn DEF ScpRead, world, Populated
<1>3. CASE StepCodec
  BY <1>3, CallsOn DEF StepCodec
<1>4. CASE StepOsi
  BY <1>4, CallsOn DEF StepOsi
<1>5. CASE CodecDone
  BY <1>5, CallsOn DEF CodecDone, world
<1>6. CASE Trigger
  BY <1>6, CallsOn DEF Trigger, Populated
<1>. QED  BY <1>1, <1>2, <1>3, <1>4, <1>5, <1>6 DEF Stepping

LEMMA ResetInv ==
  ASSUME VtdInv, Reset \/ ResetDone \/ Disconnect
  PROVE  VtdInv'
<1>. USE DEF VtdInv
<1>1. CASE Reset
  <2>1. << <<"Stop">>, <<"Restart">>, <<"Run">> >> \in Seq(Messages)
    BY DEF Messages, Words
  <2>2. scp' = scp \/ scp' = scp \o << <<"Stop">>, <<"Restart">>, <<"Run">> >>
    BY <1>1 DEF Reset, Restarted
  <2>3. scp' \in Seq(Messages)
    BY <2>1, <2>2, ConcatProperties DEF Typed
  <2>. QED  BY <1>1, <2>3, CallsOn DEF Reset, Populated, Typed
<1>2. CASE ResetDone
  BY <1>2, CallsOn DEF ResetDone, world, Populated, Typed
<1>3. CASE Disconnect
  BY <1>3 DEF Disconnect, world, Typed, Told, Crowded, Populated, Registered, IsInjective
<1>. QED  BY <1>1, <1>2, <1>3

LEMMA WorldInv ==
  ASSUME VtdInv, OtherClient \/ Break \/ Abort
  PROVE  VtdInv'
<1>. USE DEF VtdInv
<1>1. UNCHANGED binding /\ scp' \in Seq(Messages)
  <2>1. CASE OtherClient
    <3>1. PICK m \in {<<"Set", p>> : p \in Strangers}
                       \cup {<<"LoadScenario", s>> : s \in Scenarios}
                       \cup {<<"Stop">>, <<"Restart">>, <<"Run">>},
                 i \in 1 .. Len(scp) + 1 : scp' = InsertAt(scp, i, m)
      BY <2>1 DEF OtherClient
    <3>2. m \in Messages
      BY DEF Messages, Words, Players
    <3>3. scp' \in Seq(Messages)
      BY <3>1, <3>2, Inserted DEF Typed
    <3>. QED  BY <2>1, <3>3 DEF OtherClient
  <2>2. CASE ~OtherClient
    BY <2>2 DEF Break, Abort, Typed, world
  <2>. QED  BY <2>1, <2>2
<1>2. UNCHANGED osiOwner
  BY DEF OtherClient, Break, Abort
<1>. QED  BY <1>1, <1>2, CallsOn DEF binding, Typed

-----------------------------------------------------------------------------
\* Every step keeps the invariant.
LEMMA NextInv == VtdInv /\ [Next]_vars => VtdInv'
<1>. SUFFICES ASSUME VtdInv, [Next]_vars PROVE VtdInv'
  OBVIOUS
<1>1. CASE Dialogue
  BY <1>1, ClientsInv, AdvanceInv, WaitsInv, ReadScpInv, FailuresInv DEF Dialogue
<1>2. CASE Stepping
  BY <1>2, SteppingInv
<1>3. CASE Reset \/ ResetDone \/ Disconnect
  BY <1>3, ResetInv
<1>4. CASE OtherClient \/ Break \/ Abort
  BY <1>4, WorldInv
<1>5. CASE UNCHANGED vars
  BY <1>5, CallsOn DEF vars, binding, world, VtdInv, Typed
<1>. QED  BY <1>1, <1>2, <1>3, <1>4, <1>5 DEF Next

\* VtdInv holds in every state of every run.
THEOREM Inductive == Spec => []VtdInv
BY InitInv, NextInv, PTL DEF Spec

\* Once connect() has returned no two vehicles have the same id, and there are at
\* least as many as agents: the agents and nothing else, unless another client
\* has set one, whatever came over SCP and however many attempts it took.  After a
\* single attempt the configured vehicles are among them.
THEOREM VehiclesCountedHolds == Spec => []VehiclesCounted
<1>1. VtdInv => VehiclesCounted
  <2>. SUFFICES ASSUME VtdInv, phase \in {"ready", "process", "sensors"}
                PROVE  /\ IsInjective(vehicles) /\ Len(vehicles) >= Cardinality(Agents)
                       /\ Range(vehicles) \subseteq Agents => Range(vehicles) = Agents
                       /\ attempt = 1 => osiOwner \subseteq Range(vehicles)
    BY DEF VehiclesCounted
  <2>1. IsInjective(vehicles) /\ Len(vehicles) >= Cardinality(Agents) /\ vehicles \in Seq(Players)
    BY DEF VtdInv, Typed, Crowded, Populated
  <2>2. ASSUME Range(vehicles) \subseteq Agents
        PROVE  Range(vehicles) = Agents
    <3>. DEFINE n == Len(vehicles)
    <3>1. n \in Nat /\ DOMAIN vehicles = 1 .. n
      BY <2>1
    <3>2. vehicles \in Bijection(1 .. n, Range(vehicles))
      BY <2>1, <3>1 DEF Bijection, Injection, Surjection, IsInjective, Range
    <3>3. Cardinality(Range(vehicles)) = n
      BY <3>1, <3>2, FS_CountingElements DEF ExistsBijection
    <3>4. IsFiniteSet(Agents)
      BY Constants
    <3>5. Cardinality(Range(vehicles)) <= Cardinality(Agents)
      BY <2>2, <3>4, FS_Subset
    <3>6. Cardinality(Range(vehicles)) = Cardinality(Agents)
      BY <2>1, <3>1, <3>3, <3>5, Constants
    <3>. QED  BY <2>2, <3>4, <3>6, FS_Subset
  <2>3. attempt = 1 => osiOwner \subseteq Range(vehicles)
    BY DEF VtdInv, Registered
  <2>. QED  BY <2>1, <2>2, <2>3
<1>. QED  BY <1>1, Inductive, PTL

-----------------------------------------------------------------------------
(* The messages that are under way to the codecs, and what a codec has made *)
(* of those before them.                                                    *)

Message == [run : {0, 1}, frame : Nat, part : {1, 2}, form : SUBSET OsiForms]

\* connect() has opened the SCP stream, in this attempt.
Up == \/ phase = "connect" /\ stage \notin {"paramserver", "scp"}
      \/ phase \in {"ready", "process", "sensors", "stopped", "reset"}

\* A codec that waits for frame 0 of the next run of VTD.
Due(c) == codec[c].restart \/ phase = "reset"

\* The second message of a frame comes right after the first.
Paired(s) ==
    \A i \in DOMAIN s :
      /\ s[i] = Part(s[i].run, s[i].frame, s[i].part, {})
      /\ i > 1 /\ s[i].part = 2 => s[i - 1] = Part(s[i].run, s[i].frame, 1, {})

\* The first message in the stream goes with what has been read: its frame is
\* open, or dropped as a whole.
Joined(s, k, due) ==
    s # <<>> /\ s[1].part = 2 =>
      IF due THEN s[1].frame # 0 ELSE k.data = {Part(s[1].run, s[1].frame, 1, {})}

\* VTD is in run r and has got to frame f of it; from the next frame 0 on that
\* a codec waits for, there is nothing but that run.
Runs(s, due, r, f) ==
    /\ \A i \in DOMAIN s : s[i].run = r => s[i].frame <= f
    /\ \A i, j \in DOMAIN s : i <= j /\ (due => s[i].frame = 0) => s[j].run = r

\* Before the first restart frames only grow, from the one that has been read.
Grows(s, k) ==
    /\ \A i \in DOMAIN s : k.frame <= s[i].frame
    /\ \A i, j \in DOMAIN s : i <= j => s[i].frame <= s[j].frame

\* What is read of an open, of no, and of a complete frame.
Holds(k, r, f) ==
    /\ k.frame <= f
    /\ IF k.open THEN k.data = {Part(r, k.frame, 1, {})}
       ELSE \/ k.data = {} /\ k.frame = 0
            \/ k.data = {Part(r, k.frame, 1, {}), Part(r, k.frame, 2, {})}

Fit(s, k, due, r, f) ==
    /\ Paired(s) /\ Joined(s, k, due) /\ Runs(s, due, r, f)
    /\ r = 0 => Grows(s, k) /\ \A i \in DOMAIN s : s[i].run = 0
    /\ ~due => Holds(k, r, f)

\* After a restart, what is read of a stream that still held the old frame 0: it
\* ends the wait as the new one would, so that either run may be read, but of the
\* old one no frame after 1.
Upto(r, f) == IF r = 1 THEN f ELSE 1
Strays(s, k, due, f) ==
    /\ Paired(s) /\ Joined(s, k, due)
    /\ \A i \in DOMAIN s : s[i].frame <= Upto(s[i].run, f)
    /\ ~due => \E r \in {0, 1} : Holds(k, r, Upto(r, f))

Meets(s, k, due, r, f, stray) ==
    IF stray /\ r = 1 THEN Strays(s, k, due, f) ELSE Fit(s, k, due, r, f)

OsiFit(s, due, r, f) ==
    \A i \in DOMAIN s : /\ s[i].part = 1 /\ s[i].frame >= 1
                        /\ ~due => s[i].run = r /\ s[i].frame <= f

-----------------------------------------------------------------------------
(* The invariant of the streams, in parts.                                  *)

StreamsTyped ==
    /\ taskControl \in BOOLEAN /\ step \in Nat /\ received \in Nat
    /\ todo \in Seq(Codecs)
    /\ codec \in [Codecs -> [frame : Nat, open : BOOLEAN, restart : BOOLEAN, data : SUBSET Message]]
    /\ stream \in [Codecs -> Seq(Message)]
    /\ vtd \in [mode : {"config", "apply", "init", "run"}, frame : Nat, run : {0, 1}]
    /\ osiOwner \subseteq Agents /\ \A a, b \in osiOwner : a = b

\* Before connect() returns VTD does not go beyond frame 0, and no codec reads.
Begun ==
    phase \in {"idle", "connect"} =>
        /\ vtd.run = 0 /\ vtd.frame = 0 /\ step = 0 /\ nextTime = 0
        /\ \A c \in Codecs : codec[c] = FreshCodec
        /\ ~Up => ~taskControl /\ vehicles = <<>>

\* The task control stream comes first, and VTD announces it once.
Announces ==
    Up => IF taskControl THEN \A i \in DOMAIN scp : scp[i] # <<"RDB">>
          ELSE /\ phase = "connect" /\ stage = "task_control" /\ vehicles = <<>>
               /\ \A i \in DOMAIN scp : i > 1 => scp[i] # <<"RDB">>

\* A reset that VTD never heard of: the codecs wait for a frame 0 in vain.
Lost == /\ vtd.run = 0 /\ codec[TC].restart
        /\ \A i \in DOMAIN stream[TC] : stream[TC][i].frame # 0

Paced ==
    /\ phase = "ready" => vtd.frame <= step + 1 \/ Lost
    /\ phase \in {"process", "sensors"} => step >= 1 /\ (vtd.frame <= step \/ Lost)
    /\ phase = "reset" /\ vtd.run = 1 => vtd.frame <= 1

\* As long as one codec has not read its frame 0, none of them has read anything:
\* it is the first step that is still to come.
Unstarted == \E c \in Active \ {Osi} : \E i \in DOMAIN stream[c] : stream[c][i].frame = 0

Cleared ==
    vtd.run = 0 /\ phase \in {"ready", "process", "stopped", "reset"} /\ Unstarted =>
        vtd.frame <= 1 /\ \A c \in Active \ {Osi} : codec[c].data = {}

Streams ==
    Up => /\ \A c \in Codecs \ Active : stream[c] = <<>>
          /\ \A c \in Active \ {Osi} :
               Meets(stream[c], codec[c], Due(c), vtd.run, vtd.frame, c \in early)
          /\ OsiFit(stream[Osi], Due(Osi), vtd.run, vtd.frame)

\* What the OSI sensor holds when it is done with a step.
OsiDone ==
    /\ ~codec[Osi].restart /\ nextTime = step /\ codec[Osi].data # {}
    /\ \A m \in codec[Osi].data : m.frame = step /\ m.run = vtd.run /\ m.part = 1

Done(c)    == IF c = Osi THEN OsiDone ELSE ~Wanting(codec[c])
Pending(c) == c \in Range(todo) \/ (c = Osi /\ Range(todo) \cap osiOwner # {})

Worked ==
    phase = "sensors" => /\ Range(todo) \subseteq Active
                         /\ \A c \in Active : Pending(c) \/ Done(c)

\* The OSI sensor waits for the frame of the step, or is one that VTD does not serve.
OsiTimed ==
    Osi \in Active /\ ~Due(Osi) =>
      /\ phase = "ready" => nextTime = step /\ vtd.frame <= step + 1
      /\ phase \in {"process", "sensors"} =>
           \/ stream[Osi] = <<>>
           \/ vtd.frame <= step /\ (nextTime = step - 1 \/ (phase = "sensors" /\ OsiDone))

-----------------------------------------------------------------------------
(* Streams and codecs, one message at a time.                               *)

Codec == [frame : Nat, open : BOOLEAN, restart : BOOLEAN, data : SUBSET Message]

\* What is left of a stream when its first message is taken.
LEMMA TailMembers ==
  ASSUME NEW s \in Seq(Message), s # <<>>
  PROVE  /\ Tail(s) \in Seq(Message) /\ Head(s) = s[1] /\ 1 \in DOMAIN s /\ Head(s) \in Message
         /\ \A i \in DOMAIN s : i \in Nat /\ i >= 1 /\ s[i] \in Message
         /\ \A i \in DOMAIN Tail(s) : /\ i \in Nat /\ i >= 1 /\ i + 1 \in DOMAIN s
                                      /\ Tail(s)[i] = s[i + 1]
                                      /\ i > 1 => i - 1 \in DOMAIN Tail(s)
         /\ Tail(s) # <<>> => 1 \in DOMAIN Tail(s)
<1>1. Len(s) \in Nat /\ Len(s) >= 1 /\ DOMAIN s = 1 .. Len(s)
  OBVIOUS
<1>2. Tail(s) \in Seq(Message) /\ DOMAIN Tail(s) = 1 .. Len(s) - 1
  BY <1>1
<1>3. \A i \in 1 .. Len(s) - 1 : Tail(s)[i] = s[i + 1]
  BY <1>1
<1>4. \A i \in DOMAIN s : s[i] \in Message
  BY <1>1
<1>5. Tail(s) # <<>> => Len(s) - 1 >= 1
  BY <1>1, <1>2
<1>. QED  BY <1>1, <1>2, <1>3, <1>4, <1>5

\* What Decode makes of a codec.
LEMMA DecodeType ==
  ASSUME NEW k \in Codec, NEW m \in Message
  PROVE  /\ Decode(k, m) \in Codec
         /\ Decode(k, m).frame = m.frame
         /\ Decode(k, m).restart = (k.restart /\ m.frame # 0)
         /\ k.restart /\ m.frame # 0 =>
              Decode(k, m).open = k.open /\ Decode(k, m).data = k.data
         /\ ~(k.restart /\ m.frame # 0) =>
              /\ Decode(k, m).open = (m.part = 1)
              /\ Decode(k, m).data = (IF m.part = 1 THEN {} ELSE k.data) \cup {m}
<1>1. CASE k.restart /\ m.frame # 0
  BY <1>1 DEF Decode, Codec, Message
<1>2. CASE ~(k.restart /\ m.frame # 0)
  <2>. DEFINE d == (IF m.part = 1 THEN {} ELSE k.data) \cup {m}
  <2>1. d \in SUBSET Message
    BY DEF Codec
  <2>2. Decode(k, m) = [frame |-> m.frame, restart |-> FALSE, open |-> m.part = 1, data |-> d]
    BY <1>2 DEF Decode, Open, Store, Codec
  <2>. HIDE DEF d
  <2>3. m.frame \in Nat /\ (m.part = 1) \in BOOLEAN
    BY DEF Message
  <2>4. Decode(k, m) \in Codec
    BY <2>1, <2>2, <2>3 DEF Codec
  <2>5. /\ Decode(k, m).frame = m.frame /\ Decode(k, m).restart = FALSE
        /\ Decode(k, m).open = (m.part = 1) /\ Decode(k, m).data = d
    BY <2>2
  <2>6. Decode(k, m).restart = (k.restart /\ m.frame # 0)
    BY <1>2, <2>5
  <2>. QED  BY <1>2, <2>4, <2>5, <2>6 DEF d
<1>. QED  BY <1>1, <1>2

\* A codec reads the first message of its stream: what it holds goes with the
\* next one, and is of one frame.
LEMMA ReadMessage ==
  ASSUME NEW s \in Seq(Message), s # <<>>, NEW k \in Codec,
         Paired(s), Joined(s, k, k.restart)
  PROVE  LET t == Tail(s)
             m == Head(s)
             d == Decode(k, m)
         IN /\ t \in Seq(Message) /\ d \in Codec /\ m \in Message /\ m = s[1] /\ 1 \in DOMAIN s
            /\ \A i \in DOMAIN t : i + 1 \in DOMAIN s /\ t[i] = s[i + 1] /\ i \in Nat
            /\ d.frame = m.frame /\ d.restart = (k.restart /\ m.frame # 0)
            /\ Paired(t) /\ Joined(t, d, d.restart)
            /\ ~d.restart => \A f \in Nat : m.frame <= f => Holds(d, m.run, f)
<1>. DEFINE t == Tail(s)
            m == Head(s)
            d == Decode(k, m)
<1>1. /\ t \in Seq(Message) /\ m = s[1] /\ 1 \in DOMAIN s /\ m \in Message
      /\ \A i \in DOMAIN s : i \in Nat /\ i >= 1 /\ s[i] \in Message
      /\ \A i \in DOMAIN t : /\ i \in Nat /\ i >= 1 /\ i + 1 \in DOMAIN s /\ t[i] = s[i + 1]
                             /\ i > 1 => i - 1 \in DOMAIN t
      /\ t # <<>> => 1 \in DOMAIN t
  BY TailMembers
<1>2. /\ d \in Codec /\ d.frame = m.frame /\ d.restart = (k.restart /\ m.frame # 0)
      /\ k.restart /\ m.frame # 0 => d.open = k.open /\ d.data = k.data
      /\ ~(k.restart /\ m.frame # 0) =>
           d.open = (m.part = 1) /\ d.data = (IF m.part = 1 THEN {} ELSE k.data) \cup {m}
  BY <1>1, DecodeType
<1>. HIDE DEF t, m, d
<1>3. m.frame \in Nat /\ m.part \in {1, 2} /\ k.restart \in BOOLEAN
  BY <1>1 DEF Message, Codec
<1>4. m = Part(m.run, m.frame, m.part, {})
  BY <1>1 DEF Paired
<1>5. ASSUME ~d.restart, NEW f \in Nat, m.frame <= f
      PROVE  Holds(d, m.run, f)
  <2>1. d.frame = m.frame /\ d.frame <= f
    BY <1>2, <1>3, <1>5
  <2>2. /\ d.open = (m.part = 1)
        /\ d.data = (IF m.part = 1 THEN {} ELSE k.data) \cup {m}
    BY <1>2, <1>5
  <2>3. CASE m.part = 1
    <3>1. d.data = {Part(m.run, d.frame, 1, {})} /\ d.open
      BY <1>4, <2>1, <2>2, <2>3
    <3>. QED  BY <2>1, <3>1 DEF Holds
  <2>4. CASE m.part = 2
    <3>1. ~k.restart
      BY <1>1, <1>2, <1>5, <2>4 DEF Joined
    <3>2. k.data = {Part(m.run, m.frame, 1, {})}
      BY <1>1, <2>4, <3>1 DEF Joined
    <3>3. d.data = {Part(m.run, d.frame, 1, {}), Part(m.run, d.frame, 2, {})} /\ ~d.open
      <4>1. m = Part(m.run, d.frame, 2, {})
        BY <1>4, <2>1, <2>4
      <4>2. k.data = {Part(m.run, d.frame, 1, {})} /\ m.part # 1
        BY <2>1, <2>4, <3>2
      <4>. QED  BY <2>2, <4>1, <4>2
    <3>. QED  BY <2>1, <3>3 DEF Holds
  <2>. QED  BY <1>3, <2>3, <2>4
<1>6. Paired(t)
  <2>1. ASSUME NEW i \in DOMAIN t
        PROVE  /\ t[i] = Part(t[i].run, t[i].frame, t[i].part, {})
               /\ i > 1 /\ t[i].part = 2 => t[i - 1] = Part(t[i].run, t[i].frame, 1, {})
    <3>1. t[i] = s[i + 1] /\ i + 1 \in DOMAIN s /\ i + 1 > 1 /\ (i + 1) - 1 = i
      BY <1>1
    <3>2. i > 1 => t[i - 1] = s[i]
      <4>1. i > 1 => i - 1 \in DOMAIN t /\ (i - 1) + 1 = i
        BY <1>1
      <4>. QED  BY <1>1, <4>1
    <3>. QED  BY <3>1, <3>2 DEF Paired
  <2>. QED  BY <2>1 DEF Paired
<1>7. Joined(t, d, d.restart)
  <2>. SUFFICES ASSUME t # <<>>, t[1].part = 2
                PROVE  IF d.restart THEN t[1].frame # 0
                       ELSE d.data = {Part(t[1].run, t[1].frame, 1, {})}
    BY DEF Joined
  <2>1. t[1] = s[2] /\ 2 \in DOMAIN s /\ t[1] \in Message
    BY <1>1
  <2>2. m = Part(t[1].run, t[1].frame, 1, {})
    BY <1>1, <2>1 DEF Paired
  <2>3. m.frame = t[1].frame /\ m.part = 1
    BY <2>2 DEF Part
  <2>. QED  BY <1>2, <2>2, <2>3
<1>. QED  BY <1>1, <1>2, <1>5, <1>6, <1>7 DEF t, m, d

LEMMA ReadFit ==
  ASSUME NEW s \in Seq(Message), s # <<>>, NEW k \in Codec,
         NEW r \in {0, 1}, NEW f \in Nat, Fit(s, k, k.restart, r, f)
  PROVE  Fit(Tail(s), Decode(k, Head(s)), Decode(k, Head(s)).restart, r, f)
<1>. DEFINE t == Tail(s)
            m == Head(s)
            d == Decode(k, m)
<1>. HIDE DEF t, m, d
<1>1. Paired(s) /\ Joined(s, k, k.restart) /\ Runs(s, k.restart, r, f)
      /\ (r = 0 => Grows(s, k) /\ \A i \in DOMAIN s : s[i].run = 0)
  BY DEF Fit
<1>2. /\ t \in Seq(Message) /\ m \in Message /\ m = s[1] /\ 1 \in DOMAIN s
      /\ \A i \in DOMAIN t : i + 1 \in DOMAIN s /\ t[i] = s[i + 1] /\ i \in Nat
      /\ d.frame = m.frame /\ d.restart = (k.restart /\ m.frame # 0)
      /\ Paired(t) /\ Joined(t, d, d.restart)
      /\ ~d.restart => \A g \in Nat : m.frame <= g => Holds(d, m.run, g)
  BY <1>1, ReadMessage DEF t, m, d
<1>3. /\ \A i \in DOMAIN s : i \in Nat /\ i >= 1
      /\ k.restart \in BOOLEAN /\ m.frame \in Nat
  BY <1>2 DEF Codec, Message
<1>4. ~d.restart => m.run = r
  BY <1>1, <1>2, <1>3 DEF Runs
<1>5. m.run = r => m.frame <= f
  BY <1>1, <1>2 DEF Runs
<1>6. ~d.restart => Holds(d, r, f)
  BY <1>2, <1>4, <1>5
<1>7. Runs(t, d.restart, r, f)
  <2>1. \A i \in DOMAIN t : t[i].run = r => t[i].frame <= f
    BY <1>1, <1>2 DEF Runs
  <2>2. ASSUME NEW i \in DOMAIN t, NEW j \in DOMAIN t, i <= j, d.restart => t[i].frame = 0
        PROVE  t[j].run = r
    <3>1. i + 1 \in DOMAIN s /\ j + 1 \in DOMAIN s /\ i + 1 <= j + 1 /\ 1 <= j + 1
          /\ t[i] = s[i + 1] /\ t[j] = s[j + 1]
      BY <1>2, <2>2
    <3>2. CASE d.restart \/ ~k.restart
      BY <1>1, <1>2, <2>2, <3>1, <3>2 DEF Runs
    <3>3. CASE ~d.restart /\ k.restart
      <4>1. s[1].frame = 0
        BY <1>2, <3>3
      <4>. QED  BY <1>1, <1>2, <3>1, <4>1 DEF Runs
    <3>. QED  BY <3>2, <3>3
  <2>. QED  BY <2>1, <2>2 DEF Runs
<1>8. r = 0 => Grows(t, d) /\ \A i \in DOMAIN t : t[i].run = 0
  <2>. SUFFICES ASSUME r = 0 PROVE Grows(t, d) /\ \A i \in DOMAIN t : t[i].run = 0
    OBVIOUS
  <2>1. \A i \in DOMAIN t : t[i].run = 0
    BY <1>1, <1>2
  <2>2. \A i \in DOMAIN t : d.frame <= t[i].frame
    <3>1. \A i \in DOMAIN s : s[1].frame <= s[i].frame
      BY <1>1, <1>2, <1>3 DEF Grows
    <3>. QED  BY <1>2, <3>1
  <2>3. ASSUME NEW i \in DOMAIN t, NEW j \in DOMAIN t, i <= j
        PROVE  t[i].frame <= t[j].frame
    <3>1. i + 1 \in DOMAIN s /\ j + 1 \in DOMAIN s /\ i + 1 <= j + 1
          /\ t[i] = s[i + 1] /\ t[j] = s[j + 1]
      BY <1>2, <2>3
    <3>. QED  BY <1>1, <3>1 DEF Grows
  <2>. QED  BY <2>1, <2>2, <2>3 DEF Grows
<1>. QED  BY <1>2, <1>6, <1>7, <1>8 DEF Fit, t, m, d

LEMMA ReadMeets ==
  ASSUME NEW s \in Seq(Message), s # <<>>, NEW k \in Codec,
         NEW r \in {0, 1}, NEW f \in Nat, NEW stray, Meets(s, k, k.restart, r, f, stray)
  PROVE  Meets(Tail(s), Decode(k, Head(s)), Decode(k, Head(s)).restart, r, f, stray)
<1>. DEFINE t == Tail(s)
            m == Head(s)
            d == Decode(k, m)
<1>. HIDE DEF t, m, d
<1>1. ASSUME Strays(s, k, k.restart, f)
      PROVE  Strays(t, d, d.restart, f)
  <2>1. Paired(s) /\ Joined(s, k, k.restart) /\ \A i \in DOMAIN s : s[i].frame <= Upto(s[i].run, f)
    BY <1>1 DEF Strays
  <2>2. /\ m \in Message /\ m = s[1] /\ 1 \in DOMAIN s
        /\ \A i \in DOMAIN t : i + 1 \in DOMAIN s /\ t[i] = s[i + 1]
        /\ Paired(t) /\ Joined(t, d, d.restart)
        /\ ~d.restart => \A g \in Nat : m.frame <= g => Holds(d, m.run, g)
    BY <2>1, ReadMessage DEF t, m, d
  <2>3. m.run \in {0, 1} /\ Upto(m.run, f) \in Nat /\ m.frame <= Upto(m.run, f)
    BY <2>1, <2>2 DEF Message, Upto
  <2>4. ~d.restart => Holds(d, m.run, Upto(m.run, f))
    BY <2>2, <2>3
  <2>5. \A i \in DOMAIN t : t[i].frame <= Upto(t[i].run, f)
    BY <2>1, <2>2
  <2>. QED  BY <2>2, <2>3, <2>4, <2>5 DEF Strays
<1>2. ASSUME Fit(s, k, k.restart, r, f)
      PROVE  Fit(t, d, d.restart, r, f)
  BY <1>2, ReadFit DEF t, m, d
<1>. QED  BY <1>1, <1>2 DEF Meets, t, m, d

\* Two messages more.
LEMMA PairMembers ==
  ASSUME NEW s \in Seq(Message), NEW a \in Message, NEW b \in Message,
         NEW t, t = s \o <<a, b>>
  PROVE  /\ t \in Seq(Message) /\ Len(s) \in Nat /\ DOMAIN s = 1 .. Len(s)
         /\ DOMAIN t = 1 .. Len(s) + 2
         /\ \A i \in DOMAIN s : t[i] = s[i] /\ s[i] \in Message
         /\ t[Len(s) + 1] = a /\ t[Len(s) + 2] = b
<1>1. <<a, b>> \in Seq(Message) /\ Len(<<a, b>>) = 2 /\ <<a, b>>[1] = a /\ <<a, b>>[2] = b
  OBVIOUS
<1>. DEFINE q == <<a, b>>
<1>. HIDE DEF q
<1>2. q \in Seq(Message) /\ Len(q) = 2 /\ q[1] = a /\ q[2] = b
  BY <1>1 DEF q
<1>3. Len(s) \in Nat /\ DOMAIN s = 1 .. Len(s) /\ \A i \in DOMAIN s : s[i] \in Message
  OBVIOUS
<1>4. /\ s \o q \in Seq(Message) /\ Len(s \o q) = Len(s) + 2
      /\ \A i \in 1 .. Len(s) + 2 : (s \o q)[i] = IF i <= Len(s) THEN s[i] ELSE q[i - Len(s)]
  <2>1. /\ s \o q \in Seq(Message) /\ Len(s \o q) = Len(s) + Len(q)
        /\ \A i \in 1 .. Len(s) + Len(q) :
             (s \o q)[i] = IF i <= Len(s) THEN s[i] ELSE q[i - Len(s)]
    BY <1>2, ConcatProperties
  <2>. QED  BY <1>2, <2>1
<1>5. DOMAIN (s \o q) = 1 .. Len(s) + 2
  BY <1>3, <1>4
<1>6. t = s \o q
  BY DEF q
<1>. QED  BY <1>2, <1>3, <1>4, <1>5, <1>6

\* A stream after frame f of run r has been queued.
Queued(s, r, f) == s \o <<Part(r, f, 1, {}), Part(r, f, 2, {})>>

\* VTD queues a frame: it comes in two messages, after those there are.
LEMMA QueuedMessages ==
  ASSUME NEW s \in Seq(Message), NEW r \in {0, 1}, NEW g \in Nat
  PROVE  LET t == Queued(s, r, g)
         IN /\ t \in Seq(Message)
            /\ \A i \in DOMAIN s : i \in DOMAIN t /\ t[i] = s[i] /\ s[i] \in Message
            /\ \A i \in DOMAIN t : i \in DOMAIN s \/ (t[i].run = r /\ t[i].frame = g)
            /\ \A i \in DOMAIN t : \A j \in DOMAIN s : i <= j => i \in DOMAIN s
            /\ Paired(s) => Paired(t)
            /\ \A k, due : Joined(s, k, due) => Joined(t, k, due)
<1>. DEFINE t == Queued(s, r, g)
            a == Part(r, g, 1, {})
            b == Part(r, g, 2, {})
            n == Len(s)
<1>1. /\ a \in Message /\ a.run = r /\ a.frame = g /\ a.part = 1 /\ a = Part(a.run, a.frame, a.part, {})
      /\ b \in Message /\ b.run = r /\ b.frame = g /\ b.part = 2 /\ b = Part(b.run, b.frame, b.part, {})
      /\ a = Part(b.run, b.frame, 1, {})
  BY DEF Part, Message
<1>0. t = s \o <<a, b>>
  BY DEF Queued
<1>. HIDE DEF t, a, b
<1>2. /\ t \in Seq(Message) /\ n \in Nat /\ DOMAIN s = 1 .. n /\ DOMAIN t = 1 .. n + 2
      /\ \A i \in DOMAIN s : t[i] = s[i] /\ s[i] \in Message
      /\ t[n + 1] = a /\ t[n + 2] = b
  BY <1>0, <1>1, PairMembers
<1>3. s = <<>> => n = 0
  OBVIOUS
<1>. HIDE DEF n
<1>4. \A i \in DOMAIN t : i \in DOMAIN s \/ i = n + 1 \/ i = n + 2
  BY <1>2
<1>5. ASSUME Paired(s)
      PROVE  Paired(t)
  <2>1. ASSUME NEW i \in DOMAIN s
        PROVE  /\ t[i] = Part(t[i].run, t[i].frame, t[i].part, {})
               /\ i > 1 /\ t[i].part = 2 => t[i - 1] = Part(t[i].run, t[i].frame, 1, {})
    <3>1. t[i] = s[i] /\ (i > 1 => t[i - 1] = s[i - 1])
      BY <1>2
    <3>. QED  BY <1>5, <3>1 DEF Paired
  <2>2. t[n + 1] = Part(t[n + 1].run, t[n + 1].frame, t[n + 1].part, {}) /\ t[n + 1].part # 2
    BY <1>1, <1>2
  <2>3. /\ t[n + 2] = Part(t[n + 2].run, t[n + 2].frame, t[n + 2].part, {})
        /\ t[(n + 2) - 1] = Part(t[n + 2].run, t[n + 2].frame, 1, {})
    <3>1. (n + 2) - 1 = n + 1
      BY <1>2
    <3>. QED  BY <1>1, <1>2, <3>1
  <2>. QED  BY <1>4, <2>1, <2>2, <2>3 DEF Paired
<1>6. ASSUME NEW k, NEW due, Joined(s, k, due)
      PROVE  Joined(t, k, due)
  <2>1. CASE s = <<>>
    <3>1. t[1].part # 2
      BY <1>1, <1>2, <1>3, <2>1
    <3>. QED  BY <3>1 DEF Joined
  <2>2. CASE s # <<>>
    <3>1. 1 \in DOMAIN s
      BY <2>2, TailMembers
    <3>2. t[1] = s[1]
      BY <1>2, <3>1
    <3>. QED  BY <1>6, <2>2, <3>2 DEF Joined
  <2>. QED  BY <2>1, <2>2
<1>7. \A i \in DOMAIN t : \A j \in DOMAIN s : i <= j => i \in DOMAIN s
  BY <1>2
<1>8. \A i \in DOMAIN s : i \in DOMAIN t
  BY <1>2
<1>9. \A i \in DOMAIN t : i \in DOMAIN s \/ (t[i].run = r /\ t[i].frame = g)
  BY <1>1, <1>2, <1>4
<1>. QED  BY <1>2, <1>5, <1>6, <1>7, <1>8, <1>9 DEF t

\* It is not before the last one.
LEMMA FrameFit ==
  ASSUME NEW s \in Seq(Message), NEW k \in Codec, NEW due \in BOOLEAN, NEW r \in {0, 1},
         NEW f \in Nat, NEW g \in Nat, f <= g, Fit(s, k, due, r, f), r = 0 => ~due,
         NEW t, t = Queued(s, r, g)
  PROVE  t \in Seq(Message) /\ Fit(t, k, due, r, g)
<1>1. Paired(s) /\ Joined(s, k, due) /\ Runs(s, due, r, f)
      /\ (r = 0 => Grows(s, k) /\ \A i \in DOMAIN s : s[i].run = 0)
      /\ (~due => Holds(k, r, f))
  BY DEF Fit
<1>2. /\ t \in Seq(Message)
      /\ \A i \in DOMAIN s : t[i] = s[i] /\ s[i] \in Message
      /\ \A i \in DOMAIN t : i \in DOMAIN s \/ (t[i].run = r /\ t[i].frame = g)
      /\ \A i \in DOMAIN t : \A j \in DOMAIN s : i <= j => i \in DOMAIN s
      /\ Paired(t) /\ Joined(t, k, due)
  <2>. DEFINE u == Queued(s, r, g)
  <2>1. /\ u \in Seq(Message)
        /\ \A i \in DOMAIN s : i \in DOMAIN u /\ u[i] = s[i] /\ s[i] \in Message
        /\ \A i \in DOMAIN u : i \in DOMAIN s \/ (u[i].run = r /\ u[i].frame = g)
        /\ \A i \in DOMAIN u : \A j \in DOMAIN s : i <= j => i \in DOMAIN s
        /\ Paired(s) => Paired(u)
        /\ \A x, y : Joined(s, x, y) => Joined(u, x, y)
    BY QueuedMessages, Zenon
  <2>. QED  BY <1>1, <2>1
<1>3. \A i \in DOMAIN s : s[i].frame \in Nat /\ (s[i].run = r => s[i].frame <= f /\ s[i].frame <= g)
  <2>1. \A i \in DOMAIN s : s[i].frame \in Nat /\ (s[i].run = r => s[i].frame <= f)
    BY <1>1, <1>2 DEF Runs, Message
  <2>. QED  BY <2>1
<1>4. Runs(t, due, r, g)
  <2>1. \A i \in DOMAIN t : t[i].run = r => t[i].frame <= g
    BY <1>2, <1>3
  <2>2. ASSUME NEW i \in DOMAIN t, NEW j \in DOMAIN t, i <= j, due => t[i].frame = 0
        PROVE  t[j].run = r
    <3>1. CASE j \in DOMAIN s
      <4>1. i \in DOMAIN s /\ t[i] = s[i] /\ t[j] = s[j]
        BY <1>2, <2>2, <3>1
      <4>. QED  BY <1>1, <2>2, <3>1, <4>1 DEF Runs
    <3>2. CASE j \notin DOMAIN s
      BY <1>2, <3>2
    <3>. QED  BY <3>1, <3>2
  <2>. QED  BY <2>1, <2>2 DEF Runs
<1>5. r = 0 => Grows(t, k) /\ \A i \in DOMAIN t : t[i].run = 0
  <2>. SUFFICES ASSUME r = 0 PROVE Grows(t, k) /\ \A i \in DOMAIN t : t[i].run = 0
    OBVIOUS
  <2>1. \A i \in DOMAIN t : t[i].run = 0
    BY <1>1, <1>2
  <2>2. k.frame \in Nat /\ k.frame <= f /\ k.frame <= g
    BY <1>1 DEF Holds, Codec
  <2>3. \A i \in DOMAIN s : k.frame <= s[i].frame /\ s[i].run = 0
    BY <1>1 DEF Grows
  <2>4. \A i \in DOMAIN t : k.frame <= t[i].frame /\ t[i].frame <= g
    BY <1>2, <1>3, <2>2, <2>3
  <2>5. ASSUME NEW i \in DOMAIN t, NEW j \in DOMAIN t, i <= j
        PROVE  t[i].frame <= t[j].frame
    <3>1. CASE j \in DOMAIN s
      <4>1. i \in DOMAIN s /\ t[i] = s[i] /\ t[j] = s[j]
        BY <1>2, <2>5, <3>1
      <4>. QED  BY <1>1, <2>5, <3>1, <4>1 DEF Grows
    <3>2. CASE j \notin DOMAIN s
      BY <1>2, <2>4, <3>2
    <3>. QED  BY <3>1, <3>2
  <2>. QED  BY <2>1, <2>4, <2>5 DEF Grows
<1>6. ~due => Holds(k, r, g)
  <2>1. k.frame \in Nat
    BY DEF Codec
  <2>. QED  BY <1>1, <2>1 DEF Holds
<1>. QED  BY <1>2, <1>4, <1>5, <1>6 DEF Fit

LEMMA FrameStrays ==
  ASSUME NEW s \in Seq(Message), NEW k \in Codec, NEW due \in BOOLEAN,
         NEW f \in Nat, NEW g \in Nat, f <= g, Strays(s, k, due, f),
         NEW t, t = Queued(s, 1, g)
  PROVE  t \in Seq(Message) /\ Strays(t, k, due, g)
<1>1. /\ Paired(s) /\ Joined(s, k, due) /\ \A i \in DOMAIN s : s[i].frame <= Upto(s[i].run, f)
      /\ ~due => \E r \in {0, 1} : Holds(k, r, Upto(r, f))
  BY DEF Strays
<1>2. /\ t \in Seq(Message)
      /\ \A i \in DOMAIN s : t[i] = s[i] /\ s[i] \in Message
      /\ \A i \in DOMAIN t : i \in DOMAIN s \/ (t[i].run = 1 /\ t[i].frame = g)
      /\ Paired(t) /\ Joined(t, k, due)
  <2>. DEFINE u == Queued(s, 1, g)
  <2>1. /\ u \in Seq(Message)
        /\ \A i \in DOMAIN s : i \in DOMAIN u /\ u[i] = s[i] /\ s[i] \in Message
        /\ \A i \in DOMAIN u : i \in DOMAIN s \/ (u[i].run = 1 /\ u[i].frame = g)
        /\ Paired(s) => Paired(u)
        /\ \A x, y : Joined(s, x, y) => Joined(u, x, y)
    BY 1 \in {0, 1}, QueuedMessages, Zenon
  <2>. QED  BY <1>1, <2>1
<1>3. ASSUME NEW x \in Nat, NEW r, x <= Upto(r, f)
      PROVE  x <= Upto(r, g)
  BY <1>3 DEF Upto
<1>4. \A i \in DOMAIN t : t[i].frame <= Upto(t[i].run, g)
  <2>1. \A i \in DOMAIN s : t[i].frame <= Upto(t[i].run, g)
    BY <1>1, <1>2, <1>3 DEF Message
  <2>2. g <= Upto(1, g)
    BY DEF Upto
  <2>. QED  BY <1>2, <2>1, <2>2
<1>5. ~due => \E r \in {0, 1} : Holds(k, r, Upto(r, g))
  <2>1. k.frame \in Nat
    BY DEF Codec
  <2>2. \A r \in {0, 1} : Holds(k, r, Upto(r, f)) => Holds(k, r, Upto(r, g))
    BY <1>3, <2>1 DEF Holds
  <2>. QED  BY <1>1, <2>2
<1>. QED  BY <1>2, <1>4, <1>5 DEF Strays

LEMMA FrameMeets ==
  ASSUME NEW s \in Seq(Message), NEW k \in Codec, NEW due \in BOOLEAN, NEW r \in {0, 1},
         NEW f \in Nat, NEW g \in Nat, f <= g, NEW stray, Meets(s, k, due, r, f, stray),
         r = 0 => ~due, NEW t, t = Queued(s, r, g)
  PROVE  t \in Seq(Message) /\ Meets(t, k, due, r, g, stray)
<1>1. CASE stray /\ r = 1
  BY <1>1, FrameStrays DEF Meets
<1>2. CASE ~(stray /\ r = 1)
  BY <1>2, FrameFit DEF Meets
<1>. QED  BY <1>1, <1>2

\* A reset: a codec waits for frame 0, and has read nothing if the stream still
\* holds the one of the run before.
LEMMA DueFit ==
  ASSUME NEW s \in Seq(Message), NEW k \in Codec, NEW due \in BOOLEAN, NEW f \in Nat,
         Fit(s, k, due, 0, f), k.data = {} \/ \A i \in DOMAIN s : s[i].frame # 0
  PROVE  /\ Fit(s, k, TRUE, 0, f)
         /\ (\A i \in DOMAIN s : s[i].frame # 0) => \A g \in Nat : Fit(s, k, TRUE, 1, g)
         /\ f <= 1 => \A g \in Nat : Strays(s, k, TRUE, g)
<1>1. Paired(s) /\ Grows(s, k) /\ (\A i \in DOMAIN s : s[i].run = 0) /\ Runs(s, due, 0, f)
      /\ Joined(s, k, due)
  BY DEF Fit
<1>2. Joined(s, k, TRUE)
  <2>1. s # <<>> => 1 \in DOMAIN s
    BY TailMembers
  <2>. QED  BY <1>1, <2>1 DEF Joined
<1>3. /\ Runs(s, TRUE, 0, f)
      /\ (\A i \in DOMAIN s : s[i].frame # 0) => \A g \in Nat : Runs(s, TRUE, 1, g)
  BY <1>1 DEF Runs
<1>4. ASSUME f <= 1, NEW g \in Nat
      PROVE  Strays(s, k, TRUE, g)
  <2>1. \A i \in DOMAIN s : s[i].frame <= Upto(s[i].run, g)
    <3>1. \A i \in DOMAIN s : s[i] \in Message
      OBVIOUS
    <3>2. \A i \in DOMAIN s : s[i].frame \in Nat /\ s[i].frame <= f
      BY <1>1, <3>1 DEF Runs, Message
    <3>. QED  BY <1>1, <1>4, <3>2 DEF Upto
  <2>. QED  BY <1>1, <1>2, <2>1 DEF Strays
<1>. QED  BY <1>1, <1>2, <1>3, <1>4 DEF Fit

\* A stream with nothing in it, and a codec that has dropped its data.
LEMMA EmptyFit ==
  ASSUME NEW r \in {0, 1}, NEW f \in Nat
  PROVE  /\ \A k : Fit(<<>>, k, TRUE, r, f)
         /\ \A due \in BOOLEAN, stray \in BOOLEAN : Meets(<<>>, FreshCodec, due, r, f, stray)
<1>1. Paired(<<>>) /\ \A k, due : Joined(<<>>, k, due) /\ Runs(<<>>, due, r, f) /\ Grows(<<>>, k)
      /\ DOMAIN <<>> = {}
  BY DEF Paired, Joined, Runs, Grows
<1>2. \A q \in {0, 1} : Holds(FreshCodec, q, Upto(q, f)) /\ Holds(FreshCodec, q, f)
  BY DEF Holds, FreshCodec, Upto
<1>3. \A k : Fit(<<>>, k, TRUE, r, f)
  BY <1>1 DEF Fit
<1>4. \A due \in BOOLEAN : Fit(<<>>, FreshCodec, due, r, f) /\ Strays(<<>>, FreshCodec, due, f)
  BY <1>1, <1>2 DEF Fit, Strays
<1>. QED  BY <1>3, <1>4 DEF Meets

\* What VTD writes of a new run after what was left: one frame, and another.
\* v is the stream s, and nothing but messages of the second run after it.
Continues(s, v) ==
    /\ \A i \in DOMAIN s : i \in DOMAIN v /\ v[i] = s[i]
    /\ \A i \in DOMAIN v : v[i].run = 1 \/ (i \in DOMAIN s /\ v[i] = s[i])

LEMMA RestartMeets ==
  ASSUME NEW s \in Seq(Message), NEW k \in Codec, NEW stray, Meets(s, k, TRUE, 1, 0, stray),
         NEW q, q = Queued(s, 1, 0), NEW t, t = Queued(q, 1, 1)
  PROVE  /\ q \in Seq(Message) /\ Meets(q, k, TRUE, 1, 0, stray)
         /\ t \in Seq(Message) /\ Meets(t, k, TRUE, 1, 1, stray)
         /\ Continues(s, q) /\ Continues(s, t)
<1>1. ASSUME NEW x \in Seq(Message), NEW y \in Nat, NEW z \in Nat, y <= z,
             Meets(x, k, TRUE, 1, y, stray)
      PROVE  Queued(x, 1, z) \in Seq(Message) /\ Meets(Queued(x, 1, z), k, TRUE, 1, z, stray)
  <2>1. TRUE \in BOOLEAN /\ 1 \in {0, 1} /\ (1 = 0 => ~TRUE)
    OBVIOUS
  <2>. QED  BY <1>1, <2>1, FrameMeets
<1>2. q \in Seq(Message) /\ Meets(q, k, TRUE, 1, 0, stray)
  BY <1>1, 0 \in Nat /\ 0 <= 0, Zenon
<1>3. t \in Seq(Message) /\ Meets(t, k, TRUE, 1, 1, stray)
  BY <1>1, <1>2, 0 \in Nat /\ 1 \in Nat /\ 0 <= 1, Zenon
<1>4. ASSUME NEW x \in Seq(Message), NEW g \in Nat
      PROVE  LET u == Queued(x, 1, g)
             IN /\ \A i \in DOMAIN x : i \in DOMAIN u /\ u[i] = x[i]
                /\ \A i \in DOMAIN u : u[i].run = 1 \/ (i \in DOMAIN x /\ u[i] = x[i])
  <2>. DEFINE u == Queued(x, 1, g)
  <2>1. /\ \A i \in DOMAIN x : i \in DOMAIN u /\ u[i] = x[i] /\ x[i] \in Message
        /\ \A i \in DOMAIN u : i \in DOMAIN x \/ (u[i].run = 1 /\ u[i].frame = g)
    BY 1 \in {0, 1}, QueuedMessages, Zenon
  <2>. QED  BY <2>1
<1>5. /\ \A i \in DOMAIN q : i \in DOMAIN t /\ t[i] = q[i]
      /\ \A i \in DOMAIN t : t[i].run = 1 \/ (i \in DOMAIN q /\ t[i] = q[i])
  BY <1>2, <1>4, 1 \in Nat, Zenon
<1>6. /\ \A i \in DOMAIN s : i \in DOMAIN q /\ q[i] = s[i]
      /\ \A i \in DOMAIN q : q[i].run = 1 \/ (i \in DOMAIN s /\ q[i] = s[i])
  BY <1>4, 0 \in Nat, Zenon
<1>7. /\ \A i \in DOMAIN s : i \in DOMAIN t /\ t[i] = s[i]
      /\ \A i \in DOMAIN t : t[i].run = 1 \/ (i \in DOMAIN s /\ t[i] = s[i])
  <2>1. ASSUME NEW i \in DOMAIN t
        PROVE  t[i].run = 1 \/ (i \in DOMAIN s /\ t[i] = s[i])
    <3>1. t[i].run = 1 \/ (i \in DOMAIN q /\ t[i] = q[i])
      BY <1>5
    <3>2. i \in DOMAIN q => q[i].run = 1 \/ (i \in DOMAIN s /\ q[i] = s[i])
      BY <1>6
    <3>. QED  BY <3>1, <3>2
  <2>2. \A i \in DOMAIN s : i \in DOMAIN t /\ t[i] = s[i]
    BY <1>5, <1>6, Zenon
  <2>. QED  BY <2>1, <2>2
<1>8. Continues(s, q) /\ Continues(s, t)
  BY <1>6, <1>7, Zenon DEF Continues
<1>. QED  BY <1>2, <1>3, <1>8, Zenon

Dropped(k) == [k EXCEPT !.data = {}, !.restart = TRUE]

LEMMA DropMeets ==
  ASSUME NEW s, NEW k \in Codec, NEW r, NEW f, NEW stray, Meets(s, k, TRUE, r, f, stray)
  PROVE  Meets(s, Dropped(k), TRUE, r, f, stray)
<1>1. Dropped(k).frame = k.frame
  BY DEF Codec, Dropped
<1>. QED  BY <1>1 DEF Meets, Fit, Strays, Joined, Grows

-----------------------------------------------------------------------------
StreamsInv == /\ StreamsTyped /\ Begun /\ Announces /\ Paced /\ Cleared /\ Streams
              /\ Worked /\ OsiTimed

\* The codecs by name.
LEMMA CodecNames ==
  /\ TC \in Codecs /\ Osi \in Codecs /\ TC # Osi /\ Players \subseteq Codecs
  /\ TC \notin Players /\ Osi \notin Players /\ Agents \subseteq Players
BY VtdAssumption DEF Codecs, Players, TC, Osi

\* The open streams are those of the task control, the vehicles and the owner's OSI sensor.
LEMMA ActiveCodecs ==
  ASSUME Typed, StreamsTyped
  PROVE  /\ Active \subseteq Codecs
         /\ TC \in Active <=> taskControl
         /\ Osi \in Active <=> Range(vehicles) \cap osiOwner # {}
         /\ \A p \in Players : p \in Active <=> p \in Range(vehicles)
         /\ Range(vehicles) \subseteq Players
<1>1. Range(vehicles) \subseteq Players
  BY DEF Typed, Range
<1>2. \A c : c \in Active <=> \/ c = TC /\ taskControl
                              \/ \E p \in Range(vehicles) : c = p \/ (c = Osi /\ p \in osiOwner)
  BY DEF Active, SensorsOf, StreamsTyped
<1>. QED  BY <1>1, <1>2, CodecNames

\* What vtd may be.
Vtd == [mode : {"config", "apply", "init", "run"}, frame : Nat, run : {0, 1}]

\* A step that leaves the streams and what is read of them alone.
LEMMA Quiet ==
  ASSUME StreamsInv, UNCHANGED <<phase, sensing, stream, vehicles, taskControl, osiOwner, early>>,
         vtd' \in Vtd, vtd'.frame = vtd.frame, vtd'.run = vtd.run,
         Up' <=> Up, Announces'
  PROVE  StreamsInv'
<1>. USE DEF StreamsInv, sensing, Vtd
<1>1. Active' = Active /\ \A c : Due(c)' = Due(c)
  BY DEF Active, SensorsOf, Due
<1>2. StreamsTyped'
  BY DEF StreamsTyped
<1>3. Begun'
  BY DEF Begun
<1>4. Paced'
  BY DEF Paced, Lost
<1>5. Cleared'
  BY <1>1 DEF Cleared, Unstarted
<1>6. Streams'
  BY <1>1 DEF Streams
<1>7. OsiDone' = OsiDone /\ \A c : Wanting(codec[c])' = Wanting(codec[c])
  BY DEF OsiDone, Wanting
<1>8. Worked'
  <2>1. \A c : Done(c)' = Done(c) /\ Pending(c)' = Pending(c)
    BY <1>7 DEF Done, Pending
  <2>. QED  BY <1>1, <2>1 DEF Worked
<1>9. OsiTimed'
  BY <1>1, <1>7 DEF OsiTimed
<1>. QED  BY <1>2, <1>3, <1>4, <1>5, <1>6, <1>8, <1>9

\* A step that ends the binding.
LEMMA Ends ==
  ASSUME StreamsTyped', phase' \in {"failed", "aborted", "disconnected"}
  PROVE  StreamsInv'
BY DEF StreamsInv, Begun, Announces, Paced, Cleared, Streams, Worked, OsiTimed, Up

LEMMA InitStreams == Init => StreamsInv
<1>. SUFFICES ASSUME Init PROVE StreamsInv
  OBVIOUS
<1>1. FreshCodec \in Codec
  BY DEF FreshCodec, Codec
<1>2. codec \in [Codecs -> Codec] /\ stream \in [Codecs -> Seq(Message)]
  BY <1>1 DEF Init, Silent
<1>3. osiOwner \subseteq Agents /\ \A a, b \in osiOwner : a = b
  BY VtdAssumption DEF Init
<1>4. vtd \in [mode : {"config", "apply", "init", "run"}, frame : Nat, run : {0, 1}]
      /\ vtd.frame = 0 /\ vtd.run = 0
  BY DEF Init
<1>5. StreamsTyped
  <2>1. taskControl \in BOOLEAN /\ step \in Nat /\ received \in Nat /\ todo = <<>>
    BY DEF Init
  <2>2. todo \in Seq(Codecs)
    BY <2>1
  <2>. QED  BY <1>2, <1>3, <1>4, <2>1, <2>2 DEF StreamsTyped, Codec
<1>6. phase = "idle" /\ stage = "paramserver" /\ ~taskControl /\ vehicles = <<>>
      /\ step = 0 /\ nextTime = 0 /\ \A c \in Codecs : codec[c] = FreshCodec
  BY DEF Init
<1>7. ~Up
  BY <1>6 DEF Up
<1>. QED  BY <1>4, <1>5, <1>6, <1>7
          DEF StreamsInv, Begun, Announces, Paced, Cleared, Streams, Worked, OsiTimed

\* Before VTD is asked, and when it is.
LEMMA ClientsStreams ==
  ASSUME VtdInv, StreamsInv, Connect \/ ClientFails \/ ClientConnects \/ Configure
  PROVE  StreamsInv'
<1>. USE DEF StreamsInv
<1>1. ASSUME Connect \/ ClientFails \/ ClientConnects
      PROVE  StreamsInv'
  <2>1. /\ UNCHANGED <<sensing, stream, vtd, vehicles, taskControl, osiOwner>>
        /\ phase \in {"idle", "connect"} /\ ~Up
    BY <1>1 DEF Connect, ClientFails, ClientConnects, world, Up
  <2>2. StreamsTyped'
    BY <2>1 DEF StreamsTyped, sensing
  <2>3. CASE phase' \in {"failed", "aborted"}
    BY <2>2, <2>3, Ends
  <2>4. CASE phase' = "connect" /\ stage' \in {"paramserver", "scp"}
    <3>1. ~Up'
      BY <2>4 DEF Up
    <3>2. Begun'
      BY <2>1, <2>4 DEF Begun, sensing
    <3>. QED  BY <2>2, <2>4, <3>1, <3>2
              DEF Announces, Paced, Cleared, Streams, Worked, OsiTimed
  <2>. QED  BY <1>1, <2>3, <2>4 DEF Connect, ClientFails, ClientConnects, VtdInv, Typed, Told
<1>2. ASSUME Configure
      PROVE  StreamsInv'
  <2>1. /\ UNCHANGED <<sensing, vehicles, taskControl, osiOwner>> /\ stream' = Silent
        /\ phase = "connect" /\ ~Up
    BY <1>2 DEF Configure, Up
  <2>2. vtd' \in [mode : {"config", "apply", "init", "run"}, frame : Nat, run : {0, 1}]
        /\ vtd'.frame = vtd.frame /\ vtd'.run = vtd.run
    BY <1>2 DEF Configure, StreamsTyped
  <2>3. StreamsTyped'
    BY <2>1, <2>2 DEF StreamsTyped, sensing, Silent
  <2>4. CASE abort
    BY <1>2, <2>3, <2>4, Ends DEF Configure
  <2>5. CASE ~abort
    <3>1. phase' = "connect" /\ stage' = "task_control" /\ scp' \in {<<>>, << <<"RDB">> >>}
      BY <1>2, <2>1, <2>5 DEF Configure
    <3>2. ~taskControl /\ vehicles = <<>>
      BY <2>1 DEF Begun
    <3>3. Announces'
      BY <2>1, <3>1, <3>2 DEF Announces
    <3>4. Begun'
      BY <2>1, <2>2, <3>2 DEF Begun, sensing
    <3>5. \A c \in Codecs : stream'[c] = <<>>
      BY <2>1 DEF Silent
    <3>6. Active' = {}
      BY <2>1, <3>2 DEF Active, Range
    <3>7. Streams'
      BY <3>5, <3>6, CodecNames DEF Streams, OsiFit
    <3>8. Cleared'
      BY <3>1 DEF Cleared
    <3>. QED  BY <2>3, <3>1, <3>3, <3>4, <3>6, <3>7, <3>8 DEF Paced, Worked, OsiTimed
  <2>. QED  BY <2>4, <2>5
<1>. QED  BY <1>1, <1>2

\* VTD queues a frame for each open stream, none of which waits for a restart.
LEMMA Emitted ==
  ASSUME Typed, StreamsTyped, Streams, Up, NEW f \in Nat, Emit(f), vtd.frame <= f,
         \A c \in Active \ {Osi} : ~Due(c),
         UNCHANGED <<codec, vehicles, taskControl, osiOwner, early>>,
         vtd'.run = vtd.run, vtd'.frame = f, phase # "reset", phase' # "reset"
  PROVE  /\ stream' \in [Codecs -> Seq(Message)] /\ Streams'
         /\ ~Unstarted /\ f # 0 => ~Unstarted'
         /\ stream[Osi] = <<>> /\ f = 0 => stream'[Osi] = <<>>
<1>. DEFINE r == vtd.run
            a == Part(r, f, 1, {})
            b == Part(r, f, 2, {})
<1>1. PICK form \in OsiForms :
        stream' = [c \in Codecs |-> IF c \in Active THEN stream[c] \o Frame(r, f, c, form)
                                    ELSE stream[c]]
  BY DEF Emit
<1>. DEFINE o == Part(r, f, 1, {form})
<1>2. r \in {0, 1} /\ vtd.frame \in Nat /\ \A c \in Codecs : codec[c] \in Codec /\ stream[c] \in Seq(Message)
  BY DEF StreamsTyped, Codec
<1>3. /\ a \in Message /\ a.frame = f /\ b \in Message /\ b.frame = f
      /\ o \in Message /\ o.frame = f /\ o.part = 1 /\ o.run = r
  BY <1>2 DEF Part, Message
<1>4. Active' = Active /\ Active \subseteq Codecs
  BY ActiveCodecs DEF Active, SensorsOf
<1>5. \A c \in Codecs \ Active : stream'[c] = stream[c]
  BY <1>1
<1>6. \A c \in Active \ {Osi} : stream'[c] = stream[c] \o <<a, b>>
  BY <1>1, <1>4 DEF Frame
<1>7. Osi \in Active => stream'[Osi] = IF f = 0 THEN stream[Osi] \o <<>> ELSE stream[Osi] \o <<o>>
  BY <1>1, <1>4 DEF Frame
<1>. HIDE DEF r, a, b, o
<1>8. \A c \in Active \ {Osi} : /\ stream'[c] \in Seq(Message)
                               /\ Meets(stream'[c], codec[c], Due(c), r, f, c \in early)
                               /\ \A i \in DOMAIN stream'[c] :
                                    \/ i \in DOMAIN stream[c] /\ stream'[c][i] = stream[c][i]
                                    \/ stream'[c][i].frame = f
  <2>1. ASSUME NEW c \in Active \ {Osi}
        PROVE  /\ stream'[c] \in Seq(Message)
               /\ Meets(stream'[c], codec[c], Due(c), r, f, c \in early)
               /\ \A i \in DOMAIN stream'[c] :
                    \/ i \in DOMAIN stream[c] /\ stream'[c][i] = stream[c][i]
                    \/ stream'[c][i].frame = f
    <3>1. /\ stream[c] \in Seq(Message) /\ codec[c] \in Codec /\ Due(c) \in BOOLEAN
          /\ Due(c) = FALSE /\ Meets(stream[c], codec[c], Due(c), r, vtd.frame, c \in early)
      BY <1>2, <1>4, <2>1 DEF Streams, Due, Codec, r
    <3>. DEFINE s == stream[c]
                t == stream'[c]
                k == codec[c]
                stray == c \in early
                due == Due(c)
                e == vtd.frame
    <3>2. /\ s \in Seq(Message) /\ k \in Codec /\ due \in BOOLEAN /\ ~due
          /\ Meets(s, k, due, r, e, stray)
      BY <3>1
    <3>3. t = s \o <<a, b>>
      BY <1>6, <2>1
    <3>. HIDE DEF s, t, k, stray, due
    <3>4. t = Queued(s, r, f)
      BY <3>3 DEF a, b, Queued
    <3>5. t \in Seq(Message) /\ Meets(t, k, due, r, f, stray)
      <4>1. r \in {0, 1} /\ e \in Nat /\ e <= f
        BY <1>2
      <4>. HIDE DEF e
      <4>. QED  BY <3>2, <3>4, <4>1, FrameMeets
    <3>6. /\ DOMAIN s = 1 .. Len(s) /\ DOMAIN t = 1 .. Len(s) + 2 /\ Len(s) \in Nat
          /\ \A i \in DOMAIN s : t[i] = s[i]
          /\ t[Len(s) + 1] = a /\ t[Len(s) + 2] = b
      BY <1>3, <3>2, <3>3, PairMembers
    <3>7. \A i \in DOMAIN t : i \in DOMAIN s \/ i = Len(s) + 1 \/ i = Len(s) + 2
      BY <3>6
    <3>. QED  BY <1>3, <3>1, <3>5, <3>6, <3>7 DEF s, t, k, stray, due
  <2>. QED  BY <2>1
<1>9. Osi \in Active => /\ stream'[Osi] \in Seq(Message)
                        /\ \A i \in DOMAIN stream'[Osi] :
                             \/ i \in DOMAIN stream[Osi] /\ stream'[Osi][i] = stream[Osi][i]
                             \/ f # 0 /\ stream'[Osi][i] = o
                        /\ stream[Osi] = <<>> /\ f = 0 => stream'[Osi] = <<>>
  <2>. SUFFICES ASSUME Osi \in Active
                PROVE  /\ stream'[Osi] \in Seq(Message)
                       /\ \A i \in DOMAIN stream'[Osi] :
                            \/ i \in DOMAIN stream[Osi] /\ stream'[Osi][i] = stream[Osi][i]
                            \/ f # 0 /\ stream'[Osi][i] = o
                       /\ stream[Osi] = <<>> /\ f = 0 => stream'[Osi] = <<>>
    OBVIOUS
  <2>1. stream[Osi] \in Seq(Message)
    BY <1>2, CodecNames
  <2>2. CASE f = 0
    <3>1. stream'[Osi] = stream[Osi]
      BY <1>7, <2>1, <2>2, ConcatEmptySeq
    <3>. QED  BY <2>1, <2>2, <3>1
  <2>3. CASE f # 0
    <3>1. stream'[Osi] = Append(stream[Osi], o)
      BY <1>3, <1>7, <2>1, <2>3
    <3>. QED  BY <1>3, <2>1, <2>3, <3>1
  <2>. QED  BY <2>2, <2>3
<1>10. stream' \in [Codecs -> Seq(Message)]
  <2>1. \A c \in Codecs : stream'[c] \in Seq(Message)
    BY <1>2, <1>5, <1>8, <1>9
  <2>2. stream' = [c \in Codecs |-> stream'[c]]
    BY <1>1
  <2>. QED  BY <2>1, <2>2
<1>11. \A c : Due(c)' = Due(c)
  BY DEF Due
<1>12. OsiFit(stream'[Osi], Due(Osi), r, f)
  <2>1. OsiFit(stream[Osi], Due(Osi), r, vtd.frame)
    BY DEF Streams, r
  <2>2. CASE Osi \in Active
    <3>1. ASSUME NEW i \in DOMAIN stream'[Osi]
          PROVE  /\ stream'[Osi][i].part = 1 /\ stream'[Osi][i].frame >= 1
                 /\ ~Due(Osi) => stream'[Osi][i].run = r /\ stream'[Osi][i].frame <= f
      <4>1. CASE i \in DOMAIN stream[Osi] /\ stream'[Osi][i] = stream[Osi][i]
        <5>1. stream[Osi] \in Seq(Message) /\ i \in DOMAIN stream[Osi]
          BY <1>2, <4>1, CodecNames
        <5>2. stream[Osi][i] \in Message
          BY <5>1
        <5>3. stream[Osi][i].frame \in Nat
          BY <5>2 DEF Message
        <5>. QED  BY <1>2, <2>1, <4>1, <5>3 DEF OsiFit
      <4>2. CASE f # 0 /\ stream'[Osi][i] = o
        BY <1>3, <4>2
      <4>. QED  BY <1>9, <2>2, <4>1, <4>2
    <3>. QED  BY <3>1 DEF OsiFit
  <2>3. CASE Osi \notin Active
    <3>1. stream'[Osi] = <<>>
      BY <1>5, <2>3, CodecNames DEF Streams
    <3>. QED  BY <3>1 DEF OsiFit
  <2>. QED  BY <2>2, <2>3
<1>13. Streams'
  BY <1>4, <1>5, <1>8, <1>11, <1>12 DEF Streams, r
<1>14. ~Unstarted /\ f # 0 => ~Unstarted'
  BY <1>4, <1>8 DEF Unstarted
<1>15. stream[Osi] = <<>> /\ f = 0 => stream'[Osi] = <<>>
  BY <1>5, <1>9, CodecNames
<1>. QED  BY <1>10, <1>13, <1>14, <1>15

-----------------------------------------------------------------------------
(* connect(): the waits.                                                   *)

\* A step that changes none of what the parts speak of.
LEMMA TypedOn ==
  ASSUME StreamsTyped, UNCHANGED <<sensing, stream, vtd, taskControl, osiOwner>>
  PROVE  StreamsTyped' /\ vtd' \in Vtd
BY DEF StreamsTyped, sensing, Vtd

\* Once connect() has returned the task control stream is open, and not announced again.
LEMMA Running ==
  ASSUME Typed, StreamsTyped, Announces, phase \in {"ready", "process", "sensors", "stopped", "reset"}
  PROVE  taskControl /\ TC \in Active /\ Up /\ \A i \in DOMAIN scp : scp[i] # <<"RDB">>
BY ActiveCodecs DEF Announces, Up

\* Answers without RDB announce nothing.
LEMMA Unannounced ==
  ASSUME scp \in Seq(Messages), \A i \in DOMAIN scp : scp[i] # <<"RDB">>,
         NEW ms \in Seq(Messages \ {<<"RDB">>}), scp' = scp \/ scp' = scp \o ms
  PROVE  \A i \in DOMAIN scp' : scp'[i] # <<"RDB">>
<1>. DEFINE Rest == Messages \ {<<"RDB">>}
<1>1. \A i \in DOMAIN scp : scp[i] \in Rest
  OBVIOUS
<1>. HIDE DEF Rest
<1>2. scp \in Seq(Rest)
  BY <1>1
<1>3. ms \in Seq(Rest)
  BY DEF Rest
<1>4. scp' \in Seq(Rest)
  BY <1>2, <1>3, ConcatProperties
<1>5. \A i \in DOMAIN scp' : scp'[i] \in Rest
  BY <1>4
<1>. QED  BY <1>5 DEF Rest

\* Streams and codecs are as they were, and so is what they must fit.
LEMMA Unread ==
  ASSUME Streams, UNCHANGED <<codec, stream, vehicles, taskControl, osiOwner, early>>,
         vtd'.frame = vtd.frame, vtd'.run = vtd.run, Up,
         phase # "reset", phase' # "reset"
  PROVE  Streams'
<1>1. Active' = Active /\ \A c : Due(c)' = Due(c)
  BY DEF Active, SensorsOf, Due
<1>. QED  BY <1>1 DEF Streams

\* The end of a wait.  With the vehicles, VTD comes up and shows its frame 0.
LEMMA AdvanceStreams ==
  ASSUME VtdInv, StreamsInv, Advance
  PROVE  StreamsInv'
<1>. USE DEF StreamsInv
<1>1. /\ UNCHANGED <<phase, sensing, vehicles, taskControl, osiOwner, early>> /\ phase = "connect"
      /\ stage \in {"task_control", "scenario", "agents", "vehicles", "init_done"}
      /\ stage' = StageAfter(stage)
  BY DEF Advance, Arrived, VtdInv, Typed
<1>2. Up /\ Up' /\ stage' # "task_control"
  BY <1>1, StagesInOrder DEF Up
<1>3. taskControl /\ \A i \in DOMAIN scp : scp[i] # <<"RDB">>
  BY <1>1, <1>2 DEF Announces, Advance, Arrived
<1>4. Announces'
  <2>1. /\ <<"Scenario">> \in Messages \ {<<"RDB">>} /\ <<"InitDone">> \in Messages \ {<<"RDB">>}
        /\ <<"Run">> \in Messages \ {<<"RDB">>}
    BY DEF Messages, Words
  <2>2. <<"LoadScenario", scenario>> \in Messages \ {<<"RDB">>}
    BY DEF Messages, VtdInv, Typed
  <2>3. \E ms \in Seq(Messages \ {<<"RDB">>}) : scp' = scp \/ scp' = scp \o ms
    <3>1. CASE stage = "scenario"
      <4>1. Answer(<< <<"Scenario">> >>) /\ << <<"Scenario">> >> \in Seq(Messages \ {<<"RDB">>})
        BY <2>1, <3>1 DEF Advance
      <4>. QED  BY <4>1 DEF Answer
    <3>2. CASE stage = "agents" /\ ~broken
      <4>. DEFINE ms == << <<"LoadScenario", scenario>> >>
                  sets == [i \in DOMAIN SetToSeq(Agents) |-> <<"Set", SetToSeq(Agents)[i]>>]
      <4>1. ms \in Seq(Messages \ {<<"RDB">>})
        BY <2>2
      <4>2. sets \in Seq(Messages \ {<<"RDB">>})
        <5>1. sets \in Seq(Messages)
          BY Announced
        <5>2. \A i \in DOMAIN sets : sets[i] # <<"RDB">>
          OBVIOUS
        <5>. HIDE DEF sets
        <5>. QED  BY <5>1, <5>2
      <4>3. Answer(ms \o sets)
        BY <3>2 DEF Advance
      <4>. HIDE DEF ms, sets
      <4>4. ms \o sets \in Seq(Messages \ {<<"RDB">>})
        BY <4>1, <4>2, ConcatProperties
      <4>. QED  BY <4>3, <4>4 DEF Answer
    <3>3. CASE stage = "vehicles" /\ ~broken
      <4>1. /\ Answer(<< <<"InitDone">>, <<"Run">> >>)
            /\ << <<"InitDone">>, <<"Run">> >> \in Seq(Messages \ {<<"RDB">>})
        BY <2>1, <3>3 DEF Advance
      <4>. QED  BY <4>1 DEF Answer
    <3>4. CASE stage \notin {"scenario"} /\ ~(stage \in {"agents", "vehicles"} /\ ~broken)
      <4>1. scp' = scp /\ <<>> \in Seq(Messages \ {<<"RDB">>})
        BY <3>4 DEF Advance
      <4>. QED  BY <4>1
    <3>. QED  BY <1>1, <3>1, <3>2, <3>3, <3>4
  <2>4. \A i \in DOMAIN scp' : scp'[i] # <<"RDB">>
    BY <1>3, <2>3, Unannounced DEF VtdInv, Typed
  <2>. QED  BY <1>1, <1>3, <2>4 DEF Announces
<1>5. CASE stage = "vehicles" /\ ~broken
  <2>1. vtd' = [vtd EXCEPT !.mode = "run", !.frame = 0] /\ Emit(0)
    BY <1>5 DEF Advance
  <2>2. /\ vtd.run = 0 /\ vtd.frame = 0 /\ \A c \in Codecs : codec[c].restart = FALSE
        /\ codec[TC].frame = 0
    BY <1>1, CodecNames DEF Begun, FreshCodec
  <2>3. vtd' \in Vtd /\ vtd'.run = vtd.run /\ vtd'.frame = 0
    BY <2>1 DEF StreamsTyped, Vtd
  <2>4. \A c \in Active \ {Osi} : ~Due(c)
    BY <1>1, <2>2, ActiveCodecs DEF Due, VtdInv
  <2>5. stream' \in [Codecs -> Seq(Message)] /\ Streams'
    BY <1>1, <1>2, <2>1, <2>2, <2>3, <2>4, Emitted DEF VtdInv, sensing
  <2>6. StreamsTyped'
    BY <1>1, <2>3, <2>5 DEF StreamsTyped, sensing, Vtd
  <2>7. Begun'
    BY <1>1, <1>2, <2>2, <2>3 DEF Begun, sensing
  <2>. QED  BY <1>1, <1>4, <2>5, <2>6, <2>7 DEF Paced, Cleared, Worked, OsiTimed
<1>6. CASE ~(stage = "vehicles" /\ ~broken)
  <2>1. UNCHANGED stream /\ (UNCHANGED vtd \/ vtd' = [vtd EXCEPT !.mode = "init"])
    BY <1>1, <1>6 DEF Advance
  <2>2. vtd' \in Vtd /\ vtd'.frame = vtd.frame /\ vtd'.run = vtd.run
    BY <2>1 DEF StreamsTyped, Vtd
  <2>. QED  BY <1>1, <1>2, <1>4, <2>1, <2>2, Quiet
<1>. QED  BY <1>5, <1>6

\* A wait that goes on or gives up, and the trigger of frame 1.
LEMMA WaitsStreams ==
  ASSUME VtdInv, StreamsInv, Checkpoint \/ Poll \/ Tick \/ Connected
  PROVE  StreamsInv'
<1>. USE DEF StreamsInv
<1>1. ASSUME Checkpoint \/ Poll \/ Tick
      PROVE  StreamsInv'
  <2>1. /\ UNCHANGED <<stage, sensing, stream, scp, vtd, vehicles, taskControl, osiOwner, early>>
        /\ phase = "connect" /\ phase' \in {"connect", "failed", "aborted"}
    BY <1>1 DEF Checkpoint, Poll, Tick, world
  <2>2. StreamsTyped' /\ vtd' \in Vtd
    BY <2>1, TypedOn
  <2>3. CASE phase' = "connect"
    <3>1. Announces' /\ (Up' <=> Up)
      BY <2>1, <2>3 DEF Announces, Up
    <3>. QED  BY <2>1, <2>2, <2>3, <3>1, Quiet
  <2>. QED  BY <2>1, <2>2, <2>3, Ends
<1>2. ASSUME Connected
      PROVE  StreamsInv'
  <2>0. CASE phase' = "failed"
    BY <1>2, <2>0, TypedOn, Ends DEF Connected
  <2>. SUFFICES ASSUME phase' # "failed" PROVE StreamsInv'
    BY <2>0
  <2>1. /\ UNCHANGED <<sensing, scp, vehicles, taskControl, osiOwner, early>>
        /\ phase = "connect" /\ stage = "operational" /\ phase' = "ready"
        /\ vtd' = [vtd EXCEPT !.frame = @ + 1] /\ Emit(vtd.frame + 1)
    BY <1>2 DEF Connected
  <2>2. Up /\ Up'
    BY <2>1 DEF Up
  <2>3. /\ vtd.run = 0 /\ vtd.frame = 0 /\ step = 0 /\ nextTime = 0
        /\ \A c \in Codecs : codec[c].restart = FALSE /\ codec[c].frame = 0
    BY <2>1 DEF Begun, FreshCodec
  <2>4. vtd' \in Vtd /\ vtd'.run = vtd.run /\ vtd'.frame = 1 /\ Emit(1)
    BY <2>1, <2>3 DEF StreamsTyped, Vtd
  <2>5. \A c \in Active \ {Osi} : ~Due(c)
    BY <2>1, <2>3, ActiveCodecs DEF Due, VtdInv
  <2>6. stream' \in [Codecs -> Seq(Message)] /\ Streams'
    BY <2>1, <2>2, <2>3, <2>4, <2>5, Emitted DEF VtdInv, sensing
  <2>7. StreamsTyped'
    BY <2>1, <2>4, <2>6 DEF StreamsTyped, sensing, Vtd
  <2>8. Cleared'
    <3>1. Active' = Active /\ \A c \in Active : c \in Codecs /\ codec'[c].data = {}
      BY <2>1, ActiveCodecs DEF Active, SensorsOf, Begun, FreshCodec, VtdInv, sensing
    <3>. QED  BY <2>4, <3>1 DEF Cleared
  <2>9. Announces'
    BY <2>1, <2>2 DEF Announces
  <2>10. Paced' /\ OsiTimed'
    BY <2>1, <2>3, <2>4 DEF Paced, OsiTimed, sensing
  <2>. QED  BY <2>1, <2>6, <2>7, <2>8, <2>9, <2>10 DEF Begun, Worked
<1>. QED  BY <1>1, <1>2

-----------------------------------------------------------------------------
(* SCP messages, and what they open.                                       *)

\* A message opens streams only to codecs that had none: what is in the other
\* streams, and what has been read of them, stays.
LEMMA Opened ==
  ASSUME Typed, StreamsTyped, Announces, Streams, Up, scp # <<>>, UNCHANGED <<osiOwner, stream>>,
         Apply(Head(scp))
  PROVE  /\ Active \subseteq Active' /\ Active' \subseteq Codecs
         /\ \A c \in Active : codec'[c] = codec[c]
         /\ \A c \in Active' \ Active : codec'[c] = FreshCodec
         /\ \A c \in Codecs : codec'[c] \in {codec[c], FreshCodec}
         /\ \A c \in Codecs \ Active : stream[c] = <<>>
         /\ Osi \in Active => nextTime' = nextTime
         /\ nextTime' \in {nextTime, 0}
<1>. DEFINE m == Head(scp)
<1>1. /\ m[1] = "Set" => m[2] \in Players
      /\ m \in Messages /\ m = scp[1] /\ 1 \in DOMAIN scp
  BY NextMessage DEF Typed
<1>2. m[1] = "RDB" => ~taskControl /\ vehicles = <<>>
  <2>1. m[1] = "RDB" => m = <<"RDB">>
    BY <1>1 DEF Messages, Words
  <2>. QED  BY <1>1, <2>1 DEF Announces
<1>0. Apply(m)
  OBVIOUS
<1>. HIDE DEF m
<1>3. Creates(m) => m[2] \in Players /\ m[2] \notin Range(vehicles)
  BY <1>1 DEF Creates
<1>4. /\ taskControl' = (taskControl \/ m[1] = "RDB")
      /\ vehicles' = IF Creates(m) THEN Append(vehicles, m[2]) ELSE vehicles
      /\ codec' = [c \in Codecs |->
                     IF \/ Creates(m) /\ c \in SensorsOf(m[2])
                        \/ m[1] = "RDB" /\ c = TC
                       THEN FreshCodec ELSE codec[c]]
      /\ nextTime' = IF Creates(m) /\ m[2] \in osiOwner THEN 0 ELSE nextTime
  <2>1. taskControl' = (taskControl \/ m[1] = "RDB")
    BY <1>0 DEF Apply
  <2>2. vehicles' = IF Creates(m) THEN Append(vehicles, m[2]) ELSE vehicles
    BY <1>0 DEF Apply
  <2>3. codec' = [c \in Codecs |->
                    IF \/ Creates(m) /\ c \in SensorsOf(m[2])
                       \/ m[1] = "RDB" /\ c = TC
                      THEN FreshCodec ELSE codec[c]]
    BY <1>0 DEF Apply
  <2>4. nextTime' = IF Creates(m) /\ m[2] \in osiOwner THEN 0 ELSE nextTime
    BY <1>0 DEF Apply
  <2>. QED  BY <2>1, <2>2, <2>3, <2>4
<1>5. Range(vehicles') = Range(vehicles) \cup (IF Creates(m) THEN {m[2]} ELSE {})
  <2>1. vehicles \in Seq(Players)
    BY DEF Typed
  <2>2. CASE Creates(m)
    <3>1. /\ vehicles' = Append(vehicles, m[2]) /\ Len(vehicles) \in Nat
          /\ DOMAIN vehicles = 1 .. Len(vehicles)
          /\ DOMAIN vehicles' = 1 .. Len(vehicles) + 1
          /\ \A i \in DOMAIN vehicles : vehicles'[i] = vehicles[i]
          /\ vehicles'[Len(vehicles) + 1] = m[2]
      BY <1>3, <1>4, <2>1, <2>2
    <3>2. \A i \in DOMAIN vehicles' : i \in DOMAIN vehicles \/ i = Len(vehicles) + 1
      BY <3>1
    <3>3. Len(vehicles) + 1 \in DOMAIN vehicles' /\ DOMAIN vehicles \subseteq DOMAIN vehicles'
      BY <3>1
    <3>4. \A p : p \in Range(vehicles') <=> p \in Range(vehicles) \/ p = m[2]
      BY <3>1, <3>2, <3>3 DEF Range
    <3>. QED  BY <2>2, <3>4
  <2>3. CASE ~Creates(m)
    BY <1>4, <2>3
  <2>. QED  BY <2>2, <2>3
<1>6. \A c : c \in Active' <=> \/ c \in Active
                               \/ m[1] = "RDB" /\ c = TC
                               \/ Creates(m) /\ c \in SensorsOf(m[2])
  <2>1. \A c : c \in Active <=> \/ c = TC /\ taskControl
                                \/ \E p \in Range(vehicles) : c \in SensorsOf(p)
    BY DEF Active, StreamsTyped
  <2>2. \A p : SensorsOf(p)' = SensorsOf(p)
    BY DEF SensorsOf
  <2>3. \A c : c \in Active' <=> \/ c = TC /\ taskControl'
                                 \/ \E p \in Range(vehicles') : c \in SensorsOf(p)
    <3>1. Active' = (IF taskControl' THEN {TC} ELSE {}) \cup UNION {SensorsOf(p) : p \in Range(vehicles')}
      BY <2>2 DEF Active
    <3>2. taskControl' \in BOOLEAN
      BY <1>4
    <3>. QED  BY <3>1, <3>2
  <2>4. taskControl' <=> taskControl \/ m[1] = "RDB"
    BY <1>4
  <2>5. ASSUME NEW c
        PROVE  (\E p \in Range(vehicles') : c \in SensorsOf(p))
                 <=> \/ \E p \in Range(vehicles) : c \in SensorsOf(p)
                     \/ Creates(m) /\ c \in SensorsOf(m[2])
    BY <1>5
  <2>. QED  BY <2>1, <2>3, <2>4, <2>5
<1>7. /\ Active \subseteq Codecs
      /\ (TC \in Active <=> taskControl)
      /\ (Osi \in Active <=> Range(vehicles) \cap osiOwner # {})
      /\ \A p \in Players : p \in Active <=> p \in Range(vehicles)
  BY ActiveCodecs
<1>8. Creates(m) => SensorsOf(m[2]) \cap Active = {} /\ SensorsOf(m[2]) \subseteq Codecs
  <2>. SUFFICES ASSUME Creates(m) PROVE SensorsOf(m[2]) \cap Active = {} /\ SensorsOf(m[2]) \subseteq Codecs
    OBVIOUS
  <2>1. m[2] \in Players /\ m[2] \notin Active /\ m[2] \in Codecs
    BY <1>3, <1>7, CodecNames
  <2>2. m[2] \in osiOwner => Osi \notin Active
    BY <1>3, <1>7 DEF StreamsTyped
  <2>. QED  BY <2>1, <2>2, CodecNames DEF SensorsOf
<1>9. m[1] = "RDB" => TC \notin Active
  BY <1>2, <1>7
<1>10. \A c \in Active : codec'[c] = codec[c]
  BY <1>4, <1>7, <1>8, <1>9
<1>11. \A c \in Active' \ Active : c \in Codecs /\ codec'[c] = FreshCodec
  <2>. SUFFICES ASSUME NEW c \in Active' \ Active PROVE c \in Codecs /\ codec'[c] = FreshCodec
    OBVIOUS
  <2>1. (m[1] = "RDB" /\ c = TC) \/ (Creates(m) /\ c \in SensorsOf(m[2]))
    BY <1>6
  <2>2. c \in Codecs
    BY <1>8, <2>1, CodecNames
  <2>. QED  BY <1>4, <2>1, <2>2
<1>12. \A c \in Codecs : codec'[c] \in {codec[c], FreshCodec}
  BY <1>4
<1>13. Osi \in Active => nextTime' = nextTime
  BY <1>4, <1>3, <1>7 DEF StreamsTyped
<1>14. \A c \in Codecs \ Active : stream[c] = <<>>
  BY DEF Streams
<1>15. Active \subseteq Active' /\ Active' \subseteq Codecs
  <2>1. Active \subseteq Active'
    BY <1>6
  <2>2. \A c \in Active' : c \in Codecs
    BY <1>7, <1>11
  <2>. QED  BY <2>1, <2>2
<1>16. nextTime' \in {nextTime, 0}
  BY <1>4
<1>. QED  BY <1>10, <1>11, <1>12, <1>13, <1>14, <1>15, <1>16

\* A message is applied, or refused.
LEMMA ReadScpStreams ==
  ASSUME VtdInv, StreamsInv, ReadScp
  PROVE  StreamsInv'
<1>. USE DEF StreamsInv
<1>1. /\ UNCHANGED <<stage, step, todo, received, stream, vtd, osiOwner, early>>
      /\ scp # <<>> /\ phase \in {"connect", "process", "reset"} /\ Up
  BY DEF ReadScp, Reading, Up, VtdInv, Told, waiting
<1>2. CASE abort \/ Refused(Head(scp))
  <2>1. UNCHANGED <<codec, nextTime, taskControl>> /\ phase' \in {"failed", "aborted"}
    BY <1>2 DEF ReadScp
  <2>. QED  BY <1>1, <2>1, TypedOn, Ends DEF sensing
<1>3. CASE ~abort /\ ~Refused(Head(scp))
  <2>. DEFINE m == Head(scp)
  <2>1. Apply(m) /\ scp' = Tail(scp) /\ phase' = phase
    BY <1>3 DEF ReadScp
  <2>2. /\ Active \subseteq Active' /\ Active' \subseteq Codecs
        /\ \A c \in Active : codec'[c] = codec[c]
        /\ \A c \in Active' \ Active : codec'[c] = FreshCodec
        /\ \A c \in Codecs : codec'[c] \in {codec[c], FreshCodec}
        /\ \A c \in Codecs \ Active : stream[c] = <<>>
        /\ Osi \in Active => nextTime' = nextTime
        /\ nextTime' \in {nextTime, 0}
    BY <1>1, <2>1, Opened DEF VtdInv
  <2>3. Up'
    BY <1>1, <2>1 DEF Up
  <2>4. /\ scp \in Seq(Messages) /\ Len(scp) \in Nat /\ 1 \in DOMAIN scp /\ m = scp[1]
        /\ \A i \in DOMAIN scp' : i \in Nat /\ i >= 1 /\ i + 1 \in DOMAIN scp /\ scp'[i] = scp[i + 1]
    BY <1>1, <2>1 DEF VtdInv, Typed
  <2>5. taskControl' = (taskControl \/ m[1] = "RDB") /\ (m[1] # "RDB" => m # <<"RDB">>)
    BY <2>1 DEF Apply
  <2>6. ~taskControl => vehicles' = vehicles
    BY <2>1 DEF Apply, Creates
  <2>. HIDE DEF m
  <2>7. FreshCodec \in Codec
    BY DEF FreshCodec, Codec
  <2>8. codec' \in [Codecs -> Codec]
    <3>1. codec' = [c \in Codecs |-> codec'[c]]
      BY <2>1 DEF Apply
    <3>2. \A c \in Codecs : codec[c] \in Codec
      BY DEF StreamsTyped, Codec
    <3>3. \A c \in Codecs : codec'[c] \in Codec
      BY <2>2, <2>7, <3>2
    <3>. QED  BY <3>1, <3>3
  <2>9. StreamsTyped'
    <3>1. taskControl' \in BOOLEAN
      BY <2>5
    <3>. QED  BY <1>1, <2>8, <3>1 DEF StreamsTyped, Codec
  <2>10. Begun'
    <3>1. phase = "connect" => nextTime' = 0 /\ \A c \in Codecs : codec'[c] = FreshCodec
      BY <2>2 DEF Begun
    <3>. QED  BY <1>1, <2>1, <2>3, <3>1 DEF Begun
  <2>11. Announces'
    <3>1. CASE taskControl
      BY <1>1, <2>4, <2>5, <3>1 DEF Announces
    <3>2. CASE ~taskControl
      <4>1. /\ phase = "connect" /\ stage = "task_control" /\ vehicles' = <<>>
            /\ \A i \in DOMAIN scp : i > 1 => scp[i] # <<"RDB">>
        BY <1>1, <2>6, <3>2 DEF Announces
      <4>2. \A i \in DOMAIN scp' : scp'[i] # <<"RDB">>
        BY <2>4, <4>1
      <4>. QED  BY <1>1, <2>1, <4>1, <4>2 DEF Announces
    <3>. QED  BY <3>1, <3>2
  <2>12. phase # "connect" => TC \in Active /\ codec'[TC] = codec[TC]
    <3>1. phase # "connect" => taskControl
      BY <1>1 DEF Announces
    <3>. QED  BY <2>2, <3>1, ActiveCodecs DEF VtdInv
  <2>13. Paced'
    BY <1>1, <2>1, <2>12 DEF Paced, Lost
  <2>14. Cleared'
    <3>1. Unstarted' => Unstarted
      BY <1>1, <2>2 DEF Unstarted
    <3>2. \A c \in Active' : codec'[c] = FreshCodec \/ (c \in Active /\ codec'[c] = codec[c])
      BY <2>2
    <3>. QED  BY <1>1, <2>1, <3>1, <3>2 DEF Cleared, FreshCodec
  <2>15. \A c \in Active : Due(c)' = Due(c)
    BY <2>1, <2>2 DEF Due
  <2>16. Streams'
    <3>1. \A c \in Codecs \ Active' : stream'[c] = <<>>
      BY <1>1, <2>2
    <3>2. ASSUME NEW c \in Active' \ {Osi}
          PROVE  Meets(stream[c], codec'[c], Due(c)', vtd.run, vtd.frame, c \in early)
      <4>1. CASE c \in Active
        BY <1>1, <2>2, <2>15, <3>2, <4>1 DEF Streams
      <4>2. CASE c \notin Active
        <5>1. stream[c] = <<>> /\ codec'[c] = FreshCodec
          BY <2>2, <3>2, <4>2
        <5>2. Due(c)' \in BOOLEAN
          BY <5>1 DEF Due, FreshCodec
        <5>3. vtd.run \in {0, 1} /\ vtd.frame \in Nat
          BY DEF StreamsTyped
        <5>. DEFINE due == Due(c)'
                    stray == c \in early
                    r == vtd.run
                    f == vtd.frame
        <5>4. due \in BOOLEAN /\ stray \in BOOLEAN /\ r \in {0, 1} /\ f \in Nat
          BY <5>2, <5>3
        <5>. HIDE DEF due, stray, r, f
        <5>5. Meets(<<>>, FreshCodec, due, r, f, stray)
          BY <5>4, EmptyFit
        <5>. QED  BY <5>1, <5>5, Zenon DEF due, stray, r, f
      <4>. QED  BY <4>1, <4>2
    <3>3. OsiFit(stream[Osi], Due(Osi)', vtd.run, vtd.frame)
      <4>1. CASE Osi \in Active
        BY <1>1, <2>15, <4>1 DEF Streams
      <4>2. CASE Osi \notin Active
        BY <2>2, <4>2, CodecNames DEF OsiFit
      <4>. QED  BY <4>1, <4>2
    <3>. QED  BY <1>1, <3>1, <3>2, <3>3 DEF Streams
  <2>17. OsiTimed'
    <3>1. CASE Osi \in Active
      BY <1>1, <2>1, <2>2, <2>15, <3>1 DEF OsiTimed
    <3>2. CASE Osi \notin Active
      BY <1>1, <2>1, <2>2, <3>2, CodecNames DEF OsiTimed
    <3>. QED  BY <3>1, <3>2
  <2>. QED  BY <1>1, <2>1, <2>9, <2>10, <2>11, <2>13, <2>14, <2>16, <2>17 DEF Worked
<1>. QED  BY <1>2, <1>3

\* A failure ends the binding, or begins another attempt without streams.
LEMMA FailuresStreams ==
  ASSUME VtdInv, StreamsInv, StreamFails \/ ReadFails
  PROVE  StreamsInv'
<1>. USE DEF StreamsInv
<1>1. ASSUME StreamFails
      PROVE  StreamsInv'
  BY <1>1, TypedOn, Ends DEF StreamFails
<1>2. ASSUME ReadFails
      PROVE  StreamsInv'
  <2>1. /\ UNCHANGED <<sensing, stream, vtd, osiOwner>>
        /\ taskControl' \in {taskControl, FALSE}
    BY <1>2 DEF ReadFails, world
  <2>2. StreamsTyped'
    BY <2>1 DEF StreamsTyped, sensing
  <2>3. CASE phase' = "failed"
    BY <2>2, <2>3, Ends
  <2>4. CASE phase' # "failed"
    <3>1. /\ phase = "connect" /\ phase' = "connect" /\ stage' = "paramserver"
          /\ vehicles' = <<>> /\ ~taskControl'
      BY <1>2, <2>4 DEF ReadFails
    <3>2. ~Up'
      BY <3>1 DEF Up
    <3>3. Begun'
      BY <2>1, <3>1 DEF Begun, sensing
    <3>. QED  BY <2>2, <3>1, <3>2, <3>3
              DEF Announces, Paced, Cleared, Streams, Worked, OsiTimed
  <2>. QED  BY <2>3, <2>4
<1>. QED  BY <1>1, <1>2

-----------------------------------------------------------------------------
(* A step of the sensors.                                                  *)

\* A step begins, and SCP is read.
LEMMA ProcessStreams ==
  ASSUME VtdInv, StreamsInv, Process \/ ScpRead
  PROVE  StreamsInv'
<1>. USE DEF StreamsInv
<1>1. /\ UNCHANGED <<scp, codec, stream, vtd, received, nextTime, taskControl, vehicles, osiOwner,
                     early>>
      /\ phase \in {"ready", "process"} /\ phase' \in {"process", "sensors", "stopped"}
  BY DEF Process, ScpRead, world
<1>2. taskControl /\ TC \in Active /\ Up /\ \A i \in DOMAIN scp : scp[i] # <<"RDB">>
  BY <1>1, Running DEF VtdInv
<1>3. Up' /\ Announces' /\ Begun'
  BY <1>1, <1>2 DEF Up, Announces, Begun
<1>4. Streams'
  BY <1>1, <1>2, Unread
<1>5. Active' = Active /\ (Due(Osi)' <=> Due(Osi))
  BY <1>1 DEF Active, SensorsOf, Due
<1>6. Cleared'
  BY <1>1, <1>5 DEF Cleared, Unstarted
<1>7. CASE Process
  <2>1. phase = "ready" /\ phase' = "process" /\ step' = step + 1 /\ UNCHANGED todo
    BY <1>7 DEF Process
  <2>2. StreamsTyped'
    BY <1>1, <2>1 DEF StreamsTyped
  <2>3. Paced'
    BY <1>1, <2>1 DEF Paced, Lost, StreamsTyped
  <2>4. OsiTimed'
    BY <1>1, <1>5, <2>1 DEF OsiTimed, StreamsTyped
  <2>. QED  BY <1>3, <1>4, <1>6, <2>1, <2>2, <2>3, <2>4 DEF Worked
<1>8. CASE ScpRead
  <2>1. /\ phase = "process" /\ UNCHANGED step
        /\ \/ phase' = "sensors" /\ todo' = <<TC>> \o vehicles
           \/ phase' = "stopped" /\ UNCHANGED todo
    BY <1>8 DEF ScpRead
  <2>2. ASSUME todo' = <<TC>> \o vehicles
        PROVE  todo' \in Seq(Codecs) /\ Range(todo') = {TC} \cup Range(vehicles)
    <3>1. vehicles \in Seq(Codecs) /\ <<TC>> \in Seq(Codecs) /\ <<TC>>[1] = TC /\ Len(<<TC>>) = 1
      BY CodecNames DEF VtdInv, Typed
    <3>. DEFINE q == <<TC>>
    <3>2. q \in Seq(Codecs) /\ Range(q) = {TC}
      BY <3>1 DEF Range
    <3>3. todo' = q \o vehicles
      BY <2>2
    <3>. HIDE DEF q
    <3>4. todo' \in Seq(Codecs) /\ Range(todo') = Range(q) \cup Range(vehicles)
      BY <3>1, <3>2, <3>3, ConcatProperties, RangeConcatenation
    <3>. QED  BY <3>2, <3>4
  <2>3. StreamsTyped'
    BY <1>1, <2>1, <2>2 DEF StreamsTyped
  <2>4. Worked'
    <3>. SUFFICES ASSUME phase' = "sensors"
                  PROVE  /\ Range(todo') \subseteq Active
                         /\ \A c \in Active : Pending(c)'
      BY <1>5 DEF Worked
    <3>1. Range(todo') = {TC} \cup Range(vehicles)
      BY <2>1, <2>2
    <3>2. Range(vehicles) \subseteq Active
      BY ActiveCodecs DEF VtdInv
    <3>3. ASSUME NEW c \in Active
          PROVE  Pending(c)'
      <4>1. c \in Range(todo') \/ (c = Osi /\ Range(vehicles) \cap osiOwner # {})
        BY <3>1, ActiveCodecs DEF VtdInv, Codecs
      <4>. QED  BY <1>1, <3>1, <4>1 DEF Pending
    <3>. QED  BY <1>2, <3>1, <3>2, <3>3
  <2>5. Paced'
    BY <1>1, <2>1 DEF Paced, Lost
  <2>6. OsiTimed'
    BY <1>1, <1>5, <2>1 DEF OsiTimed
  <2>. QED  BY <1>3, <1>4, <1>6, <2>3, <2>4, <2>5, <2>6
<1>. QED  BY <1>7, <1>8

\* What is left to do after the codec at hand.
LEMMA TodoParts ==
  ASSUME StreamsTyped, todo # <<>>
  PROVE  /\ Tail(todo) \in Seq(Codecs) /\ Head(todo) \in Codecs
         /\ Range(todo) = {Head(todo)} \cup Range(Tail(todo))
         /\ NextTodo \in Seq(Codecs)
         /\ Range(NextTodo) = Range(Tail(todo)) \cup (IF Head(todo) \in osiOwner THEN {Osi} ELSE {})
<1>1. /\ todo \in Seq(Codecs) /\ Len(todo) \in Nat /\ Len(todo) >= 1
      /\ DOMAIN todo = 1 .. Len(todo)
  BY DEF StreamsTyped
<1>2. /\ Tail(todo) \in Seq(Codecs) /\ Head(todo) = todo[1] /\ Head(todo) \in Codecs
      /\ DOMAIN Tail(todo) = 1 .. Len(todo) - 1
      /\ \A i \in 1 .. Len(todo) - 1 : Tail(todo)[i] = todo[i + 1]
  BY <1>1
<1>. DEFINE h == Head(todo)
            t == Tail(todo)
            q == IF h \in osiOwner THEN <<Osi>> ELSE <<>>
<1>3. Range(todo) = {h} \cup Range(t)
  <2>1. \A i \in 1 .. Len(todo) : i = 1 \/ (i - 1 \in 1 .. Len(todo) - 1 /\ t[i - 1] = todo[i])
    BY <1>1, <1>2
  <2>2. \A i \in 1 .. Len(todo) - 1 : i + 1 \in 1 .. Len(todo)
    BY <1>1
  <2>3. 1 \in 1 .. Len(todo)
    BY <1>1
  <2>. HIDE DEF h, t
  <2>4. h = todo[1] /\ DOMAIN t = 1 .. Len(todo) - 1 /\ \A i \in 1 .. Len(todo) - 1 : t[i] = todo[i + 1]
    BY <1>2 DEF h, t
  <2>5. \A c \in Range(todo) : c = h \/ c \in Range(t)
    BY <1>1, <2>1, <2>4 DEF Range
  <2>6. \A c \in Range(t) : c \in Range(todo)
    BY <1>1, <2>2, <2>4 DEF Range
  <2>7. h \in Range(todo)
    BY <1>1, <2>3, <2>4 DEF Range
  <2>. QED  BY <2>5, <2>6, <2>7
<1>4. /\ q \in Seq(Codecs)
      /\ Range(q) = IF h \in osiOwner THEN {Osi} ELSE {}
  <2>1. <<Osi>> \in Seq(Codecs) /\ Range(<<Osi>>) = {Osi}
    BY CodecNames DEF Range
  <2>2. <<>> \in Seq(Codecs) /\ Range(<<>>) = {}
    BY DEF Range
  <2>. QED  BY <2>1, <2>2
<1>5. NextTodo = q \o t
  BY DEF NextTodo
<1>. HIDE DEF q, t, h
<1>6. t \in Seq(Codecs)
  BY <1>2 DEF t
<1>7. NextTodo \in Seq(Codecs) /\ Range(NextTodo) = Range(q) \cup Range(t)
  BY <1>4, <1>5, <1>6, ConcatProperties, RangeConcatenation
<1>. QED  BY <1>2, <1>3, <1>4, <1>7 DEF h, t

\* A codec is done, and the next one follows.
LEMMA CodecDoneStreams ==
  ASSUME VtdInv, StreamsInv, CodecDone
  PROVE  StreamsInv'
<1>. USE DEF StreamsInv
<1>1. /\ UNCHANGED <<phase, scp, codec, stream, vtd, step, received, nextTime, taskControl,
                     vehicles, osiOwner, early>>
      /\ phase = "sensors" /\ todo # <<>> /\ Head(todo) # Osi /\ ~Wanting(codec[Head(todo)])
      /\ todo' = NextTodo
  BY DEF CodecDone, world
<1>2. taskControl /\ Up /\ \A i \in DOMAIN scp : scp[i] # <<"RDB">>
  BY <1>1, Running DEF VtdInv
<1>3. Up' /\ Announces' /\ Begun'
  BY <1>1, <1>2 DEF Up, Announces, Begun
<1>4. Streams'
  BY <1>1, <1>2, Unread
<1>5. Active' = Active /\ (Due(Osi)' <=> Due(Osi)) /\ (OsiDone' <=> OsiDone)
  BY <1>1 DEF Active, SensorsOf, Due, OsiDone
<1>6. Cleared'
  BY <1>1 DEF Cleared
<1>. DEFINE h == Head(todo)
            t == Tail(todo)
<1>7. /\ todo' \in Seq(Codecs) /\ Range(todo) = {h} \cup Range(t)
      /\ Range(todo') = Range(t) \cup (IF h \in osiOwner THEN {Osi} ELSE {})
  BY <1>1, TodoParts
<1>. HIDE DEF h, t
<1>8. StreamsTyped'
  BY <1>1, <1>7 DEF StreamsTyped
<1>9. Worked'
  <2>1. Range(todo) \subseteq Active /\ \A c \in Active : Pending(c) \/ Done(c)
    BY <1>1 DEF Worked
  <2>2. Range(todo') \subseteq Active
    <3>1. h \in osiOwner => Osi \in Active
      <4>1. h \in osiOwner => h \in Players /\ h \in Active
        BY <1>7, <2>1, CodecNames DEF StreamsTyped
      <4>. QED  BY <4>1, ActiveCodecs DEF VtdInv
    <3>. QED  BY <1>7, <2>1, <3>1
  <2>3. ASSUME NEW c \in Active
        PROVE  Pending(c)' \/ Done(c)'
    <3>1. Done(c) => Done(c)'
      BY <1>1, <1>5 DEF Done, Wanting
    <3>2. CASE c \in Range(todo)
      <4>1. c = h => Done(c)
        BY <1>1 DEF Done, h
      <4>. QED  BY <1>7, <3>1, <3>2, <4>1 DEF Pending
    <3>3. CASE c = Osi /\ Range(todo) \cap osiOwner # {}
      <4>1. Osi \in Range(todo') \/ Range(todo') \cap osiOwner # {}
        BY <1>7, <3>3
      <4>. QED  BY <1>1, <3>3, <4>1 DEF Pending
    <3>. QED  BY <2>1, <3>1, <3>2, <3>3 DEF Pending
  <2>. QED  BY <1>5, <2>2, <2>3 DEF Worked
<1>10. Paced' /\ OsiTimed'
  BY <1>1, <1>5 DEF Paced, Lost, OsiTimed
<1>. QED  BY <1>3, <1>4, <1>6, <1>8, <1>9, <1>10

\* A codec processes a message.
LEMMA StepCodecStreams ==
  ASSUME VtdInv, StreamsInv, StepCodec
  PROVE  StreamsInv'
<1>. USE DEF StreamsInv
<1>. DEFINE h == Head(todo)
            s == stream[h]
            k == codec[h]
<1>1. /\ UNCHANGED <<phase, scp, vtd, step, todo, nextTime, taskControl, vehicles, osiOwner, early>>
      /\ phase = "sensors" /\ todo # <<>> /\ h # Osi
      /\ codec' = [codec EXCEPT ![h] = Decode(@, Head(s))]
      /\ stream' = [stream EXCEPT ![h] = Tail(@)]
      /\ \E n \in 1 .. Len(s) : received' = n - 1
  BY DEF StepCodec
<1>2. taskControl /\ Up /\ \A i \in DOMAIN scp : scp[i] # <<"RDB">>
  BY <1>1, Running DEF VtdInv
<1>3. Up' /\ Announces' /\ Begun'
  BY <1>1, <1>2 DEF Up, Announces, Begun
<1>4. h \in Codecs /\ h \in Range(todo) /\ h \in Active
  BY <1>1, TodoParts DEF Worked
<1>5. /\ s \in Seq(Message) /\ k \in Codec /\ vtd.run \in {0, 1} /\ vtd.frame \in Nat
      /\ codec \in [Codecs -> Codec] /\ stream \in [Codecs -> Seq(Message)]
  BY <1>4 DEF StreamsTyped, Codec
<1>6. s # <<>> /\ received' \in Nat
  BY <1>1, <1>5
<1>7. /\ codec'[h] = Decode(k, Head(s)) /\ stream'[h] = Tail(s)
      /\ \A c \in Codecs \ {h} : codec'[c] = codec[c] /\ stream'[c] = stream[c]
  BY <1>1, <1>4, <1>5
<1>8. Meets(s, k, k.restart, vtd.run, vtd.frame, h \in early)
  <2>1. Due(h) = k.restart
    BY <1>1, <1>5 DEF Due, Codec
  <2>. QED  BY <1>1, <1>2, <1>4, <2>1 DEF Streams
<1>. HIDE DEF s, k, h
<1>9. /\ Tail(s) \in Seq(Message) /\ 1 \in DOMAIN s /\ Head(s) = s[1] /\ Head(s) \in Message
      /\ \A i \in DOMAIN Tail(s) : i + 1 \in DOMAIN s /\ Tail(s)[i] = s[i + 1]
      /\ Decode(k, Head(s)) \in Codec
      /\ Decode(k, Head(s)).restart = (k.restart /\ Head(s).frame # 0)
      /\ Meets(Tail(s), Decode(k, Head(s)), Decode(k, Head(s)).restart, vtd.run, vtd.frame,
               h \in early)
  BY <1>5, <1>6, <1>8, TailMembers, DecodeType, ReadMeets
<1>10. StreamsTyped'
  <2>1. /\ codec' = [codec EXCEPT ![h] = Decode(k, Head(s))]
        /\ stream' = [stream EXCEPT ![h] = Tail(s)]
    BY <1>1 DEF k, s
  <2>2. codec' \in [Codecs -> Codec] /\ stream' \in [Codecs -> Seq(Message)]
    BY <1>4, <1>5, <1>9, <2>1
  <2>. QED  BY <1>1, <1>6, <2>2 DEF StreamsTyped, Codec
<1>11. Active' = Active /\ Active \subseteq Codecs
  BY <1>1, ActiveCodecs DEF Active, SensorsOf, VtdInv
<1>12. h # Osi /\ Osi \in Codecs /\ codec'[Osi] = codec[Osi] /\ stream'[Osi] = stream[Osi]
  BY <1>1, <1>7, CodecNames
<1>13. (Due(Osi)' <=> Due(Osi)) /\ (OsiDone' <=> OsiDone)
  BY <1>1, <1>12 DEF Due, OsiDone
<1>14. Streams'
  <2>1. \A c \in Codecs \ Active' : stream'[c] = <<>>
    BY <1>2, <1>4, <1>7, <1>11 DEF Streams
  <2>2. ASSUME NEW c \in Active' \ {Osi}
        PROVE  Meets(stream'[c], codec'[c], Due(c)', vtd.run, vtd.frame, c \in early)
    <3>1. CASE c = h
      <4>1. Due(c)' = Decode(k, Head(s)).restart
        BY <1>1, <1>7, <1>9, <3>1 DEF Due, Codec
      <4>. QED  BY <1>7, <1>9, <3>1, <4>1
    <3>2. CASE c # h
      <4>1. c \in Active \ {Osi} /\ c \in Codecs /\ codec'[c] = codec[c] /\ stream'[c] = stream[c]
        BY <1>7, <1>11, <2>2, <3>2
      <4>2. Due(c)' = Due(c)
        BY <1>1, <4>1 DEF Due
      <4>. QED  BY <1>2, <4>1, <4>2 DEF Streams
    <3>. QED  BY <3>1, <3>2
  <2>3. OsiFit(stream'[Osi], Due(Osi)', vtd.run, vtd.frame)
    BY <1>2, <1>12, <1>13 DEF Streams, OsiFit
  <2>. QED  BY <1>1, <2>1, <2>2, <2>3 DEF Streams
<1>17. Cleared'
  BY <1>1 DEF Cleared
<1>18. Lost => Lost'
  <2>. SUFFICES ASSUME Lost PROVE Lost'
    OBVIOUS
  <2>1. vtd.run = 0 /\ codec[TC].restart /\ \A i \in DOMAIN stream[TC] : stream[TC][i].frame # 0
    BY DEF Lost
  <2>2. CASE h = TC
    <3>1. Head(s).frame # 0 /\ \A i \in DOMAIN Tail(s) : Tail(s)[i].frame # 0
      BY <1>9, <2>1, <2>2 DEF s
    <3>2. codec'[TC].restart
      BY <1>7, <1>9, <2>1, <2>2, <3>1 DEF k
    <3>3. \A i \in DOMAIN stream'[TC] : stream'[TC][i].frame # 0
      BY <1>7, <2>2, <3>1
    <3>. QED  BY <1>1, <2>1, <3>2, <3>3 DEF Lost
  <2>3. CASE h # TC
    BY <1>1, <1>7, <2>1, <2>3, CodecNames DEF Lost
  <2>. QED  BY <2>2, <2>3
<1>19. Paced'
  BY <1>1, <1>18 DEF Paced
<1>20. Worked'
  <2>1. Range(todo) \subseteq Active /\ \A c \in Active : Pending(c) \/ Done(c)
    BY <1>1 DEF Worked
  <2>2. ASSUME NEW c \in Active
        PROVE  Pending(c)' \/ Done(c)'
    <3>1. Pending(c) => Pending(c)'
      BY <1>1 DEF Pending
    <3>2. c = h => Pending(c)
      BY <1>4 DEF Pending
    <3>3. c # h => codec'[c] = codec[c]
      BY <1>7, <1>11
    <3>4. c # h => (Done(c) => Done(c)')
      BY <1>1, <1>13, <3>3 DEF Done, Wanting
    <3>. QED  BY <2>1, <3>1, <3>2, <3>4
  <2>. QED  BY <1>1, <1>11, <2>1, <2>2 DEF Worked
<1>21. OsiTimed'
  BY <1>1, <1>11, <1>12, <1>13 DEF OsiTimed
<1>. QED  BY <1>3, <1>10, <1>14, <1>17, <1>19, <1>20, <1>21

\* The OSI sensor takes messages: those of the frame of this step, or it fails,
\* or it is one that waits for a restart.
LEMMA StepOsiStreams ==
  ASSUME VtdInv, StreamsInv, StepOsi
  PROVE  StreamsInv'
<1>. USE DEF StreamsInv
<1>. DEFINE s == stream[Osi]
            k == codec[Osi]
<1>1. /\ UNCHANGED <<scp, vtd, step, received, taskControl, vehicles, osiOwner, early>>
      /\ phase = "sensors" /\ todo # <<>> /\ Head(todo) = Osi
  BY DEF StepOsi
<1>2. taskControl /\ TC \in Active /\ Up /\ \A i \in DOMAIN scp : scp[i] # <<"RDB">>
  BY <1>1, Running DEF VtdInv
<1>3. /\ Osi \in Codecs /\ Osi \in Active
      /\ codec \in [Codecs -> Codec] /\ stream \in [Codecs -> Seq(Message)]
      /\ s \in Seq(Message) /\ k \in Codec /\ Len(s) \in Nat
  BY <1>1, TodoParts, CodecNames DEF Worked, StreamsTyped, Codec
<1>. DEFINE Taken(j) == Range(SubSeq(s, 1, j))
            Ok(j) == /\ \A m \in Taken(j) : OsiAccepts(m)
                     /\ k.restart \/ OsiTime(Taken(j), nextTime)
            Does(j) ==
              /\ stream' = [stream EXCEPT ![Osi] = SubSeq(@, j + 1, Len(@))]
              /\ codec' = [codec EXCEPT ![Osi].data = (IF k.restart THEN @ ELSE {}) \cup Taken(j)]
              /\ IF ~Ok(j) THEN phase' = "failed" /\ UNCHANGED <<todo, nextTime>>
                 ELSE IF k.restart THEN UNCHANGED <<phase, todo, nextTime>>
                 ELSE todo' = Tail(todo) /\ nextTime' = step /\ UNCHANGED phase
<1>4. PICK j \in 1 .. Len(s) : Does(j)
  <2>1. \E n \in 1 .. Len(s) : \E j \in 1 .. n : Does(j)
    BY DEF StepOsi
  <2>. HIDE DEF Does
  <2>2. \A n \in 1 .. Len(s) : \A j \in 1 .. n : j \in 1 .. Len(s)
    BY <1>3
  <2>. QED  BY <2>1, <2>2
<1>. DEFINE ms == Range(SubSeq(s, 1, j))
            rest == SubSeq(s, j + 1, Len(s))
            data == (IF k.restart THEN k.data ELSE {}) \cup ms
<1>5. /\ \A m \in ms : \E i \in DOMAIN s : m = s[i]
      /\ ms \subseteq Message /\ ms # {}
      /\ rest \in Seq(Message)
      /\ \A i \in DOMAIN rest : \E l \in DOMAIN s : rest[i] = s[l]
  <2>1. j \in 1 .. Len(s) /\ DOMAIN s = 1 .. Len(s)
    BY <1>3, <1>4
  <2>2. /\ DOMAIN SubSeq(s, 1, j) = 1 .. j
        /\ \A i \in 1 .. j : SubSeq(s, 1, j)[i] = s[i] /\ i \in DOMAIN s
    BY <1>3, <2>1
  <2>3. /\ rest \in Seq(Message) /\ DOMAIN rest = 1 .. Len(s) - j
        /\ \A i \in 1 .. Len(s) - j : rest[i] = s[j + i] /\ j + i \in DOMAIN s
    BY <1>3, <2>1
  <2>4. \A m \in ms : \E i \in DOMAIN s : m = s[i]
    BY <2>2 DEF Range
  <2>5. \A i \in DOMAIN s : s[i] \in Message
    BY <1>3
  <2>6. s[1] \in ms
    <3>1. 1 \in 1 .. j
      BY <2>1
    <3>. QED  BY <2>2, <3>1 DEF Range
  <2>. HIDE DEF ms, rest
  <2>. QED  BY <2>3, <2>4, <2>5, <2>6
<1>6. /\ stream' = [stream EXCEPT ![Osi] = rest]
      /\ codec' = [codec EXCEPT ![Osi].data = data]
  BY <1>3, <1>4
<1>7. \/ phase' = "failed" /\ UNCHANGED <<todo, nextTime>>
      \/ k.restart /\ UNCHANGED <<phase, todo, nextTime>>
      \/ /\ ~k.restart /\ OsiTime(ms, nextTime) /\ UNCHANGED phase
         /\ todo' = Tail(todo) /\ nextTime' = step
  BY <1>4
<1>. HIDE DEF ms, rest, data
<1>8. data \in SUBSET Message /\ (~k.restart => data = ms)
  BY <1>3, <1>5 DEF data, Codec
<1>. HIDE DEF s, k
<1>9. /\ codec' \in [Codecs -> Codec] /\ stream' \in [Codecs -> Seq(Message)]
      /\ codec'[Osi].restart = k.restart /\ codec'[Osi].data = data /\ stream'[Osi] = rest
      /\ \A c \in Codecs \ {Osi} : codec'[c] = codec[c] /\ stream'[c] = stream[c]
  <2>1. [k EXCEPT !.data = data] \in Codec
    BY <1>3, <1>8 DEF Codec
  <2>2. codec' = [codec EXCEPT ![Osi] = [k EXCEPT !.data = data]]
    BY <1>6 DEF k
  <2>3. [k EXCEPT !.data = data].restart = k.restart /\ [k EXCEPT !.data = data].data = data
    BY <1>3 DEF Codec
  <2>4. codec' \in [Codecs -> Codec]
    BY <1>3, <2>1, <2>2
  <2>5. codec'[Osi] = [k EXCEPT !.data = data] /\ \A c \in Codecs \ {Osi} : codec'[c] = codec[c]
    BY <1>3, <2>2
  <2>6. /\ stream' \in [Codecs -> Seq(Message)] /\ stream'[Osi] = rest
        /\ \A c \in Codecs \ {Osi} : stream'[c] = stream[c]
    BY <1>3, <1>5, <1>6
  <2>. QED  BY <2>3, <2>4, <2>5, <2>6
<1>10. StreamsTyped'
  <2>1. todo' \in Seq(Codecs) /\ nextTime' = nextTime' /\ step' \in Nat
    BY <1>1, <1>7, TodoParts DEF StreamsTyped
  <2>. QED  BY <1>1, <1>9, <2>1 DEF StreamsTyped, Codec
<1>11. CASE phase' = "failed"
  BY <1>10, <1>11, Ends
<1>12. CASE phase' = "sensors"
  <2>1. Up' /\ Announces' /\ Begun'
    BY <1>1, <1>2, <1>12 DEF Up, Announces, Begun
  <2>2. Active' = Active /\ Active \subseteq Codecs
    BY <1>1, ActiveCodecs DEF Active, SensorsOf, VtdInv
  <2>3. codec'[TC] = codec[TC] /\ stream'[TC] = stream[TC]
    BY <1>9, CodecNames
  <2>4. Paced'
    BY <1>1, <1>12, <2>3 DEF Paced, Lost
  <2>5. Due(Osi)' = k.restart /\ Due(Osi) = k.restart /\ k.restart \in BOOLEAN
    BY <1>1, <1>3, <1>9, <1>12 DEF Due, Codec, k
  <2>6. OsiFit(s, k.restart, vtd.run, vtd.frame)
    BY <1>2, <2>5 DEF Streams, s
  <2>7. Streams'
    <3>1. \A c \in Codecs \ Active' : stream'[c] = <<>>
      BY <1>2, <1>3, <1>9, <2>2 DEF Streams
    <3>2. ASSUME NEW c \in Active' \ {Osi}
          PROVE  Meets(stream'[c], codec'[c], Due(c)', vtd.run, vtd.frame, c \in early)
      <4>1. c \in Active \ {Osi} /\ codec'[c] = codec[c] /\ stream'[c] = stream[c]
        BY <1>9, <2>2, <3>2
      <4>2. Due(c)' = Due(c)
        BY <1>1, <1>12, <4>1 DEF Due
      <4>. QED  BY <1>2, <4>1, <4>2 DEF Streams
    <3>3. OsiFit(rest, k.restart, vtd.run, vtd.frame)
      BY <1>5, <2>6 DEF OsiFit
    <3>. QED  BY <1>1, <1>9, <2>5, <3>1, <3>2, <3>3 DEF Streams
  <2>8. Cleared'
    BY <1>12 DEF Cleared
  <2>9. ~k.restart => /\ OsiDone' /\ vtd.frame <= step /\ todo' = Tail(todo)
    <3>. SUFFICES ASSUME ~k.restart
                  PROVE  OsiDone' /\ vtd.frame <= step /\ todo' = Tail(todo)
      OBVIOUS
    <3>1. OsiTime(ms, nextTime) /\ todo' = Tail(todo) /\ nextTime' = step
      BY <1>7, <1>12
    <3>2. s # <<>>
      BY <1>5
    <3>3. vtd.frame <= step /\ (nextTime = step - 1 \/ OsiDone)
      BY <1>1, <1>3, <2>5, <3>2 DEF OsiTimed, s
    <3>4. step \in Nat /\ vtd.frame \in Nat
      BY DEF StreamsTyped
    <3>5. nextTime \in {step, step - 1}
      BY <3>3 DEF OsiDone
    <3>6. \A m \in ms : m.part = 1 /\ m.run = vtd.run /\ m.frame <= vtd.frame /\ m.frame \in Nat
      BY <1>5, <2>6 DEF OsiFit, Message
    <3>7. \A m \in ms : m.frame - 1 >= nextTime
      BY <3>1 DEF OsiTime
    <3>8. \A m \in ms : m.frame = step
      BY <3>3, <3>4, <3>5, <3>6, <3>7
    <3>9. codec'[Osi].data = ms
      BY <1>8, <1>9
    <3>. QED  BY <1>1, <1>5, <1>9, <3>1, <3>3, <3>6, <3>8, <3>9 DEF OsiDone
  <2>10. Worked'
    <3>1. Range(todo) \subseteq Active /\ \A c \in Active : Pending(c) \/ Done(c)
      BY <1>1 DEF Worked
    <3>2. ASSUME NEW c \in Active, c # Osi
          PROVE  Done(c) => Done(c)'
      BY <1>1, <1>9, <2>2, <3>2 DEF Done, Wanting
    <3>3. CASE k.restart
      <4>1. todo' = todo /\ osiOwner' = osiOwner
        BY <1>1, <1>7, <1>12, <3>3
      <4>2. Pending(Osi) /\ \A c : Pending(c)' = Pending(c)
        BY <1>1, <4>1, TodoParts DEF Pending
      <4>. QED  BY <2>2, <3>1, <3>2, <4>1, <4>2 DEF Worked
    <3>4. CASE ~k.restart
      <4>1. Range(todo) = {Osi} \cup Range(todo')
        BY <1>1, <2>9, <3>4, TodoParts
      <4>2. \A c \in Active : c # Osi /\ Pending(c) => Pending(c)'
        BY <4>1 DEF Pending
      <4>3. Done(Osi)'
        BY <2>9, <3>4 DEF Done
      <4>. QED  BY <2>2, <3>1, <3>2, <4>1, <4>2, <4>3 DEF Worked
    <3>. QED  BY <2>5, <3>3, <3>4
  <2>11. OsiTimed'
    BY <1>1, <1>12, <2>5, <2>9 DEF OsiTimed
  <2>. QED  BY <1>10, <2>1, <2>4, <2>7, <2>8, <2>10, <2>11
<1>. QED  BY <1>1, <1>7, <1>11, <1>12

\* All sensors are done: the trigger lets VTD compute one more frame.
LEMMA TriggerStreams ==
  ASSUME VtdInv, StreamsInv, Trigger
  PROVE  StreamsInv'
<1>. USE DEF StreamsInv
<1>1. /\ UNCHANGED <<sensing, scp, taskControl, vehicles, osiOwner, early>>
      /\ phase = "sensors" /\ todo = <<>> /\ phase' = "ready"
      /\ vtd' = [vtd EXCEPT !.frame = @ + 1] /\ Emit(vtd.frame + 1)
  BY DEF Trigger
<1>2. taskControl /\ TC \in Active /\ Up /\ \A i \in DOMAIN scp : scp[i] # <<"RDB">>
  BY <1>1, Running DEF VtdInv
<1>3. Up' /\ Announces' /\ Begun'
  BY <1>1, <1>2 DEF Up, Announces, Begun
<1>4. Active' = Active /\ Active \subseteq Codecs /\ Osi \in Codecs /\ TC # Osi
  BY <1>1, ActiveCodecs, CodecNames DEF Active, SensorsOf, VtdInv
<1>5. \A c \in Active : Done(c)
  BY <1>1 DEF Worked, Pending, Range
<1>6. \A c \in Active \ {Osi} : ~codec[c].restart /\ codec[c].frame \in Nat /\ codec[c].frame >= step
  BY <1>4, <1>5 DEF Done, Wanting, StreamsTyped
<1>7. /\ step \in Nat /\ step >= 1 /\ vtd.frame \in Nat /\ vtd.frame <= step
      /\ ~codec[TC].restart
  BY <1>1, <1>2, <1>4, <1>6 DEF Paced, Lost, StreamsTyped
<1>8. /\ vtd' \in Vtd /\ vtd'.run = vtd.run /\ vtd'.frame = vtd.frame + 1
      /\ vtd.frame + 1 \in Nat /\ vtd.frame <= vtd.frame + 1 /\ vtd.frame + 1 # 0
  <2>1. vtd \in Vtd
    BY DEF StreamsTyped, Vtd
  <2>2. vtd.frame + 1 \in Nat /\ vtd.frame <= vtd.frame + 1 /\ vtd.frame + 1 # 0
    BY <1>7
  <2>. DEFINE f == vtd.frame + 1
  <2>3. vtd' = [vtd EXCEPT !.frame = f] /\ f \in Nat
    BY <1>1, <2>2
  <2>. HIDE DEF f
  <2>4. vtd' \in Vtd /\ vtd'.run = vtd.run /\ vtd'.frame = f
    BY <2>1, <2>3 DEF Vtd
  <2>. QED  BY <2>2, <2>4 DEF f
<1>9. \A c \in Active \ {Osi} : ~Due(c)
  BY <1>1, <1>6 DEF Due
<1>10. /\ stream' \in [Codecs -> Seq(Message)] /\ Streams'
       /\ ~Unstarted => ~Unstarted'
  <2>. DEFINE f == vtd.frame + 1
  <2>1. /\ f \in Nat /\ Emit(f) /\ vtd.frame <= f /\ vtd'.frame = f /\ f # 0
        /\ UNCHANGED <<codec, vehicles, taskControl, osiOwner, early>>
    BY <1>1, <1>8 DEF sensing
  <2>. HIDE DEF f
  <2>. QED  BY <1>1, <1>2, <1>8, <1>9, <2>1, Emitted DEF VtdInv
<1>11. StreamsTyped'
  BY <1>1, <1>8, <1>10 DEF StreamsTyped, sensing, Vtd
<1>12. Paced'
  BY <1>1, <1>7, <1>8 DEF Paced, sensing
<1>13. vtd.run = 0 => ~Unstarted
  <2>. SUFFICES ASSUME vtd.run = 0, NEW c \in Active \ {Osi}, NEW i \in DOMAIN stream[c]
                PROVE  stream[c][i].frame # 0
    BY DEF Unstarted
  <2>1. stream[c] \in Seq(Message)
    BY <1>4 DEF StreamsTyped
  <2>2. stream[c][i] \in Message
    BY <2>1
  <2>3. stream[c][i].frame \in Nat
    BY <2>2 DEF Message
  <2>4. codec[c].frame <= stream[c][i].frame
    BY <1>2 DEF Streams, Meets, Fit, Grows
  <2>. QED  BY <1>6, <1>7, <2>3, <2>4
<1>14. Cleared'
  BY <1>8, <1>10, <1>13 DEF Cleared
<1>15. OsiTimed'
  <2>1. Osi \in Active => nextTime = step
    BY <1>5 DEF Done, OsiDone
  <2>. QED  BY <1>1, <1>4, <1>7, <1>8, <2>1 DEF OsiTimed, sensing
<1>. QED  BY <1>1, <1>3, <1>10, <1>11, <1>12, <1>14, <1>15 DEF Worked

-----------------------------------------------------------------------------
(* reset(), the end, and the world.                                        *)

\* VTD restarts: where what is left of the old run has no frame 0 the codec can
\* tell where the new run begins.  Where it has, nothing has been read yet.
LEMMA ResetStreams ==
  ASSUME VtdInv, StreamsInv, Reset
  PROVE  StreamsInv'
<1>. USE DEF StreamsInv
<1>1. /\ UNCHANGED <<sensing, taskControl, vehicles, osiOwner>>
      /\ phase \in {"ready", "stopped"} /\ vtd.run = 0
      /\ early' = {c \in Active : \E i \in DOMAIN stream'[c] :
                                    stream'[c][i].run = 0 /\ stream'[c][i].frame = 0}
      /\ phase' = "reset"
  BY DEF Reset
<1>2. taskControl /\ TC \in Active /\ Up /\ \A i \in DOMAIN scp : scp[i] # <<"RDB">>
  BY <1>1, Running DEF VtdInv
<1>3. /\ Active' = Active /\ Active \subseteq Codecs /\ TC \in Codecs /\ Osi \in Codecs
      /\ TC # Osi
  BY <1>1, ActiveCodecs, CodecNames DEF Active, SensorsOf, VtdInv
<1>4. /\ codec \in [Codecs -> Codec] /\ stream \in [Codecs -> Seq(Message)]
      /\ codec[TC].frame \in Nat /\ vtd.frame \in Nat
      /\ \A c \in Codecs : codec[c].restart \in BOOLEAN /\ codec[c] \in Codec
  BY <1>3 DEF StreamsTyped, Codec
<1>5. Unstarted => vtd.frame <= 1 /\ \A c \in Active \ {Osi} : codec[c].data = {}
  BY <1>1 DEF Cleared
<1>7. ASSUME NEW c \in Active \ {Osi}
      PROVE  /\ Fit(stream[c], codec[c], TRUE, 0, vtd.frame)
             /\ (\A i \in DOMAIN stream[c] : stream[c][i].frame # 0) =>
                  Fit(stream[c], codec[c], TRUE, 1, 0)
             /\ (\E i \in DOMAIN stream[c] : stream[c][i].frame = 0) =>
                  Strays(stream[c], codec[c], TRUE, 0)
  <2>. DEFINE s == stream[c]
              k == codec[c]
              f == vtd.frame
  <2>1. /\ s \in Seq(Message) /\ k \in Codec /\ f \in Nat
        /\ (\E i \in DOMAIN s : s[i].frame = 0) => k.data = {} /\ f <= 1
    <3>1. (\E i \in DOMAIN s : s[i].frame = 0) => Unstarted
      BY DEF Unstarted
    <3>. QED  BY <1>3, <1>4, <1>5, <3>1
  <2>2. Fit(s, k, Due(c), 0, f) /\ Due(c) \in BOOLEAN
    BY <1>1, <1>2, <1>3, <1>4 DEF Streams, Meets, Due
  <2>3. Fit(s, k, TRUE, 0, f) \/ Fit(s, k, FALSE, 0, f)
    BY <2>2
  <2>. HIDE DEF s, k, f
  <2>4. /\ Fit(s, k, TRUE, 0, f)
        /\ (\A i \in DOMAIN s : s[i].frame # 0) => \A g \in Nat : Fit(s, k, TRUE, 1, g)
        /\ f <= 1 => \A g \in Nat : Strays(s, k, TRUE, g)
    BY <2>1, <2>3, DueFit
  <2>. QED  BY <2>1, <2>4 DEF s, k, f
<1>8. \A c : Due(c)' = TRUE
  BY <1>1 DEF Due
<1>9. Up' /\ Begun' /\ Worked' /\ OsiTimed'
  BY <1>1, <1>8 DEF Up, Begun, Worked, OsiTimed
<1>10. Announces'
  <2>1. << <<"Stop">>, <<"Restart">>, <<"Run">> >> \in Seq(Messages \ {<<"RDB">>})
    <3>1. /\ <<"Stop">> \in Messages \ {<<"RDB">>} /\ <<"Restart">> \in Messages \ {<<"RDB">>}
          /\ <<"Run">> \in Messages \ {<<"RDB">>}
      BY DEF Messages, Words
    <3>. QED  BY <3>1
  <2>2. scp' = scp \/ scp' = scp \o << <<"Stop">>, <<"Restart">>, <<"Run">> >>
    BY DEF Reset, Restarted
  <2>3. \A i \in DOMAIN scp' : scp'[i] # <<"RDB">>
    BY <1>2, <2>1, <2>2, Unannounced DEF VtdInv, Typed
  <2>. QED  BY <1>1, <1>2, <2>3 DEF Announces
<1>11. CASE broken
  <2>1. UNCHANGED <<vtd, stream>>
    BY <1>11 DEF Reset
  <2>2. StreamsTyped'
    BY <1>1, <2>1, TypedOn
  <2>3. Streams'
    <3>1. OsiFit(stream[Osi], TRUE, vtd.run, vtd.frame)
      BY <1>2 DEF Streams, OsiFit
    <3>2. \A c \in Active \ {Osi} :
            Meets(stream'[c], codec'[c], Due(c)', vtd'.run, vtd'.frame, (c \in early)')
      <4>. SUFFICES ASSUME NEW c \in Active \ {Osi}
                    PROVE  Meets(stream'[c], codec'[c], Due(c)', vtd'.run, vtd'.frame,
                                 (c \in early)')
        OBVIOUS
      <4>. DEFINE due == Due(c)'
      <4>1. due = TRUE
        BY <1>8
      <4>2. /\ stream'[c] = stream[c] /\ codec'[c] = codec[c]
            /\ vtd'.run = 0 /\ vtd'.run # 1 /\ vtd'.frame = vtd.frame
        BY <1>1, <2>1 DEF sensing
      <4>3. Fit(stream[c], codec[c], TRUE, 0, vtd.frame)
        BY <1>7
      <4>. HIDE DEF due
      <4>4. Fit(stream'[c], codec'[c], due, vtd'.run, vtd'.frame)
        BY <4>1, <4>2, <4>3, Zenon
      <4>. QED  BY <4>2, <4>4, Zenon DEF Meets, due
    <3>. QED  BY <1>1, <1>2, <1>3, <1>8, <2>1, <3>1, <3>2 DEF Streams
  <2>4. Paced' /\ Cleared'
    <3>1. Unstarted' => Unstarted
      BY <1>3, <2>1 DEF Unstarted
    <3>. QED  BY <1>1, <1>3, <1>5, <2>1, <3>1 DEF Paced, Cleared, sensing
  <2>. QED  BY <1>9, <1>10, <2>2, <2>3, <2>4
<1>12. CASE ~broken
  <2>1. PICK f \in {0, 1} : Restarted(f)
    BY <1>12 DEF Reset
  <2>2. PICK form \in OsiForms, kept \in {{}, {TC}, Active} :
          stream' = [c \in Codecs |->
                      (IF c \in kept THEN stream[c] ELSE <<>>)
                      \o (IF c \in Active THEN Frame(vtd.run + 1, 0, c, form) ELSE <<>>)
                      \o (IF c \in Active /\ f = 1 THEN Frame(vtd.run + 1, 1, c, form) ELSE <<>>)]
    BY <2>1 DEF Restarted
  <2>3. vtd' \in Vtd /\ vtd'.run = 1 /\ vtd'.frame = f
    BY <1>1, <2>1 DEF Restarted, Vtd
  <2>. DEFINE base(c) == IF c \in kept THEN stream[c] ELSE <<>>
  <2>4. \A c \in Codecs : base(c) \in {stream[c], <<>>} /\ base(c) \in Seq(Message)
    BY <1>4
  <2>5. \A c \in Codecs :
          stream'[c] = base(c) \o (IF c \in Active THEN Frame(1, 0, c, form) ELSE <<>>)
                       \o (IF c \in Active /\ f = 1 THEN Frame(1, 1, c, form) ELSE <<>>)
    <3>1. vtd.run + 1 = 1
      BY <1>1
    <3>. QED  BY <2>2, <3>1
  <2>. HIDE DEF base
  <2>6. ASSUME NEW c \in Codecs \ Active
        PROVE  stream'[c] = <<>>
    <3>1. base(c) = <<>>
      BY <1>2, <2>4, <2>6 DEF Streams
    <3>2. stream'[c] = (<<>> \o <<>>) \o <<>>
      BY <2>5, <2>6, <3>1
    <3>. QED  BY <3>2
  <2>7. ASSUME NEW c \in Active \ {Osi}
        PROVE  /\ stream'[c] \in Seq(Message)
               /\ Meets(stream'[c], codec[c], TRUE, 1, f, c \in early')
    <3>. DEFINE s == base(c)
                t == stream'[c]
                k == codec[c]
                q == Queued(s, 1, 0)
                u == Queued(q, 1, 1)
                stray == \E i \in DOMAIN s : s[i].frame = 0
    <3>1. s \in Seq(Message) /\ k \in Codec
      BY <1>3, <1>4, <2>4, <2>7
    <3>2. Meets(s, k, TRUE, 1, 0, stray)
      <4>1. CASE s = stream[c]
        BY <1>7, <4>1 DEF Meets
      <4>2. CASE s = <<>>
        <5>1. 1 \in {0, 1} /\ 0 \in Nat /\ DOMAIN s = {}
          BY <4>2
        <5>2. ~stray
          BY <5>1
        <5>. HIDE DEF s, k, stray
        <5>3. Fit(<<>>, k, TRUE, 1, 0)
          BY <5>1, EmptyFit, Zenon
        <5>. QED  BY <4>2, <5>2, <5>3, Zenon DEF Meets
      <4>. QED  BY <1>3, <2>4, <2>7, <4>1, <4>2
    <3>3. t = s \o Frame(1, 0, c, form) \o (IF f = 1 THEN Frame(1, 1, c, form) ELSE <<>>)
      BY <1>3, <2>5, <2>7
    <3>4. /\ Frame(1, 0, c, form) = <<Part(1, 0, 1, {}), Part(1, 0, 2, {})>>
          /\ Frame(1, 1, c, form) = <<Part(1, 1, 1, {}), Part(1, 1, 2, {})>>
      BY <2>7 DEF Frame
    <3>5. \A i \in DOMAIN s : s[i].run = 0
      <4>1. \A i \in DOMAIN stream[c] : stream[c][i].run = 0
        BY <1>7 DEF Fit
      <4>. QED  BY <1>3, <2>4, <2>7, <4>1
    <3>. HIDE DEF s, t, k, q, u, stray
    <3>6. t = q \o (IF f = 1 THEN Frame(1, 1, c, form) ELSE <<>>)
      BY <3>3, <3>4 DEF q, Queued
    <3>7. f = 1 => t = u
      BY <3>4, <3>6 DEF u, Queued
    <3>8. /\ q \in Seq(Message) /\ Meets(q, k, TRUE, 1, 0, stray)
          /\ u \in Seq(Message) /\ Meets(u, k, TRUE, 1, 1, stray)
          /\ Continues(s, q) /\ Continues(s, u)
      <4>1. q = Queued(s, 1, 0) /\ u = Queued(q, 1, 1)
        BY DEF q, u
      <4>. QED  BY <3>1, <3>2, <4>1, RestartMeets, Zenon
    <3>9. f = 0 => t = q
      BY <3>6, <3>8, ConcatEmptySeq
    <3>10. t \in Seq(Message) /\ Meets(t, k, TRUE, 1, f, stray) /\ Continues(s, t)
      BY <2>1, <3>7, <3>8, <3>9
    <3>11. stray <=> \E i \in DOMAIN t : t[i].run = 0 /\ t[i].frame = 0
      BY <3>5, <3>10 DEF stray, Continues
    <3>12. stray <=> c \in early'
      BY <1>1, <2>7, <3>11 DEF t
    <3>13. Meets(t, k, TRUE, 1, f, c \in early')
      BY <3>10, <3>12 DEF Meets
    <3>. QED  BY <3>10, <3>13 DEF t, k
  <2>8. stream'[Osi] \in Seq(Message) /\ OsiFit(stream'[Osi], TRUE, 1, f)
    <3>1. CASE Osi \notin Active
      <4>1. stream'[Osi] = <<>> /\ <<>> \in Seq(Message)
        BY <1>3, <2>6, <3>1
      <4>. QED  BY <4>1 DEF OsiFit
    <3>2. CASE Osi \in Active
      <4>. DEFINE s == base(Osi)
                  o == Part(1, 1, 1, {form})
      <4>1. /\ s \in Seq(Message)
            /\ \A i \in DOMAIN s : s[i].part = 1 /\ s[i].frame >= 1
        BY <1>2, <1>3, <2>4 DEF Streams, OsiFit
      <4>2. o \in Message /\ o.part = 1 /\ o.frame = 1
        BY DEF Part, Message
      <4>3. stream'[Osi] = s \o <<>> \o (IF f = 1 THEN <<o>> ELSE <<>>)
        <5>1. Frame(1, 0, Osi, form) = <<>> /\ Frame(1, 1, Osi, form) = <<o>>
          BY DEF Frame
        <5>2. stream'[Osi] = s \o Frame(1, 0, Osi, form) \o (IF f = 1 THEN Frame(1, 1, Osi, form) ELSE <<>>)
          BY <1>3, <2>5, <3>2
        <5>. QED  BY <5>1, <5>2
      <4>. HIDE DEF s, o
      <4>4. s \o <<>> = s
        BY <4>1, ConcatEmptySeq
      <4>5. stream'[Osi] = s \/ stream'[Osi] = Append(s, o)
        <5>1. CASE f = 1
          <6>1. s \o <<o>> = Append(s, o)
            BY <4>1, <4>2
          <6>. QED  BY <4>3, <4>4, <5>1, <6>1
        <5>2. CASE f # 1
          BY <4>3, <4>4, <5>2
        <5>. QED  BY <5>1, <5>2
      <4>6. /\ Append(s, o) \in Seq(Message)
            /\ \A i \in DOMAIN Append(s, o) : (i \in DOMAIN s /\ Append(s, o)[i] = s[i]) \/ Append(s, o)[i] = o
        BY <4>1, <4>2
      <4>7. CASE stream'[Osi] = s
        BY <4>1, <4>7 DEF OsiFit
      <4>8. CASE stream'[Osi] = Append(s, o)
        <5>1. \A i \in DOMAIN Append(s, o) :
                Append(s, o)[i].part = 1 /\ Append(s, o)[i].frame >= 1
          BY <4>1, <4>2, <4>6
        <5>. QED  BY <4>6, <4>8, <5>1 DEF OsiFit
      <4>. QED  BY <4>5, <4>7, <4>8
    <3>. QED  BY <3>1, <3>2
  <2>9. stream' \in [Codecs -> Seq(Message)]
    <3>1. \A c \in Codecs : stream'[c] \in Seq(Message)
      <4>1. \A c \in Codecs \ Active : stream'[c] \in Seq(Message)
        <5>1. <<>> \in Seq(Message)
          OBVIOUS
        <5>. QED  BY <2>6, <5>1
      <4>2. \A c \in Active \ {Osi} : stream'[c] \in Seq(Message)
        BY <2>7
      <4>. QED  BY <2>8, <4>1, <4>2
    <3>2. stream' = [c \in Codecs |-> stream'[c]]
      BY <2>2
    <3>. QED  BY <3>1, <3>2
  <2>10. StreamsTyped'
    BY <1>1, <2>3, <2>9 DEF StreamsTyped, sensing, Vtd
  <2>11. Streams'
    BY <1>1, <1>3, <1>8, <2>3, <2>6, <2>7, <2>8 DEF Streams, sensing
  <2>12. Paced' /\ Cleared'
    BY <1>1, <2>1, <2>3 DEF Paced, Cleared
  <2>. QED  BY <1>9, <1>10, <2>10, <2>11, <2>12
<1>. QED  BY <1>11, <1>12

\* VTD runs again: every codec drops its data, and waits for frame 0.
LEMMA ResetDoneStreams ==
  ASSUME VtdInv, StreamsInv, ResetDone
  PROVE  StreamsInv'
<1>. USE DEF StreamsInv
<1>1. /\ UNCHANGED <<scp, stream, vtd, todo, received, nextTime, taskControl, vehicles, osiOwner,
                     early>>
      /\ phase = "reset" /\ phase' = "ready" /\ step' = 0
      /\ codec' = [c \in Codecs |-> IF c \in Active
                     THEN [codec[c] EXCEPT !.data = {}, !.restart = TRUE] ELSE codec[c]]
  BY DEF ResetDone, world
<1>2. taskControl /\ TC \in Active /\ Up /\ \A i \in DOMAIN scp : scp[i] # <<"RDB">>
  BY <1>1, Running DEF VtdInv
<1>3. Up' /\ Announces' /\ Begun' /\ Worked'
  BY <1>1, <1>2 DEF Up, Announces, Begun, Worked
<1>4. /\ Active' = Active /\ Active \subseteq Codecs /\ TC \in Codecs /\ Osi \in Codecs
  BY <1>1, ActiveCodecs, CodecNames DEF Active, SensorsOf, VtdInv
<1>5. \A c \in Codecs : codec[c] \in Codec
  BY DEF StreamsTyped, Codec
<1>6. \A k \in Codec : /\ [k EXCEPT !.data = {}, !.restart = TRUE] \in Codec
                       /\ [k EXCEPT !.data = {}, !.restart = TRUE].restart = TRUE
  BY DEF Codec
<1>7. codec' \in [Codecs -> Codec] /\ \A c \in Active : codec'[c].restart = TRUE
  BY <1>1, <1>4, <1>5, <1>6
<1>8. StreamsTyped'
  BY <1>1, <1>7 DEF StreamsTyped, Codec
<1>9. \A c \in Active : Due(c)' = TRUE /\ Due(c) = TRUE
  BY <1>1, <1>7 DEF Due
<1>10. Paced'
  <2>1. vtd.run \in {0, 1} /\ vtd.frame \in Nat
    BY DEF StreamsTyped
  <2>2. vtd.run = 1 => vtd.frame <= 1
    BY <1>1 DEF Paced
  <2>3. vtd.run = 0 => Lost' \/ vtd.frame <= 1
    <3>1. Unstarted /\ vtd.run = 0 => vtd.frame <= 1
      BY <1>1 DEF Cleared
    <3>2. ~Unstarted => \A i \in DOMAIN stream[TC] : stream[TC][i].frame # 0
      BY <1>2, CodecNames DEF Unstarted
    <3>. QED  BY <1>1, <1>2, <1>7, <3>1, <3>2 DEF Lost
  <2>4. vtd.frame <= 1 => vtd'.frame <= step' + 1
    <3>1. vtd' = vtd /\ step' = 0
      BY <1>1
    <3>2. 0 + 1 = 1
      OBVIOUS
    <3>3. step' + 1 = 1
      BY <3>1, <3>2, Zenon
    <3>. QED  BY <3>1, <3>3
  <2>. QED  BY <1>1, <2>1, <2>2, <2>3, <2>4 DEF Paced
<1>11. Cleared'
  <2>1. \A c \in Active : codec'[c].data = {}
    BY <1>1, <1>4, <1>5 DEF Codec
  <2>2. Unstarted' => Unstarted
    BY <1>1, <1>4 DEF Unstarted
  <2>. QED  BY <1>1, <1>4, <2>1, <2>2 DEF Cleared
<1>12. Streams'
  <2>1. \A c \in Codecs \ Active' : stream'[c] = <<>>
    BY <1>1, <1>2, <1>4 DEF Streams
  <2>2. ASSUME NEW c \in Active' \ {Osi}
        PROVE  Meets(stream[c], codec'[c], Due(c)', vtd.run, vtd.frame, c \in early)
    <3>1. c \in Active \ {Osi} /\ c \in Codecs /\ codec[c] \in Codec /\ Due(c)' = TRUE
      BY <1>4, <1>5, <1>9, <2>2
    <3>2. Meets(stream[c], codec[c], TRUE, vtd.run, vtd.frame, c \in early)
      BY <1>2, <1>9, <3>1 DEF Streams
    <3>3. codec'[c] = [codec[c] EXCEPT !.data = {}, !.restart = TRUE]
      BY <1>1, <3>1
    <3>. DEFINE k == codec[c]
                s == stream[c]
                v == vtd.run
                f == vtd.frame
                stray == c \in early
    <3>4. k \in Codec /\ Meets(s, k, TRUE, v, f, stray)
      BY <3>1, <3>2
    <3>5. codec'[c] = Dropped(k)
      BY <3>3 DEF Dropped
    <3>. HIDE DEF k, s, v, f, stray
    <3>6. Meets(s, Dropped(k), TRUE, v, f, stray)
      BY <3>4, DropMeets
    <3>. QED  BY <3>1, <3>5, <3>6 DEF s, v, f, stray
  <2>3. OsiFit(stream[Osi], Due(Osi)', vtd.run, vtd.frame)
    <3>1. CASE Osi \in Active
      BY <1>2, <1>9, <3>1 DEF Streams
    <3>2. CASE Osi \notin Active
      BY <1>2, <1>4, <3>2 DEF Streams, OsiFit
    <3>. QED  BY <3>1, <3>2
  <2>. QED  BY <1>1, <2>1, <2>2, <2>3 DEF Streams
<1>13. OsiTimed'
  BY <1>4, <1>9 DEF OsiTimed
<1>. QED  BY <1>3, <1>8, <1>10, <1>11, <1>12, <1>13

\* The end, what others send, and failures of the SCP stream.
LEMMA WorldStreams ==
  ASSUME VtdInv, StreamsInv, Disconnect \/ OtherClient \/ Break \/ Abort \/ UNCHANGED vars
  PROVE  StreamsInv'
<1>. USE DEF StreamsInv
<1>1. CASE Disconnect
  <2>1. UNCHANGED <<sensing, stream, vtd, osiOwner>> /\ taskControl' = FALSE
    BY <1>1 DEF Disconnect, world
  <2>2. StreamsTyped'
    BY <2>1 DEF StreamsTyped, sensing
  <2>. QED  BY <1>1, <2>2, Ends DEF Disconnect
<1>2. CASE OtherClient \/ Break \/ Abort \/ UNCHANGED vars
  <2>1. UNCHANGED binding /\ UNCHANGED <<stream, vtd, osiOwner, early>>
    BY <1>2 DEF OtherClient, Break, Abort, vars, world
  <2>2. /\ UNCHANGED <<phase, stage, sensing, vehicles, taskControl>>
        /\ vtd' \in Vtd
    BY <2>1, TypedOn DEF binding
  <2>3. \A i \in DOMAIN scp' :
          scp'[i] = <<"RDB">> => \E j \in DOMAIN scp : scp[j] = <<"RDB">> /\ (i > 1 => j > 1)
    <3>1. CASE OtherClient
      <4>1. PICK m \in {<<"Set", p>> : p \in Strangers}
                         \cup {<<"LoadScenario", s>> : s \in Scenarios}
                         \cup {<<"Stop">>, <<"Restart">>, <<"Run">>},
                   j \in 1 .. Len(scp) + 1 : /\ j > 1 \/ j = Len(scp) + 1
                                             /\ scp' = InsertAt(scp, j, m)
        BY <3>1 DEF OtherClient
      <4>2. m # <<"RDB">> /\ m \in Messages
        BY DEF Messages, Words, Players
      <4>3. /\ scp \in Seq(Messages) /\ Len(scp) \in Nat /\ DOMAIN scp = 1 .. Len(scp)
            /\ DOMAIN scp' = 1 .. Len(scp) + 1
            /\ \A i \in 1 .. Len(scp) + 1 :
                 scp'[i] = IF i < j THEN scp[i] ELSE IF i = j THEN m ELSE scp[i - 1]
        <5>1. scp \in Seq(Messages) /\ Len(scp) \in Nat /\ DOMAIN scp = 1 .. Len(scp)
          BY DEF VtdInv, Typed
        <5>2. /\ InsertAt(scp, j, m) \in Seq(Messages) /\ Len(InsertAt(scp, j, m)) = Len(scp) + 1
              /\ \A i \in 1 .. Len(scp) + 1 :
                   InsertAt(scp, j, m)[i]
                     = IF i < j THEN scp[i] ELSE IF i = j THEN m ELSE scp[i - 1]
          BY <4>2, <5>1, Inserted
        <5>. HIDE DEF InsertAt
        <5>. QED  BY <4>1, <5>1, <5>2
      <4>4. ASSUME NEW i \in DOMAIN scp', scp'[i] = <<"RDB">>
            PROVE  \E l \in DOMAIN scp : scp[l] = <<"RDB">> /\ (i > 1 => l > 1)
        <5>1. CASE i < j
          <6>1. i \in DOMAIN scp /\ scp[i] = <<"RDB">>
            BY <4>1, <4>3, <4>4, <5>1
          <6>. QED  BY <6>1
        <5>2. CASE i > j
          <6>1. i - 1 \in DOMAIN scp /\ scp[i - 1] = <<"RDB">> /\ i - 1 > 1
            BY <4>1, <4>3, <4>4, <5>2
          <6>. QED  BY <6>1
        <5>. QED  BY <4>1, <4>2, <4>3, <4>4, <5>1, <5>2
      <4>. QED  BY <4>4
    <3>2. CASE ~OtherClient
      <4>1. scp' = scp
        BY <1>2, <3>2 DEF Break, Abort, vars, world
      <4>. QED  BY <4>1
    <3>. QED  BY <3>1, <3>2
  <2>4. Announces' /\ (Up' <=> Up)
    BY <2>2, <2>3 DEF Announces, Up
  <2>. QED  BY <2>1, <2>2, <2>4, Quiet
<1>. QED  BY <1>1, <1>2

-----------------------------------------------------------------------------
LEMMA NextStreams == VtdInv /\ StreamsInv /\ [Next]_vars => StreamsInv'
<1>. SUFFICES ASSUME VtdInv, StreamsInv, [Next]_vars PROVE StreamsInv'
  OBVIOUS
<1>1. CASE Dialogue
  BY <1>1, ClientsStreams, AdvanceStreams, WaitsStreams, ReadScpStreams, FailuresStreams
     DEF Dialogue
<1>2. CASE Stepping
  BY <1>2, ProcessStreams, CodecDoneStreams, StepCodecStreams, StepOsiStreams, TriggerStreams
     DEF Stepping
<1>3. CASE Reset \/ ResetDone
  BY <1>3, ResetStreams, ResetDoneStreams
<1>4. CASE Disconnect \/ OtherClient \/ Break \/ Abort \/ UNCHANGED vars
  BY <1>4, WorldStreams
<1>. QED  BY <1>1, <1>2, <1>3, <1>4 DEF Next

\* A codec that is done holds both parts of the frame of the step, and of the run.
LEMMA DoneHolds ==
  ASSUME StreamsTyped, Paced, Streams, Up, phase = "sensors",
         NEW c \in Active, c \in Codecs, TC \in Active, TC \in Codecs, Done(TC), TC # Osi, Done(c),
         c \in early => step > 1
  PROVE  /\ {m.frame : m \in codec[c].data} = {step}
         /\ {m.run : m \in codec[c].data} = {vtd.run}
         /\ {m.part : m \in codec[c].data} = IF c = Osi THEN {1} ELSE {1, 2}
<1>1. step \in Nat /\ step >= 1 /\ vtd.frame \in Nat /\ vtd.frame <= step
  <2>1. codec[TC].restart = FALSE
    BY DEF Done, Wanting, StreamsTyped
  <2>. QED  BY <2>1 DEF Paced, Lost, StreamsTyped
<1>2. CASE c = Osi
  <2>1. /\ codec[c].data # {}
        /\ \A m \in codec[c].data : m.frame = step /\ m.run = vtd.run /\ m.part = 1
    BY <1>2 DEF Done, OsiDone
  <2>. QED  BY <1>2, <2>1
<1>3. CASE c # Osi
  <2>. DEFINE k == codec[c]
  <2>1. ~k.open /\ ~(k.frame < step) /\ ~k.restart /\ k.frame \in Nat
    BY <1>3 DEF Done, Wanting, StreamsTyped
  <2>2. Holds(k, vtd.run, vtd.frame)
    <3>1. ~Due(c) /\ Meets(stream[c], k, Due(c), vtd.run, vtd.frame, c \in early)
      BY <1>3, <2>1 DEF Streams, Due
    <3>2. CASE c \in early /\ vtd.run = 1
      <4>1. PICK q \in {0, 1} : Holds(k, q, Upto(q, vtd.frame))
        BY <3>1, <3>2 DEF Meets, Strays
      <4>2. q # 0
        BY <1>1, <2>1, <3>2, <4>1 DEF Holds, Upto
      <4>. QED  BY <3>2, <4>1, <4>2 DEF Upto
    <3>3. CASE ~(c \in early /\ vtd.run = 1)
      BY <3>1, <3>3 DEF Meets, Fit
    <3>. QED  BY <3>2, <3>3
  <2>. HIDE DEF k
  <2>3. k.frame = step
    BY <1>1, <2>1, <2>2 DEF Holds
  <2>4. k.data = {Part(vtd.run, step, 1, {}), Part(vtd.run, step, 2, {})}
    BY <1>1, <2>1, <2>2, <2>3 DEF Holds
  <2>5. /\ \A m \in k.data : m.frame = step /\ m.run = vtd.run /\ m.part \in {1, 2}
        /\ \E m \in k.data : m.part = 1
        /\ \E m \in k.data : m.part = 2
    BY <2>4 DEF Part
  <2>6. {m.part : m \in k.data} = {1, 2}
    BY <2>5
  <2>7. {m.frame : m \in k.data} = {step} /\ {m.run : m \in k.data} = {vtd.run}
    BY <2>5
  <2>. QED  BY <1>3, <2>6, <2>7 DEF k
<1>. QED  BY <1>2, <1>3

\* When process() has stepped its codecs, each of them holds both messages of
\* the frame of this step, of the current run of VTD, and nothing else, however
\* the messages were cut into receives and whatever was left in the streams by a
\* restart; for every number of vehicles.  A reset that finds an old frame 0 still
\* unread spoils the first step after it, for that sensor, and no other.
THEOREM FrameAlignedHolds == Spec => []FrameAligned
<1>1. VtdInv /\ StreamsInv => FrameAligned
  <2>. SUFFICES ASSUME VtdInv, StreamsInv, phase = "sensors", todo = <<>>, NEW c \in Active,
                       c \in early => step > 1
                PROVE  /\ {m.frame : m \in codec[c].data} = {step}
                       /\ {m.run : m \in codec[c].data} = {vtd.run}
                       /\ {m.part : m \in codec[c].data} = IF c = Osi THEN {1} ELSE {1, 2}
    BY DEF FrameAligned
  <2>1. taskControl /\ TC \in Active /\ Up
    BY Running DEF VtdInv, StreamsInv
  <2>2. Active \subseteq Codecs /\ TC # Osi /\ TC \in Codecs
    BY ActiveCodecs, CodecNames DEF VtdInv, StreamsInv
  <2>3. \A d \in Active : Done(d)
    BY DEF StreamsInv, Worked, Pending, Range
  <2>. QED  BY <2>1, <2>2, <2>3, DoneHolds DEF StreamsInv
<1>3. VtdInv /\ StreamsInv /\ [Next]_vars => StreamsInv'
  BY NextStreams
<1>. QED  BY <1>1, <1>3, InitStreams, Inductive, PTL DEF Spec

=============================================================================
