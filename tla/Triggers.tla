------------------------------ MODULE Triggers ------------------------------
(***************************************************************************)
(* The coordinator of cloe-engine and its callbacks: where a trigger is     *)
(* kept from its insertion until it has run.  Triggers from stack files,    *)
(* HTTP threads and C++ actions go through an input queue that some states  *)
(* empty; triggers from Lua are stored at once, also while a list is being  *)
(* gone through.  The states of the simulation machine, SimulationMachine,  *)
(* fire the events; here they are reduced to the events that they fire.     *)
(* The two step states that process models are one, STEP.                   *)
(***************************************************************************)
EXTENDS Naturals, Sequences, SequencesExt

CONSTANTS
  Kinds,        \* the triggers that may be inserted
  Conditional,  \* the events whose condition may not hold
  MaxTriggers,  \* bound: triggers inserted in one run
  MaxTime       \* bound: simulation time, in steps

\* The nil events of the engine and "data", which stands for those of plugins.
DirectEvents == {"start", "loop", "pause", "resume", "success", "failure",
                 "stop", "reset", "data"}
TimedEvents  == {"time", "next"}

\* Trigger, the offset being the time of a time event, and added to the current
\* time for a next event.
Kind == [event   : DirectEvents \cup TimedEvents,
         offset  : Nat,
         sticky  : BOOLEAN,
         conceal : BOOLEAN,
         source  : {"LUA", "NETWORK"}]   \* NETWORK for all that is queued

ASSUME KindsAssumption == Kinds \subseteq Kind
ASSUME BoundsAssumption == /\ Conditional \subseteq DirectEvents
                           /\ MaxTriggers \in Nat /\ MaxTime \in Nat

\* What a state does to the triggers, in this order: it empties the queue, or it
\* fires an event.
Passes ==
  [CONNECT    |-> <<>>,
   START      |-> <<"queue", "start">>,
   STEP_BEGIN |-> <<"loop", "time">>,
   STEP       |-> <<"data">>,
   STEP_END   |-> <<"queue">>,
   PAUSE      |-> <<"queue", "loop", "pause">>,
   RESUME     |-> <<"resume">>,
   SUCCESS    |-> <<"success">>,
   FAIL       |-> <<"failure">>,
   STOP       |-> <<"stop">>,
   KEEP_ALIVE |-> <<"pause">>,
   RESET      |-> <<"reset">>,
   DONE       |-> <<>>]

\* The states that an interrupt may lead to, DONE standing for those that fire
\* nothing and lead to the end of the run.
Interrupting == {"SUCCESS", "FAIL", "STOP", "RESET", "DONE"}

Follow ==
  [CONNECT    |-> {"START", "DONE"},
   START      |-> {"STEP_BEGIN", "PAUSE"} \cup Interrupting,
   STEP_BEGIN |-> {"STEP"} \cup Interrupting,
   STEP       |-> {"STEP", "STEP_END"} \cup Interrupting,
   STEP_END   |-> {"STEP_BEGIN", "PAUSE"} \cup Interrupting,
   PAUSE      |-> {"PAUSE", "RESUME"} \cup Interrupting,
   RESUME     |-> {"STEP_BEGIN"} \cup Interrupting,
   SUCCESS    |-> Interrupting,
   FAIL       |-> Interrupting,
   STOP       |-> {"KEEP_ALIVE"} \cup Interrupting,
   KEEP_ALIVE |-> {"KEEP_ALIVE"} \cup Interrupting,
   RESET      |-> Interrupting,
   DONE       |-> {}]

None == 0    \* no trigger is being executed

VARIABLES
  trigger,    \* the triggers inserted so far; each is named by its number
  queue,      \* input_queue_
  list,       \* the triggers_ of each DirectCallback
  timed,      \* storage_ of the TimeCallback
  fired,      \* the triggers whose action has returned
  history,    \* the triggers in history_
  now,        \* sync.time(), in steps
  state,      \* the running state
  passes,     \* what it has still to do
  pos,        \* the iterator of the list that is being gone through
  active      \* the trigger whose action is running

places   == <<queue, list, timed>>
progress == <<now, state, passes, pos, active>>
vars     == <<trigger, places, fired, history, progress>>

Init ==
  /\ trigger = <<>>
  /\ queue = <<>> /\ list = [e \in DirectEvents |-> <<>>] /\ timed = {}
  /\ fired = {} /\ history = {}
  /\ now = 0 /\ state = "CONNECT" /\ passes = <<>> /\ pos = 1 /\ active = None

Pass(p) == passes # <<>> /\ Head(passes) = p

-----------------------------------------------------------------------------
(* Insertion.                                                              *)

\* Mutant: only triggers later than now are due, not those of this very moment.
LateDue(r) == r.time < now

Due(r) == r.time <= now

When(k) == IF k.event = "next" THEN now + k.offset ELSE k.offset

\* Place trigger t, of kind k, in the callback of its event.
Store(t, k) ==
  IF k.event \in DirectEvents
  THEN list' = [list EXCEPT ![k.event] = Append(@, t)] /\ UNCHANGED timed
  ELSE timed' = timed \cup {[trigger |-> t, time |-> When(k)]} /\ UNCHANGED list

\* Mutant: the queue is a stack.
QueueInFront(k) ==
  /\ state # "DONE" /\ ~Pass("queue") /\ k.source # "LUA"
  /\ Len(trigger) < MaxTriggers
  /\ trigger' = Append(trigger, k)
  /\ queue' = <<Len(trigger')>> \o queue
  /\ UNCHANGED <<list, timed, fired, history, progress>>

\* An HTTP thread, the stack file, or an insert action.  The mutex keeps others
\* off while a state empties the queue.
QueueTrigger(k) ==
  /\ state # "DONE" /\ ~Pass("queue") /\ k.source # "LUA"
  /\ Len(trigger) < MaxTriggers
  /\ trigger' = Append(trigger, k)
  /\ queue' = Append(queue, Len(trigger'))
  /\ UNCHANGED <<list, timed, fired, history, progress>>

\* A Lua script inserts: before the start, or as the action of a trigger.
InsertFromLua(k) ==
  /\ (state = "CONNECT" \/ active # None) /\ k.source = "LUA"
  /\ Len(trigger) < MaxTriggers
  /\ trigger' = Append(trigger, k)
  /\ Store(Len(trigger'), k)
  /\ UNCHANGED <<queue, fired, history, progress>>

\* Mutant: the stored trigger stays in the queue.
ProcessAndKeep ==
  /\ Pass("queue") /\ queue # <<>>
  /\ Store(Head(queue), trigger[Head(queue)])
  /\ queue' \in {queue, Tail(queue)}
  /\ UNCHANGED <<trigger, fired, history, progress>>

ProcessPending ==
  /\ Pass("queue") /\ queue # <<>>
  /\ queue' = Tail(queue)
  /\ Store(Head(queue), trigger[Head(queue)])
  /\ UNCHANGED <<trigger, fired, history, progress>>

-----------------------------------------------------------------------------
(* Going through a list: DirectCallback::trigger.                          *)

Event     == Head(passes)
InList    == passes # <<>> /\ Event \in DirectEvents
Sticky(t) == trigger[t].sticky
Concealed(t) == trigger[t].conceal

ConditionFails ==
  /\ InList /\ active = None /\ pos <= Len(list[Event])
  /\ Event \in Conditional
  /\ pos' = pos + 1
  /\ UNCHANGED <<trigger, places, fired, history, now, state, passes, active>>

Execute ==
  /\ InList /\ active = None /\ pos <= Len(list[Event])
  /\ active' = list[Event][pos]
  /\ UNCHANGED <<trigger, places, fired, history, now, state, passes, pos>>

\* The action returns: history_ receives the trigger, or the clone of a sticky
\* one, which does not inherit conceal.
Returned(t, sticky) ==
  /\ fired' = fired \cup {t}
  /\ history' = IF Concealed(t) /\ ~sticky THEN history ELSE history \cup {t}
  /\ active' = None
  /\ UNCHANGED <<trigger, queue, timed, now, state, passes>>

EraseAtPos == list' = [list EXCEPT ![Event] = RemoveAt(@, pos)]

\* Mutant: the trigger that has run is not erased.
SkipRun ==
  /\ InList /\ active # None /\ ~Sticky(active)
  /\ Returned(active, FALSE)
  /\ pos' = pos + 1
  /\ UNCHANGED list

\* Mutant: the iterator steps back when a trigger has been erased.
RemoveAndStepBack ==
  /\ InList /\ active # None /\ ~Sticky(active)
  /\ Returned(active, FALSE)
  /\ EraseAtPos
  /\ pos' = pos - 1

RemoveRun ==
  /\ InList /\ active # None /\ ~Sticky(active)
  /\ Returned(active, FALSE)
  /\ EraseAtPos
  /\ UNCHANGED pos

KeepRun ==
  /\ InList /\ active # None /\ Sticky(active)
  /\ Returned(active, TRUE)
  /\ pos' = pos + 1
  /\ UNCHANGED list

\* The action of a sticky trigger returns Unpin.  The iterator that erase()
\* returned is then incremented: past the next trigger, or, from the end of the
\* list, to its beginning (undefined, but so in a circular std::list).
Unpin ==
  /\ InList /\ active # None /\ Sticky(active)
  /\ Returned(active, TRUE)
  /\ EraseAtPos
  /\ pos' = IF pos = Len(list[Event]) THEN 1 ELSE pos + 1

(* TimeCallback::trigger: the earliest first, those of one time in any order. *)

ExecuteTimed ==
  /\ Pass("time") /\ active = None
  /\ \E r \in timed :
       /\ Due(r) /\ \A q \in timed : r.time <= q.time
       /\ timed' = timed \ {r}
       /\ active' = r.trigger
  /\ UNCHANGED <<trigger, queue, list, fired, history, now, state, passes, pos>>

TimedRun ==
  /\ Pass("time") /\ active # None
  /\ Returned(active, FALSE)
  /\ UNCHANGED <<list, pos>>

-----------------------------------------------------------------------------
(* The states.                                                             *)

PassEnds ==
  /\ passes # <<>> /\ active = None
  /\ \/ Pass("queue") /\ queue = <<>>
     \/ Pass("time") /\ \A r \in timed : ~Due(r)
     \/ InList /\ pos > Len(list[Event])
  /\ passes' = Tail(passes) /\ pos' = 1
  /\ now' = IF state = "START" /\ passes' = <<>> THEN now + 1 ELSE now
  /\ UNCHANGED <<trigger, places, fired, history, state, active>>

Enter(s) ==
  /\ state' = s /\ passes' = Passes[s]
  /\ pos' = 1 /\ active' = None
  /\ UNCHANGED <<trigger, places, fired, history>>

EnterNext(s) ==
  /\ passes = <<>> /\ s \in Follow[state]
  /\ s = "STEP_END" => now < MaxTime
  /\ now' = IF s = "STEP_END" THEN now + 1 ELSE now
  /\ Enter(s)

\* The action throws, or something else in the state does.  Stop and Reset may
\* follow, or the end of the run.  A trigger of a list stays there; a timed one
\* is lost.
Throws ==
  /\ passes # <<>>
  /\ \E s \in {"STOP", "RESET", "DONE"} : Enter(s)
  /\ UNCHANGED now

Ended == state = "DONE" /\ UNCHANGED vars

Next ==
  \/ \E k \in Kinds : QueueTrigger(k) \/ InsertFromLua(k)
  \/ ProcessPending
  \/ ConditionFails \/ Execute \/ RemoveRun \/ KeepRun \/ Unpin
  \/ ExecuteTimed \/ TimedRun
  \/ PassEnds \/ Throws
  \/ \E s \in DOMAIN Passes : EnterNext(s)
  \/ Ended

Spec == Init /\ [][Next]_vars

-----------------------------------------------------------------------------
(* Properties.                                                             *)

Ids == 1..Len(trigger)

TimedTriggers == {r.trigger : r \in timed}

\* The trigger that was popped from the timed ones and is being executed.
Popped == IF Pass("time") /\ active # None THEN {active} ELSE {}

Waiting == ToSet(queue) \cup TimedTriggers \cup Popped
           \cup UNION {ToSet(list[e]) : e \in DirectEvents}

\* A sticky trigger of a list is pinned; a timed one is not, it is "discarded".
Pinned  == {t \in Ids : Sticky(t) /\ trigger[t].event \in DirectEvents}
OneShot == {t \in Ids : trigger[t].event \in TimedEvents}

\* Every variable has its type; only triggers that have run are in the history,
\* and the iterator never stands before the beginning of a list.
TypeOK ==
  /\ trigger \in Seq(Kind)
  /\ queue \in Seq(Nat) /\ list \in [DirectEvents -> Seq(Nat)]
  /\ timed \subseteq [trigger : Nat, time : Nat]
  /\ fired \subseteq Nat /\ history \subseteq fired
  /\ now \in Nat /\ state \in DOMAIN Passes
  /\ passes \in Seq(DirectEvents \cup {"queue", "time"})
  /\ pos \in Nat \ {0} /\ active \in Nat

\* A trigger is in one place: it is never in the queue and in a callback, in two
\* callbacks, or twice in one of them: the unique_ptr of a trigger that an action
\* inserts or that a pass removes is moved, whatever the pass is doing.  (This says
\* where a trigger is, not how often it runs: a pass that removes a trigger at the
\* end of the list goes on behind it, registrar.hpp:62, and may start over.)
OnePlace ==
  /\ \A i, j \in DOMAIN queue : queue[i] = queue[j] => i = j
  /\ \A e \in DirectEvents : \A i, j \in DOMAIN list[e] : list[e][i] = list[e][j] => i = j
  /\ \A e \in DirectEvents : \A t \in ToSet(list[e]) : trigger[t].event = e
  /\ \A q, r \in timed : q.trigger = r.trigger => q = r
  /\ ToSet(queue) \cap UNION {ToSet(list[e]) : e \in DirectEvents} = {}
  /\ (TimedTriggers \cup Popped) \cap
       (ToSet(queue) \cup UNION {ToSet(list[e]) : e \in DirectEvents}) = {}

\* The triggers of one event that were queued are stored, and tried when the
\* event occurs, in the order in which they were queued, whichever state empties
\* the queue, and whatever was run or removed before.
Queued(t) == trigger[t].source # "LUA"

InOrder ==
  /\ \A i, j \in DOMAIN queue :
       i < j /\ trigger[queue[i]].event = trigger[queue[j]].event => queue[i] < queue[j]
  /\ \A e \in DirectEvents : \A i \in DOMAIN list[e] : Queued(list[e][i]) =>
       /\ \A j \in DOMAIN list[e] : i < j /\ Queued(list[e][j]) => list[e][i] < list[e][j]
       /\ \A j \in DOMAIN queue : trigger[queue[j]].event = e => list[e][i] < queue[j]

\* The coordinator keeps its promise: every trigger that was inserted waits, has
\* run, or is a timed one whose action threw, and only pinned ones run again.
Board == INSTANCE TriggerBoard WITH
  Bound <- MaxTriggers, inserted <- Len(trigger), pinned <- Pinned,
  oneShot <- OneShot, waiting <- Waiting
BoardSpec == Board!Spec

\* The models of a step are processed only after every trigger that is due by the
\* time of the step has run, those that actions inserted meanwhile included.
DueBeforeModels ==
  [][state = "STEP_BEGIN" /\ state' = "STEP" => \A r \in timed : r.time > now]_vars

=============================================================================
