--------------------------- MODULE Triggers_proofs ---------------------------
(***************************************************************************)
(* Theorems about Triggers, for all kinds of triggers, however many are     *)
(* inserted, and that it implements TriggerBoard.                           *)
(***************************************************************************)
EXTENDS Triggers, SequenceTheorems, TLAPS

-----------------------------------------------------------------------------
(* Sequences.                                                              *)

\* What is left of a sequence when the element at i has been erased.
LEMMA RemoveAtProperties ==
  ASSUME NEW S, NEW s \in Seq(S), NEW i \in 1 .. Len(s)
  PROVE  /\ RemoveAt(s, i) \in Seq(S)
         /\ DOMAIN RemoveAt(s, i) = 1 .. Len(s) - 1
         /\ \A j \in 1 .. Len(s) - 1 : RemoveAt(s, i)[j] = IF j < i THEN s[j] ELSE s[j + 1]
<1>. DEFINE l == SubSeq(s, 1, i - 1)
            r == SubSeq(s, i + 1, Len(s))
<1>1. l \in Seq(S) /\ Len(l) = i - 1 /\ \A j \in 1 .. i - 1 : l[j] = s[j]
  OBVIOUS
<1>2. r \in Seq(S) /\ Len(r) = Len(s) - i /\ \A j \in 1 .. Len(s) - i : r[j] = s[i + j]
  OBVIOUS
<1>. HIDE DEF l, r
<1>3. l \o r \in Seq(S) /\ Len(l \o r) = Len(l) + Len(r)
  BY <1>1, <1>2, ConcatProperties
<1>4. ASSUME NEW j \in 1 .. Len(s) - 1
      PROVE  (l \o r)[j] = IF j < i THEN s[j] ELSE s[j + 1]
  BY <1>1, <1>2
<1>5. RemoveAt(s, i) = l \o r
  BY DEF RemoveAt, l, r
<1>6. DOMAIN (l \o r) = 1 .. Len(s) - 1
  BY <1>1, <1>2, <1>3
<1>. QED  BY <1>3, <1>4, <1>5, <1>6

\* What appending adds.
LEMMA AppendMembers ==
  ASSUME NEW S, NEW s \in Seq(S), NEW t \in S
  PROVE  /\ Append(s, t) \in Seq(S)
         /\ DOMAIN Append(s, t) = 1 .. Len(s) + 1
         /\ \A i \in DOMAIN s : Append(s, t)[i] = s[i]
         /\ Append(s, t)[Len(s) + 1] = t
OBVIOUS

\* What the tail of a sequence is.
LEMMA TailMembers ==
  ASSUME NEW S, NEW s \in Seq(S), s # <<>>
  PROVE  /\ Tail(s) \in Seq(S) /\ Head(s) = s[1] /\ s[1] \in S
         /\ DOMAIN Tail(s) = 1 .. Len(s) - 1
         /\ \A i \in DOMAIN Tail(s) : i + 1 \in DOMAIN s /\ Tail(s)[i] = s[i + 1]
OBVIOUS

\* The passes of a state, and what is left of them after one.
LEMMA PassesType == \A s \in DOMAIN Passes : Passes[s] \in Seq(DirectEvents \cup {"queue", "time"})
<1>. DEFINE P == DirectEvents \cup {"queue", "time"}
<1>1. /\ "start" \in P /\ "loop" \in P /\ "data" \in P /\ "pause" \in P /\ "resume" \in P
      /\ "success" \in P /\ "failure" \in P /\ "stop" \in P /\ "reset" \in P
      /\ "queue" \in P /\ "time" \in P
  BY DEF DirectEvents
<1>. HIDE DEF P
<1>2. \A a, b, c \in P : /\ <<>> \in Seq(P) /\ <<a>> \in Seq(P) /\ <<a, b>> \in Seq(P) /\ <<a, b, c>> \in Seq(P)
  OBVIOUS
<1>3. /\ Passes.CONNECT \in Seq(P) /\ Passes.START \in Seq(P) /\ Passes.STEP_BEGIN \in Seq(P)
      /\ Passes.STEP \in Seq(P) /\ Passes.STEP_END \in Seq(P) /\ Passes.PAUSE \in Seq(P)
      /\ Passes.RESUME \in Seq(P) /\ Passes.SUCCESS \in Seq(P) /\ Passes.FAIL \in Seq(P)
      /\ Passes.STOP \in Seq(P) /\ Passes.KEEP_ALIVE \in Seq(P) /\ Passes.RESET \in Seq(P)
      /\ Passes.DONE \in Seq(P)
  BY <1>1, <1>2 DEF Passes
<1>4. DOMAIN Passes = {"CONNECT", "START", "STEP_BEGIN", "STEP", "STEP_END", "PAUSE", "RESUME",
                       "SUCCESS", "FAIL", "STOP", "KEEP_ALIVE", "RESET", "DONE"}
  BY DEF Passes
<1>. QED  BY <1>3, <1>4 DEF P

-----------------------------------------------------------------------------
(* Type correctness.                                                       *)

\* A trigger is stored in the callback of its event.
LEMMA StoreType ==
  ASSUME TypeOK, NEW t \in Nat, NEW k \in Kind, Store(t, k)
  PROVE  list' \in [DirectEvents -> Seq(Nat)] /\ timed' \subseteq [trigger : Nat, time : Nat]
<1>1. k.event \in DirectEvents \cup TimedEvents /\ When(k) \in Nat
  BY DEF Kind, When, TypeOK
<1>2. CASE k.event \in DirectEvents
  <2>1. Append(list[k.event], t) \in Seq(Nat)
    BY <1>2 DEF TypeOK
  <2>. QED  BY <1>2, <2>1 DEF Store, TypeOK
<1>3. CASE k.event \notin DirectEvents
  BY <1>1, <1>3 DEF Store, TypeOK
<1>. QED  BY <1>2, <1>3

\* The callback that is being gone through, when a trigger is erased from it.
LEMMA EraseType ==
  ASSUME TypeOK, InList, pos \in DOMAIN list[Event], EraseAtPos
  PROVE  list' \in [DirectEvents -> Seq(Nat)]
<1>1. Event \in DirectEvents /\ list[Event] \in Seq(Nat) /\ pos \in 1 .. Len(list[Event])
  BY DEF InList, TypeOK
<1>2. RemoveAt(list[Event], pos) \in Seq(Nat)
  BY <1>1, RemoveAtProperties
<1>. QED  BY <1>1, <1>2 DEF EraseAtPos, TypeOK

\* Wherever a trigger is kept there are triggers that were inserted, each in the
\* callback of its event, and the queue has none of Lua's.
Numbered ==
  /\ \A i \in DOMAIN queue : queue[i] \in Ids /\ Queued(queue[i])
  /\ \A e \in DirectEvents : \A i \in DOMAIN list[e] :
       list[e][i] \in Ids /\ trigger[list[e][i]].event = e
  /\ \A r \in timed : r.trigger \in OneShot

\* The action that is running is that of the trigger at the iterator, or that of the
\* timed trigger that was taken out of the heap.
Executing ==
  active # None =>
    \/ InList /\ pos \in DOMAIN list[Event] /\ list[Event][pos] = active
    \/ Pass("time") /\ active \in OneShot \ TimedTriggers

\* No trigger is in two places.
Apart ==
  /\ \A i, j \in DOMAIN queue : queue[i] = queue[j] => i = j
  /\ \A e \in DirectEvents : \A i, j \in DOMAIN list[e] : list[e][i] = list[e][j] => i = j
  /\ \A q, r \in timed : q.trigger = r.trigger => q = r
  /\ \A i \in DOMAIN queue : \A e \in DirectEvents : \A j \in DOMAIN list[e] : queue[i] # list[e][j]
  /\ \A i \in DOMAIN queue : queue[i] \notin TimedTriggers \cup Popped

\* Whatever has left the queue was inserted before what is still there.
Ordered ==
  /\ \A i, j \in DOMAIN queue : i < j => queue[i] < queue[j]
  /\ \A e \in DirectEvents : \A i \in DOMAIN list[e] : Queued(list[e][i]) =>
       /\ \A j \in DOMAIN list[e] : i < j /\ Queued(list[e][j]) => list[e][i] < list[e][j]
       /\ \A j \in DOMAIN queue : list[e][i] < queue[j]

\* The last thing StepBegin does is to run the triggers that are due.
DueRun ==
  state = "STEP_BEGIN" =>
    /\ passes \in {<<"loop", "time">>, <<"time">>, <<>>}
    /\ passes = <<>> => \A r \in timed : ~Due(r)

TriggersInv == TypeOK /\ Numbered /\ Executing /\ Apart /\ Ordered /\ DueRun

-----------------------------------------------------------------------------
(* What the operations do to the lists.                                    *)

\* Storing a trigger adds it at the end of one list, or to the timed ones.
LEMMA StoreMembers ==
  ASSUME TypeOK, NEW t \in Nat, NEW k \in Kind, Store(t, k)
  PROVE  /\ \A e \in DirectEvents :
              /\ \A i \in DOMAIN list[e] : i \in DOMAIN list'[e] /\ list'[e][i] = list[e][i]
              /\ \A i \in DOMAIN list'[e] :
                   \/ i \in DOMAIN list[e]
                   \/ e = k.event /\ i = Len(list[e]) + 1 /\ list'[e][i] = t
         /\ \A r \in timed' : r \in timed \/ (k.event \in TimedEvents /\ r.trigger = t)
         /\ timed \subseteq timed'
<1>1. k.event \in DirectEvents \cup TimedEvents
  BY DEF Kind
<1>2. ASSUME NEW e \in DirectEvents
      PROVE  /\ \A i \in DOMAIN list[e] : i \in DOMAIN list'[e] /\ list'[e][i] = list[e][i]
             /\ \A i \in DOMAIN list'[e] :
                  \/ i \in DOMAIN list[e]
                  \/ e = k.event /\ i = Len(list[e]) + 1 /\ list'[e][i] = t
  <2>1. list[e] \in Seq(Nat) /\ DOMAIN list[e] = 1 .. Len(list[e])
    BY DEF TypeOK
  <2>2. CASE e = k.event
    <3>1. list'[e] = Append(list[e], t)
      BY <2>2 DEF Store, TypeOK
    <3>. QED  BY <2>1, <2>2, <3>1, AppendMembers
  <2>3. CASE e # k.event
    BY <2>3 DEF Store, TypeOK
  <2>. QED  BY <2>2, <2>3
<1>3. /\ \A r \in timed' : r \in timed \/ (k.event \in TimedEvents /\ r.trigger = t)
      /\ timed \subseteq timed'
  BY <1>1 DEF Store
<1>. QED  BY <1>2, <1>3

\* The place in its list, before the erasure, of what is at i in the one of e after it.
Before(e, i) == IF e = Event /\ i >= pos THEN i + 1 ELSE i

LEMMA EraseMembers ==
  ASSUME TypeOK, InList, pos \in DOMAIN list[Event], EraseAtPos
  PROVE  /\ \A e \in DirectEvents : \A i \in DOMAIN list'[e] :
              /\ i \in Nat /\ Before(e, i) \in DOMAIN list[e]
              /\ list'[e][i] = list[e][Before(e, i)]
         /\ \A e \in DirectEvents : \A i \in DOMAIN list[e] : ~(e = Event /\ i = pos) =>
              \E j \in DOMAIN list'[e] : list'[e][j] = list[e][i]
<1>1. Event \in DirectEvents /\ list[Event] \in Seq(Nat) /\ pos \in 1 .. Len(list[Event])
  BY DEF InList, TypeOK
<1>2. /\ DOMAIN list'[Event] = 1 .. Len(list[Event]) - 1
      /\ \A j \in 1 .. Len(list[Event]) - 1 :
           list'[Event][j] = IF j < pos THEN list[Event][j] ELSE list[Event][j + 1]
  BY <1>1, RemoveAtProperties DEF EraseAtPos, TypeOK
<1>3. \A e \in DirectEvents \ {Event} : list'[e] = list[e] /\ list[e] \in Seq(Nat)
  BY <1>1 DEF EraseAtPos, TypeOK
<1>4. ASSUME NEW e \in DirectEvents, NEW i \in DOMAIN list'[e]
      PROVE  i \in Nat /\ Before(e, i) \in DOMAIN list[e] /\ list'[e][i] = list[e][Before(e, i)]
  <2>1. CASE e = Event
    <3>1. i \in 1 .. Len(list[Event]) - 1 /\ pos \in Nat /\ Len(list[Event]) \in Nat
      BY <1>1, <1>2, <2>1
    <3>2. list'[Event][i] = IF i < pos THEN list[Event][i] ELSE list[Event][i + 1]
      BY <1>2, <3>1
    <3>3. /\ Before(e, i) = IF i < pos THEN i ELSE i + 1
          /\ i \in 1 .. Len(list[Event]) /\ i + 1 \in 1 .. Len(list[Event])
      BY <2>1, <3>1 DEF Before
    <3>4. DOMAIN list[Event] = 1 .. Len(list[Event])
      BY <1>1
    <3>. QED  BY <2>1, <3>1, <3>2, <3>3, <3>4
  <2>2. CASE e # Event
    BY <1>3, <1>4, <2>2 DEF Before
  <2>. QED  BY <2>1, <2>2
<1>5. ASSUME NEW e \in DirectEvents, NEW i \in DOMAIN list[e], ~(e = Event /\ i = pos)
      PROVE  \E j \in DOMAIN list'[e] : list'[e][j] = list[e][i]
  <2>1. CASE e # Event
    BY <1>3, <2>1
  <2>2. CASE e = Event /\ i < pos
    <3>1. i \in 1 .. Len(list[Event]) - 1
      BY <1>1, <2>2
    <3>2. list'[Event][i] = list[Event][i]
      BY <1>2, <2>2, <3>1
    <3>. QED  BY <1>2, <2>2, <3>1, <3>2
  <2>3. CASE e = Event /\ i > pos
    <3>1. i - 1 \in 1 .. Len(list[Event]) - 1 /\ ~(i - 1 < pos) /\ (i - 1) + 1 = i
      BY <1>1, <2>3
    <3>2. list'[Event][i - 1] = list[Event][i]
      BY <1>2, <3>1
    <3>. QED  BY <1>2, <2>3, <3>1, <3>2
  <2>. QED  BY <1>1, <1>5, <2>1, <2>2, <2>3
<1>. QED  BY <1>4, <1>5

-----------------------------------------------------------------------------
(* The steps.                                                              *)

\* Nothing is moved.
LEMMA NothingMoved ==
  ASSUME TriggersInv, UNCHANGED <<trigger, places>>, Popped' \subseteq Popped
  PROVE  (Numbered /\ Apart /\ Ordered)'
<1>1. Numbered'
  BY DEF TriggersInv, Numbered, places, Ids, Queued, OneShot
<1>2. Apart'
  BY DEF TriggersInv, Apart, places, TimedTriggers
<1>3. Ordered'
  BY DEF TriggersInv, Ordered, places, Queued
<1>. QED  BY <1>1, <1>2, <1>3

LEMMA QueueTriggerInv ==
  ASSUME TriggersInv, NEW k \in Kinds, QueueTrigger(k)
  PROVE  TriggersInv'
<1>. DEFINE n == Len(trigger) + 1
<1>1. /\ k \in Kind /\ n \in Nat \ {0}
      /\ trigger' = Append(trigger, k) /\ queue' = Append(queue, n)
      /\ UNCHANGED <<list, timed, fired, history, now, state, passes, pos, active>>
  BY KindsAssumption DEF QueueTrigger, TriggersInv, TypeOK, progress
<1>2. /\ trigger' \in Seq(Kind) /\ Len(trigger') = n
      /\ \A t \in Ids : t < n /\ trigger'[t] = trigger[t]
      /\ trigger'[n] = k
  BY <1>1 DEF TriggersInv, TypeOK, Ids
<1>3. /\ queue' \in Seq(Nat)
      /\ DOMAIN queue = 1 .. Len(queue) /\ DOMAIN queue' = 1 .. Len(queue) + 1
      /\ \A i \in DOMAIN queue : queue'[i] = queue[i]
      /\ queue'[Len(queue) + 1] = n
  BY <1>1, AppendMembers DEF TriggersInv, TypeOK
<1>. HIDE DEF n
<1>4. TypeOK'
  BY <1>1, <1>2, <1>3 DEF TriggersInv, TypeOK
<1>5. Numbered'
  BY <1>1, <1>2, <1>3 DEF TriggersInv, TypeOK, Numbered, Ids, Queued, OneShot, Sticky, QueueTrigger
<1>6. Executing'
  BY <1>1, <1>2 DEF TriggersInv, Executing, InList, Pass, Event, OneShot, Ids, TimedTriggers
<1>7. \A t \in Ids : t # n
  BY <1>1, <1>2 DEF Ids
<1>8. n \notin TimedTriggers \cup Popped
  BY <1>7 DEF TriggersInv, Numbered, Executing, OneShot, TimedTriggers, Popped, InList, Pass, Event
<1>9. Apart'
  BY <1>1, <1>3, <1>7, <1>8 DEF TriggersInv, Numbered, Apart, TimedTriggers, Popped, Pass
<1>10. Ordered'
  <2>1. queue \in Seq(Nat) /\ list' = list /\ Ordered
    BY <1>1 DEF TriggersInv, TypeOK
  <2>2. \A i \in DOMAIN queue : queue[i] \in Ids
    BY DEF TriggersInv, Numbered
  <2>3. \A e \in DirectEvents : \A i \in DOMAIN list[e] : list[e][i] \in Ids
    BY DEF TriggersInv, Numbered
  <2>4. \A i, j \in DOMAIN queue' : i < j => queue'[i] < queue'[j]
    <3>1. ASSUME NEW i \in DOMAIN queue', NEW j \in DOMAIN queue', i < j, j \in DOMAIN queue
          PROVE  queue'[i] < queue'[j]
      <4>1. i \in DOMAIN queue
        BY <1>3, <2>1, <3>1
      <4>. QED  BY <1>3, <2>1, <3>1, <4>1 DEF Ordered
    <3>2. ASSUME NEW i \in DOMAIN queue', i < Len(queue) + 1
          PROVE  queue'[i] < n
      <4>1. i \in DOMAIN queue
        BY <1>3, <2>1, <3>2
      <4>. QED  BY <1>2, <1>3, <2>2, <4>1
    <3>. QED  BY <1>3, <2>1, <3>1, <3>2
  <2>5. ASSUME NEW t \in Ids
        PROVE  Queued(t)' = Queued(t)
    BY <1>2 DEF Queued
  <2>6. ASSUME NEW e \in DirectEvents, NEW i \in DOMAIN list[e], Queued(list[e][i])
        PROVE  \A j \in DOMAIN queue' : list[e][i] < queue'[j]
    <3>1. list[e][i] < n
      BY <1>2, <2>3
    <3>2. \A j \in DOMAIN queue : list[e][i] < queue[j]
      BY <2>1, <2>6 DEF Ordered
    <3>. QED  BY <1>3, <2>1, <3>1, <3>2
  <2>7. ASSUME NEW e \in DirectEvents, NEW i \in DOMAIN list[e], Queued(list[e][i])'
        PROVE  /\ \A j \in DOMAIN list[e] :
                    i < j /\ Queued(list[e][j])' => list[e][i] < list[e][j]
               /\ \A j \in DOMAIN queue' : list[e][i] < queue'[j]
    <3>1. \A j \in DOMAIN list[e] : Queued(list[e][j])' => Queued(list[e][j])
      BY <2>1, <2>3, <2>5
    <3>2. \A j \in DOMAIN list[e] :
            i < j /\ Queued(list[e][j]) => list[e][i] < list[e][j]
      BY <2>1, <2>7, <3>1 DEF Ordered
    <3>. QED  BY <2>6, <2>7, <3>1, <3>2
  <2>. QED  BY <2>1, <2>4, <2>7 DEF Ordered
<1>11. DueRun'
  BY <1>1 DEF TriggersInv, DueRun, Due
<1>. QED  BY <1>4, <1>5, <1>6, <1>9, <1>10, <1>11 DEF TriggersInv

\* A script may insert while a list is gone through: the iterator stays where it is.
LEMMA InsertFromLuaInv ==
  ASSUME TriggersInv, NEW k \in Kinds, InsertFromLua(k)
  PROVE  TriggersInv'
<1>. DEFINE n == Len(trigger) + 1
<1>1. /\ k \in Kind /\ n \in Nat \ {0}
      /\ trigger' = Append(trigger, k) /\ k.source = "LUA"
      /\ state = "CONNECT" \/ active # None
      /\ UNCHANGED <<queue, fired, history, now, state, passes, pos, active>>
  BY KindsAssumption DEF InsertFromLua, TriggersInv, TypeOK, progress
<1>2. /\ trigger' \in Seq(Kind) /\ Len(trigger') = n
      /\ \A t \in Ids : t < n /\ trigger'[t] = trigger[t]
      /\ trigger'[n] = k
  BY <1>1 DEF TriggersInv, TypeOK, Ids
<1>3. Store(n, k)
  BY <1>2 DEF InsertFromLua
<1>. HIDE DEF n
<1>4. TypeOK /\ \A t \in Ids : t # n
  BY <1>1, <1>2 DEF TriggersInv, Ids
<1>5. /\ \A e \in DirectEvents :
           /\ \A i \in DOMAIN list[e] : i \in DOMAIN list'[e] /\ list'[e][i] = list[e][i]
           /\ \A i \in DOMAIN list'[e] :
                \/ i \in DOMAIN list[e]
                \/ e = k.event /\ i = Len(list[e]) + 1 /\ list'[e][i] = n
      /\ \A r \in timed' : r \in timed \/ (k.event \in TimedEvents /\ r.trigger = n)
      /\ timed \subseteq timed'
  BY <1>1, <1>3, <1>4, StoreMembers
<1>6. TypeOK'
  BY <1>1, <1>2, <1>3, StoreType DEF TriggersInv, TypeOK
<1>7. Numbered'
  <2>1. n \in Ids' /\ Ids \subseteq Ids'
    <3>1. Len(trigger) \in Nat
      BY <1>4 DEF TypeOK
    <3>. QED  BY <1>1, <1>2, <3>1 DEF Ids, n
  <2>2. \A i \in DOMAIN queue' : queue'[i] \in Ids' /\ trigger'[queue'[i]].source # "LUA"
    BY <1>1, <1>2, <2>1 DEF TriggersInv, Numbered, Queued
  <2>3. \A e \in DirectEvents : \A i \in DOMAIN list'[e] :
          list'[e][i] \in Ids' /\ trigger'[list'[e][i]].event = e
    BY <1>2, <1>5, <2>1 DEF TriggersInv, Numbered
  <2>4. \A r \in timed' : r.trigger \in OneShot'
    BY <1>2, <1>5, <2>1 DEF TriggersInv, Numbered, OneShot
  <2>. QED  BY <2>2, <2>3, <2>4 DEF Numbered, Queued
<1>8. Executing'
  <2>1. InList => /\ (Event \in DirectEvents)
                  /\ (pos \in DOMAIN list[Event] => list'[Event][pos] = list[Event][pos])
                  /\ (pos \in DOMAIN list[Event] => pos \in DOMAIN list'[Event])
    BY <1>5 DEF InList
  <2>2. \A t \in OneShot : t \in OneShot' /\ (t \notin TimedTriggers => t \notin TimedTriggers')
    BY <1>1, <1>2, <1>4, <1>5 DEF OneShot, Ids, TimedTriggers
  <2>. QED  BY <1>1, <2>1, <2>2 DEF TriggersInv, Executing, InList, Pass, Event
<1>9. Apart'
  <2>1. /\ \A e \in DirectEvents : \A i \in DOMAIN list[e] : list[e][i] # n
        /\ \A i \in DOMAIN queue : queue[i] # n
        /\ \A r \in timed : r.trigger # n
    BY <1>4 DEF TriggersInv, Numbered, OneShot
  <2>2. \A e \in DirectEvents : \A i, j \in DOMAIN list'[e] : list'[e][i] = list'[e][j] => i = j
    BY <1>5, <2>1 DEF TriggersInv, Apart
  <2>3. \A q, r \in timed' : q.trigger = r.trigger => q = r
    <3>1. CASE k.event \in DirectEvents
      BY <1>3, <3>1 DEF Store, TriggersInv, Apart
    <3>2. CASE k.event \notin DirectEvents
      BY <1>3, <2>1, <3>2 DEF Store, TriggersInv, Apart
    <3>. QED  BY <3>1, <3>2
  <2>4. \A i \in DOMAIN queue : \A e \in DirectEvents : \A j \in DOMAIN list'[e] :
          queue[i] # list'[e][j]
    BY <1>5, <2>1 DEF TriggersInv, Apart
  <2>5. \A i \in DOMAIN queue : queue[i] \notin (TimedTriggers \cup Popped)'
    BY <1>1, <1>5, <2>1 DEF TriggersInv, Apart, TimedTriggers, Popped, Pass
  <2>. QED  BY <1>1, <2>2, <2>3, <2>4, <2>5 DEF TriggersInv, Apart
<1>10. Ordered'
  <2>1. trigger'[n].source = "LUA" /\ \A t \in Ids : trigger'[t].source = trigger[t].source
    BY <1>1, <1>2
  <2>2. ASSUME NEW e \in DirectEvents, NEW i \in DOMAIN list'[e], trigger'[list'[e][i]].source # "LUA"
        PROVE  i \in DOMAIN list[e] /\ list'[e][i] = list[e][i] /\ Queued(list[e][i])
    BY <1>5, <2>1, <2>2 DEF TriggersInv, Numbered, Queued
  <2>3. \A i, j \in DOMAIN queue' : i < j => queue'[i] < queue'[j]
    BY <1>1 DEF TriggersInv, Ordered
  <2>4. ASSUME NEW e \in DirectEvents, NEW i \in DOMAIN list'[e], trigger'[list'[e][i]].source # "LUA"
        PROVE  /\ \A j \in DOMAIN list'[e] :
                    i < j /\ trigger'[list'[e][j]].source # "LUA" => list'[e][i] < list'[e][j]
               /\ \A j \in DOMAIN queue' : list'[e][i] < queue'[j]
    BY <1>1, <2>2, <2>4 DEF TriggersInv, Ordered
  <2>. QED  BY <2>3, <2>4 DEF Ordered, Queued
<1>11. DueRun'
  BY <1>1 DEF TriggersInv, DueRun, Executing, InList, Pass
<1>. QED  BY <1>6, <1>7, <1>8, <1>9, <1>10, <1>11 DEF TriggersInv

\* The first of the queue is stored behind all that have left it before.
LEMMA ProcessPendingInv ==
  ASSUME TriggersInv, ProcessPending
  PROVE  TriggersInv'
<1>. DEFINE t == Head(queue)
            k == trigger[t]
<1>1. /\ passes # <<>> /\ Head(passes) = "queue" /\ queue # <<>> /\ queue' = Tail(queue) /\ Store(t, k)
      /\ UNCHANGED <<trigger, fired, history, now, state, passes, pos, active>>
  BY DEF ProcessPending, Pass, progress
<1>2. TypeOK
  BY DEF TriggersInv
<1>3. /\ queue' \in Seq(Nat) /\ t = queue[1] /\ 1 \in DOMAIN queue
      /\ \A i \in DOMAIN queue' : i \in Nat \ {0} /\ i + 1 \in DOMAIN queue /\ queue'[i] = queue[i + 1]
  BY <1>1, <1>2, TailMembers DEF TypeOK
<1>4. t \in Ids /\ t \in Nat /\ k \in Kind
  BY <1>2, <1>3 DEF TriggersInv, Numbered, TypeOK, Ids
<1>5. /\ \A i \in DOMAIN queue' : queue'[i] # t /\ t < queue'[i]
      /\ \A e \in DirectEvents : \A i \in DOMAIN list[e] : list[e][i] # t
      /\ \A r \in timed : r.trigger # t
  <2>1. \A i \in DOMAIN queue' : 1 < i + 1
    BY <1>3
  <2>2. \A i \in DOMAIN queue' : t < queue'[i]
    BY <1>3, <2>1 DEF TriggersInv, Ordered
  <2>3. \A i \in DOMAIN queue' : queue'[i] \in Nat
    BY <1>3
  <2>4. \A e \in DirectEvents : \A i \in DOMAIN list[e] : list[e][i] # t
    BY <1>3 DEF TriggersInv, Apart
  <2>5. \A r \in timed : r.trigger # t
    BY <1>3 DEF TriggersInv, Apart, TimedTriggers
  <2>. QED  BY <1>4, <2>2, <2>3, <2>4, <2>5
<1>6. Queued(t) /\ k.event \in DirectEvents \cup TimedEvents
  BY <1>3, <1>4 DEF TriggersInv, Numbered, Kind
<1>. HIDE DEF t, k
<1>7. /\ \A e \in DirectEvents :
           /\ \A i \in DOMAIN list[e] : i \in DOMAIN list'[e] /\ list'[e][i] = list[e][i]
           /\ \A i \in DOMAIN list'[e] :
                \/ i \in DOMAIN list[e]
                \/ e = k.event /\ i = Len(list[e]) + 1 /\ list'[e][i] = t
      /\ \A r \in timed' : r \in timed \/ (k.event \in TimedEvents /\ r.trigger = t)
      /\ timed \subseteq timed'
  BY <1>1, <1>2, <1>4, StoreMembers
<1>8. TypeOK'
  BY <1>1, <1>2, <1>3, <1>4, StoreType DEF TypeOK
<1>9. Numbered'
  <2>1. k = trigger[t]
    BY DEF k
  <2>2. Ids' = Ids /\ \A i : Queued(i)' = Queued(i)
    BY <1>1 DEF Queued, Ids
  <2>3. \A i \in DOMAIN queue' : queue'[i] \in Ids /\ Queued(queue'[i])
    BY <1>3 DEF TriggersInv, Numbered
  <2>4. \A e \in DirectEvents : \A i \in DOMAIN list'[e] :
          list'[e][i] \in Ids /\ trigger[list'[e][i]].event = e
    BY <1>4, <1>7, <2>1 DEF TriggersInv, Numbered
  <2>5. \A r \in timed' : r.trigger \in OneShot
    BY <1>4, <1>7, <2>1 DEF TriggersInv, Numbered, OneShot
  <2>. QED  BY <1>1, <2>2, <2>3, <2>4, <2>5 DEF Numbered, OneShot, Ids
<1>10. active = None
  BY <1>1 DEF TriggersInv, Executing, InList, Pass, Event, DirectEvents
<1>11. Executing'
  BY <1>1, <1>10 DEF Executing
<1>12. Apart'
  <2>1. \A i, j \in DOMAIN queue' : queue'[i] = queue'[j] => i = j
    BY <1>3 DEF TriggersInv, Apart
  <2>2. \A e \in DirectEvents : \A i, j \in DOMAIN list'[e] : list'[e][i] = list'[e][j] => i = j
    BY <1>5, <1>7 DEF TriggersInv, Apart
  <2>3. \A q, r \in timed' : q.trigger = r.trigger => q = r
    <3>1. CASE k.event \in DirectEvents
      BY <1>1, <3>1 DEF Store, TriggersInv, Apart
    <3>2. CASE k.event \notin DirectEvents
      BY <1>1, <1>5, <3>2 DEF Store, TriggersInv, Apart
    <3>. QED  BY <3>1, <3>2
  <2>4. \A i \in DOMAIN queue' : \A e \in DirectEvents : \A j \in DOMAIN list'[e] :
          queue'[i] # list'[e][j]
    BY <1>3, <1>5, <1>7 DEF TriggersInv, Apart
  <2>5. \A i \in DOMAIN queue' : queue'[i] \notin (TimedTriggers \cup Popped)'
    BY <1>1, <1>3, <1>5, <1>7, <1>10 DEF TriggersInv, Apart, TimedTriggers, Popped
  <2>. QED  BY <2>1, <2>2, <2>3, <2>4, <2>5 DEF Apart
<1>13. Ordered'
  <2>1. \A i : Queued(i)' = Queued(i)
    BY <1>1 DEF Queued
  <2>2. \A i, j \in DOMAIN queue' : i < j => queue'[i] < queue'[j]
    BY <1>3 DEF TriggersInv, Ordered
  <2>3. ASSUME NEW e \in DirectEvents, NEW i \in DOMAIN list'[e], Queued(list'[e][i])
        PROVE  /\ \A j \in DOMAIN list'[e] : i < j /\ Queued(list'[e][j]) => list'[e][i] < list'[e][j]
               /\ \A j \in DOMAIN queue' : list'[e][i] < queue'[j]
    <3>1. DOMAIN list[e] = 1 .. Len(list[e]) /\ Len(list[e]) \in Nat
      BY <1>2 DEF TypeOK
    <3>2. CASE i \in DOMAIN list[e]
      <4>1. list'[e][i] = list[e][i] /\ Queued(list[e][i]) /\ list[e][i] < queue[1]
        BY <1>3, <1>7, <2>3, <3>2 DEF TriggersInv, Ordered
      <4>2. \A j \in DOMAIN list'[e] : i < j /\ Queued(list'[e][j]) => list'[e][i] < list'[e][j]
        BY <1>3, <1>7, <3>2, <4>1 DEF TriggersInv, Ordered
      <4>3. \A j \in DOMAIN queue' : list'[e][i] < queue'[j]
        BY <1>3, <3>2, <4>1 DEF TriggersInv, Ordered
      <4>. QED  BY <4>2, <4>3
    <3>3. CASE i = Len(list[e]) + 1 /\ list'[e][i] = t
      <4>1. \A j \in DOMAIN list'[e] : ~(i < j)
        BY <1>7, <3>1, <3>3
      <4>. QED  BY <1>5, <3>3, <4>1
    <3>. QED  BY <1>7, <2>3, <3>2, <3>3
  <2>. QED  BY <2>1, <2>2, <2>3 DEF Ordered
<1>14. DueRun'
  BY <1>1, <1>2 DEF TriggersInv, DueRun
<1>. QED  BY <1>8, <1>9, <1>11, <1>12, <1>13, <1>14 DEF TriggersInv

\* A condition fails, an action begins, or the action of a pinned trigger returns.
LEMMA IteratorInv ==
  ASSUME TriggersInv, ConditionFails \/ Execute \/ KeepRun
  PROVE  TriggersInv'
<1>1. /\ InList /\ UNCHANGED <<trigger, places, now, state, passes>>
      /\ Popped' = {} /\ InList' /\ Event' = Event
  BY DEF ConditionFails, Execute, KeepRun, Returned, places, InList, Event, Popped, Pass, DirectEvents
<1>2. (Numbered /\ Apart /\ Ordered)'
  BY <1>1, NothingMoved
<1>3. Event \in DirectEvents /\ list[Event] \in Seq(Nat) /\ DOMAIN list[Event] = 1 .. Len(list[Event])
  BY <1>1 DEF TriggersInv, TypeOK, InList
<1>4. TypeOK'
  <2>1. pos' \in Nat \ {0}
    <3>1. pos \in Nat \ {0}
      BY DEF TriggersInv, TypeOK
    <3>2. pos' \in {pos, pos + 1}
      BY DEF ConditionFails, Execute, KeepRun
    <3>. QED  BY <3>1, <3>2
  <2>2. active' \in Nat
    BY <1>3 DEF ConditionFails, Execute, KeepRun, Returned, TriggersInv, TypeOK, None
  <2>3. fired' \subseteq Nat /\ history' \subseteq fired'
    BY DEF ConditionFails, Execute, KeepRun, Returned, TriggersInv, TypeOK
  <2>. QED  BY <1>1, <2>1, <2>2, <2>3 DEF TriggersInv, TypeOK, places
<1>5. Executing'
  <2>1. CASE Execute
    <3>1. pos \in DOMAIN list[Event]
      BY <1>3, <2>1 DEF Execute, TriggersInv, TypeOK
    <3>. QED  BY <1>1, <2>1, <3>1 DEF Execute, Executing, places
  <2>2. CASE ConditionFails \/ KeepRun
    BY <2>2 DEF ConditionFails, KeepRun, Returned, Executing
  <2>. QED  BY <2>1, <2>2
<1>6. DueRun'
  BY <1>1 DEF TriggersInv, DueRun, Due, places
<1>. QED  BY <1>2, <1>4, <1>5, <1>6 DEF TriggersInv

\* The action of a trigger of a list returns, and the trigger is erased.
LEMMA EraseInv ==
  ASSUME TriggersInv, RemoveRun \/ Unpin
  PROVE  TriggersInv'
<1>1. /\ InList /\ active # None /\ EraseAtPos /\ active' = None
      /\ UNCHANGED <<trigger, queue, timed, now, state, passes>>
      /\ Popped' = {} /\ TypeOK
  BY DEF RemoveRun, Unpin, Returned, TriggersInv, InList, Event, Popped, Pass
<1>2. Event \in DirectEvents /\ pos \in DOMAIN list[Event] /\ list[Event][pos] = active
  BY <1>1 DEF TriggersInv, Executing, InList, Pass, Event, DirectEvents
<1>3. \A e \in DirectEvents : \A i \in DOMAIN list'[e] :
           /\ i \in Nat /\ Before(e, i) \in DOMAIN list[e]
           /\ list'[e][i] = list[e][Before(e, i)]
  BY <1>1, <1>2, EraseMembers
<1>4. pos \in Nat \ {0}
  BY <1>1 DEF TypeOK
<1>5. \A e : \A i, j \in Nat : /\ (Before(e, i) = Before(e, j) => i = j)
                              /\ (i < j => Before(e, i) < Before(e, j))
  BY <1>4 DEF Before
<1>6. TypeOK'
  <2>1. pos' \in Nat \ {0}
    <3>1. pos' \in {pos, 1, pos + 1}
      BY DEF RemoveRun, Unpin
    <3>. QED  BY <1>4, <3>1
  <2>2. fired' \subseteq Nat /\ history' \subseteq fired'
    BY DEF RemoveRun, Unpin, Returned, TriggersInv, TypeOK
  <2>3. list' \in [DirectEvents -> Seq(Nat)]
    BY <1>1, <1>2, EraseType
  <2>. QED  BY <1>1, <2>1, <2>2, <2>3 DEF TypeOK, None
<1>7. Numbered'
  <2>1. Ids' = Ids /\ OneShot' = OneShot
    BY <1>1 DEF Ids, OneShot
  <2>2. \A e \in DirectEvents : \A i \in DOMAIN list'[e] :
          list'[e][i] \in Ids /\ trigger[list'[e][i]].event = e
    BY <1>3 DEF TriggersInv, Numbered
  <2>. QED  BY <1>1, <2>1, <2>2 DEF TriggersInv, Numbered, Queued
<1>8. Executing'
  BY <1>1 DEF Executing
<1>9. Apart'
  <2>1. \A e \in DirectEvents : \A i, j \in DOMAIN list'[e] : list'[e][i] = list'[e][j] => i = j
    BY <1>3, <1>5 DEF TriggersInv, Apart
  <2>2. \A i \in DOMAIN queue : \A e \in DirectEvents : \A j \in DOMAIN list'[e] :
          queue[i] # list'[e][j]
    BY <1>3 DEF TriggersInv, Apart
  <2>. QED  BY <1>1, <2>1, <2>2 DEF TriggersInv, Apart, TimedTriggers
<1>10. Ordered'
  <2>1. ASSUME NEW e \in DirectEvents, NEW i \in DOMAIN list'[e], Queued(list'[e][i])
        PROVE  /\ \A j \in DOMAIN list'[e] : i < j /\ Queued(list'[e][j]) => list'[e][i] < list'[e][j]
               /\ \A j \in DOMAIN queue : list'[e][i] < queue[j]
    <3>1. i \in Nat /\ Before(e, i) \in DOMAIN list[e] /\ list'[e][i] = list[e][Before(e, i)]
      BY <1>3
    <3>2. ASSUME NEW j \in DOMAIN list'[e], i < j, Queued(list'[e][j])
          PROVE  list'[e][i] < list'[e][j]
      <4>1. /\ j \in Nat /\ Before(e, j) \in DOMAIN list[e] /\ list'[e][j] = list[e][Before(e, j)]
            /\ Before(e, i) < Before(e, j)
        BY <1>3, <1>5, <3>1, <3>2
      <4>. QED  BY <2>1, <3>1, <3>2, <4>1 DEF TriggersInv, Ordered
    <3>. QED  BY <2>1, <3>1, <3>2 DEF TriggersInv, Ordered
  <2>2. \A t : Queued(t)' = Queued(t)
    BY <1>1 DEF Queued
  <2>. QED  BY <1>1, <2>1, <2>2 DEF TriggersInv, Ordered
<1>11. DueRun'
  BY <1>1 DEF TriggersInv, DueRun, Due
<1>. QED  BY <1>6, <1>7, <1>8, <1>9, <1>10, <1>11 DEF TriggersInv

\* The action of a timed trigger begins; the trigger has left the heap.
LEMMA ExecuteTimedInv ==
  ASSUME TriggersInv, ExecuteTimed
  PROVE  TriggersInv'
<1>1. PICK r \in timed : Due(r) /\ timed' = timed \ {r} /\ active' = r.trigger
  BY DEF ExecuteTimed
<1>2. /\ passes # <<>> /\ Head(passes) = "time" /\ active = None
      /\ UNCHANGED <<trigger, queue, list, fired, history, now, state, passes, pos>>
  BY DEF ExecuteTimed, Pass
<1>3. r.trigger \in OneShot /\ r.trigger \in TimedTriggers /\ r.trigger \in Nat
  BY DEF TriggersInv, Numbered, TimedTriggers, TypeOK
<1>4. TimedTriggers' = TimedTriggers \ {r.trigger}
  BY <1>1 DEF TimedTriggers, TriggersInv, Apart
<1>5. TypeOK'
  BY <1>1, <1>2, <1>3 DEF TriggersInv, TypeOK
<1>6. OneShot' = OneShot /\ Ids' = Ids
  BY <1>2 DEF OneShot, Ids
<1>7. Numbered'
  BY <1>1, <1>2, <1>6 DEF TriggersInv, Numbered, Queued
<1>8. Executing'
  BY <1>1, <1>2, <1>3, <1>4, <1>6 DEF Executing, Pass
<1>9. Apart'
  <2>1. \A i \in DOMAIN queue : queue[i] \notin (TimedTriggers \cup Popped)'
    BY <1>1, <1>3, <1>4 DEF TriggersInv, Apart, Popped
  <2>. QED  BY <1>1, <1>2, <2>1 DEF TriggersInv, Apart
<1>10. Ordered'
  BY <1>2 DEF TriggersInv, Ordered, Queued
<1>11. DueRun'
  BY <1>1, <1>2 DEF TriggersInv, DueRun, Due
<1>. QED  BY <1>5, <1>7, <1>8, <1>9, <1>10, <1>11 DEF TriggersInv

LEMMA TimedRunInv ==
  ASSUME TriggersInv, TimedRun
  PROVE  TriggersInv'
<1>1. /\ UNCHANGED <<trigger, places, now, state, passes, pos>> /\ active' = None
      /\ fired' \subseteq Nat /\ history' \subseteq fired'
  BY DEF TimedRun, Returned, places, TriggersInv, TypeOK
<1>2. (Numbered /\ Apart /\ Ordered)'
  BY <1>1, NothingMoved DEF Popped
<1>3. (TypeOK /\ Executing /\ DueRun)'
  BY <1>1 DEF TriggersInv, TypeOK, Executing, DueRun, Due, None, places
<1>. QED  BY <1>2, <1>3 DEF TriggersInv

-----------------------------------------------------------------------------
(* The states.                                                             *)

LEMMA PassEndsInv ==
  ASSUME TriggersInv, PassEnds
  PROVE  TriggersInv'
<1>1. /\ passes # <<>> /\ passes' = Tail(passes) /\ pos' = 1 /\ active = None /\ active' = None
      /\ now' = IF state = "START" /\ passes' = <<>> THEN now + 1 ELSE now
      /\ UNCHANGED <<trigger, places, fired, history, state>>
  BY DEF PassEnds
<1>2. (Numbered /\ Apart /\ Ordered)'
  BY <1>1, NothingMoved DEF Popped
<1>3. passes' \in Seq(DirectEvents \cup {"queue", "time"})
  BY <1>1, TailMembers DEF TriggersInv, TypeOK
<1>4. now' \in Nat
  BY <1>1 DEF TriggersInv, TypeOK
<1>5. TypeOK' /\ Executing'
  BY <1>1, <1>3, <1>4 DEF TriggersInv, TypeOK, Executing, places
<1>6. DueRun'
  <2>1. CASE state = "STEP_BEGIN"
    <3>1. passes = <<"loop", "time">> => passes' = <<"time">>
      BY <1>1
    <3>2. passes = <<"time">> => passes' = <<>> /\ \A r \in timed : ~Due(r)
      BY <1>1 DEF PassEnds, Pass, InList, Event, DirectEvents
    <3>3. now' = now /\ timed' = timed /\ state' = state
      BY <1>1, <2>1 DEF places
    <3>4. passes \in {<<"loop", "time">>, <<"time">>}
      BY <1>1, <2>1 DEF TriggersInv, DueRun
    <3>5. CASE passes = <<"loop", "time">>
      BY <3>1, <3>3, <3>5 DEF DueRun
    <3>6. CASE passes = <<"time">>
      BY <3>2, <3>3, <3>6 DEF DueRun, Due
    <3>. QED  BY <3>4, <3>5, <3>6
  <2>2. CASE state # "STEP_BEGIN"
    BY <1>1, <2>2 DEF DueRun
  <2>. QED  BY <2>1, <2>2
<1>. QED  BY <1>2, <1>5, <1>6 DEF TriggersInv

\* A state begins, after the last one has ended, or after it has failed.
LEMMA EnterInv ==
  ASSUME TriggersInv, NEW s \in DOMAIN Passes, Enter(s), now' \in Nat
  PROVE  TriggersInv'
<1>1. /\ state' = s /\ passes' = Passes[s] /\ pos' = 1 /\ active' = None
      /\ UNCHANGED <<trigger, places, fired, history>>
  BY DEF Enter
<1>2. (Numbered /\ Apart /\ Ordered)'
  BY <1>1, NothingMoved DEF Popped
<1>3. passes' \in Seq(DirectEvents \cup {"queue", "time"})
  BY <1>1, PassesType
<1>4. TypeOK' /\ Executing'
  BY <1>1, <1>3 DEF TriggersInv, TypeOK, Executing, None, places
<1>5. DueRun'
  BY <1>1 DEF DueRun, Passes
<1>. QED  BY <1>2, <1>4, <1>5 DEF TriggersInv

LEMMA StepInv ==
  ASSUME TriggersInv, [Next]_vars
  PROVE  TriggersInv'
<1>1. ASSUME NEW k \in Kinds, QueueTrigger(k) \/ InsertFromLua(k)  PROVE TriggersInv'
  BY <1>1, QueueTriggerInv, InsertFromLuaInv
<1>2. CASE ProcessPending
  BY <1>2, ProcessPendingInv
<1>3. CASE ConditionFails \/ Execute \/ KeepRun
  BY <1>3, IteratorInv
<1>4. CASE RemoveRun \/ Unpin
  BY <1>4, EraseInv
<1>5. CASE ExecuteTimed \/ TimedRun
  BY <1>5, ExecuteTimedInv, TimedRunInv
<1>6. CASE PassEnds
  BY <1>6, PassEndsInv
<1>7. CASE Throws
  <2>1. {"STOP", "RESET", "DONE"} \subseteq DOMAIN Passes
    BY DEF Passes
  <2>2. now' \in Nat
    BY <1>7 DEF Throws, TriggersInv, TypeOK
  <2>. QED  BY <1>7, <2>1, <2>2, EnterInv DEF Throws
<1>8. ASSUME NEW s \in DOMAIN Passes, EnterNext(s)  PROVE TriggersInv'
  <2>1. now' \in Nat
    BY <1>8 DEF EnterNext, TriggersInv, TypeOK
  <2>. QED  BY <1>8, <2>1, EnterInv DEF EnterNext
<1>9. CASE UNCHANGED vars
  <2>1. UNCHANGED <<trigger, places, fired, history, now, state, passes, pos, active>>
    BY <1>9 DEF vars, progress
  <2>2. (Numbered /\ Apart /\ Ordered)'
    BY <2>1, NothingMoved DEF Popped, Pass
  <2>3. TypeOK' /\ DueRun'
    BY <2>1 DEF TriggersInv, TypeOK, DueRun, Due, places
  <2>4. Executing'
    BY <2>1 DEF TriggersInv, Executing, InList, Event, Pass, OneShot, Ids, TimedTriggers, places
  <2>. QED  BY <2>2, <2>3, <2>4 DEF TriggersInv
<1>. QED  BY <1>1, <1>2, <1>3, <1>4, <1>5, <1>6, <1>7, <1>8, <1>9 DEF Next, Ended

LEMMA TriggersInit == Init => TriggersInv
<1>. SUFFICES ASSUME Init PROVE TriggersInv
  OBVIOUS
<1>1. TypeOK
  BY DEF Init, TypeOK, Passes, None
<1>2. Numbered /\ Executing /\ Apart /\ Ordered /\ DueRun
  BY DEF Init, Numbered, Executing, Apart, Ordered, DueRun, TimedTriggers, Popped
<1>. QED  BY <1>1, <1>2 DEF TriggersInv

LEMMA TriggersInvariant == Spec => []TriggersInv
BY TriggersInit, StepInv, PTL DEF Spec

-----------------------------------------------------------------------------
(* The board: what the places hold together.                               *)

BoardStep == [Board!Next]_<<Len(trigger), Pinned, OneShot, Waiting, fired>>

\* Where a trigger may wait.
LEMMA Places ==
  ASSUME NEW t
  PROVE  t \in Waiting <=>
           \/ \E i \in DOMAIN queue : queue[i] = t
           \/ \E e \in DirectEvents : \E i \in DOMAIN list[e] : list[e][i] = t
           \/ t \in TimedTriggers \cup Popped
<1>1. t \in ToSet(queue) <=> \E i \in DOMAIN queue : queue[i] = t
  BY DEF ToSet
<1>2. t \in UNION {ToSet(list[e]) : e \in DirectEvents} <=>
        \E e \in DirectEvents : \E i \in DOMAIN list[e] : list[e][i] = t
  <2>1. \A e : t \in ToSet(list[e]) <=> \E i \in DOMAIN list[e] : list[e][i] = t
    BY DEF ToSet
  <2>2. t \in UNION {ToSet(list[e]) : e \in DirectEvents} <=> \E e \in DirectEvents : t \in ToSet(list[e])
    BY Zenon
  <2>. QED  BY <2>1, <2>2
<1>. QED  BY <1>1, <1>2 DEF Waiting

LEMMA PlacesAfter ==
  ASSUME NEW t
  PROVE  t \in Waiting' <=>
           \/ \E i \in DOMAIN queue' : queue'[i] = t
           \/ \E e \in DirectEvents : \E i \in DOMAIN list'[e] : list'[e][i] = t
           \/ t \in (TimedTriggers \cup Popped)'
<1>1. t \in ToSet(queue)' <=> \E i \in DOMAIN queue' : queue'[i] = t
  BY DEF ToSet
<1>2. t \in UNION {ToSet(list[e]) : e \in DirectEvents}' <=>
        \E e \in DirectEvents : \E i \in DOMAIN list'[e] : list'[e][i] = t
  <2>1. \A e : t \in ToSet(list[e])' <=> \E i \in DOMAIN list'[e] : list'[e][i] = t
    BY DEF ToSet
  <2>2. t \in UNION {ToSet(list[e]) : e \in DirectEvents}' <=> \E e \in DirectEvents : t \in ToSet(list[e])'
    BY Zenon
  <2>. QED  BY <2>1, <2>2
<1>. QED  BY <1>1, <1>2 DEF Waiting

\* t has come to the callback of its kind, and nothing has left any.
Stored(t, k) == \A u :
  (\/ \E e \in DirectEvents : \E i \in DOMAIN list'[e] : list'[e][i] = u
   \/ u \in TimedTriggers') <=>
  (\/ \E e \in DirectEvents : \E i \in DOMAIN list[e] : list[e][i] = u
   \/ u \in TimedTriggers
   \/ u = t)

LEMMA StoredSomewhere ==
  ASSUME TypeOK, NEW t \in Nat, NEW k \in Kind, Store(t, k)
  PROVE  Stored(t, k)
<1>1. /\ \A e \in DirectEvents :
           /\ \A i \in DOMAIN list[e] : i \in DOMAIN list'[e] /\ list'[e][i] = list[e][i]
           /\ \A i \in DOMAIN list'[e] :
                \/ i \in DOMAIN list[e]
                \/ e = k.event /\ i = Len(list[e]) + 1 /\ list'[e][i] = t
      /\ \A r \in timed' : r \in timed \/ (k.event \in TimedEvents /\ r.trigger = t)
      /\ timed \subseteq timed'
  BY StoreMembers
<1>2. \/ \E e \in DirectEvents : \E i \in DOMAIN list'[e] : list'[e][i] = t
      \/ t \in TimedTriggers'
  <2>1. CASE k.event \in DirectEvents
    <3>1. list'[k.event] = Append(list[k.event], t) /\ list[k.event] \in Seq(Nat)
      BY <2>1 DEF Store, TypeOK
    <3>2. Len(list[k.event]) + 1 \in DOMAIN list'[k.event]
          /\ list'[k.event][Len(list[k.event]) + 1] = t
      BY <3>1, AppendMembers
    <3>. QED  BY <2>1, <3>2
  <2>2. CASE k.event \notin DirectEvents
    BY <2>2 DEF Store, TimedTriggers
  <2>. QED  BY <2>1, <2>2
<1>3. TimedTriggers \subseteq TimedTriggers' /\ TimedTriggers' \subseteq TimedTriggers \cup {t}
  BY <1>1 DEF TimedTriggers
<1>. QED  BY <1>1, <1>2, <1>3 DEF Stored

\* A trigger that is inserted waits, and is pinned, or one-shot, or neither.
LEMMA InsertImplemented ==
  ASSUME TypeOK, NEW k \in Kind, trigger' = Append(trigger, k), Len(trigger) < MaxTriggers,
         fired' = fired, Waiting' = Waiting \cup {Len(trigger) + 1}
  PROVE  Board!Insert
<1>. DEFINE n == Len(trigger) + 1
<1>1. /\ Len(trigger) \in Nat /\ n \in Nat /\ Len(trigger') = n /\ Ids = 1 .. Len(trigger) /\ Ids' = 1 .. n
      /\ \A t \in Ids : trigger'[t] = trigger[t]
      /\ trigger'[n] = k
  BY DEF TypeOK, Ids
<1>2. Ids' = Ids \cup {n} /\ k.event \in DirectEvents \cup TimedEvents /\ k.sticky \in BOOLEAN
  BY <1>1 DEF Kind
<1>3. DirectEvents \cap TimedEvents = {}
  BY DEF DirectEvents, TimedEvents
<1>. HIDE DEF n
<1>4. Pinned' = IF k.sticky /\ k.event \in DirectEvents THEN Pinned \cup {n} ELSE Pinned
  BY <1>1, <1>2 DEF Pinned, Sticky
<1>5. OneShot' = IF k.event \in TimedEvents THEN OneShot \cup {n} ELSE OneShot
  BY <1>1, <1>2 DEF OneShot
<1>. QED  BY <1>1, <1>3, <1>4, <1>5 DEF Board!Insert, n

\* A step that inserts nothing leaves the natures of the triggers alone.
LEMMA SameTriggers ==
  ASSUME trigger' = trigger
  PROVE  UNCHANGED <<Len(trigger), Ids, Pinned, OneShot>>
BY DEF Ids, Pinned, OneShot, Sticky

\* The action of a trigger of a list returns.
LEMMA FireListed ==
  ASSUME TriggersInv, RemoveRun \/ KeepRun \/ Unpin
  PROVE  BoardStep
<1>1. /\ InList /\ active # None /\ active' = None /\ fired' = fired \cup {active}
      /\ UNCHANGED <<trigger, queue, timed, passes>>
      /\ Popped = {} /\ Popped' = {} /\ TypeOK
  BY DEF RemoveRun, KeepRun, Unpin, Returned, InList, Event, Popped, Pass, DirectEvents, TriggersInv
<1>2. Event \in DirectEvents /\ pos \in DOMAIN list[Event] /\ list[Event][pos] = active
  BY <1>1 DEF TriggersInv, Executing, InList, Pass, Event, DirectEvents
<1>3. active \in Waiting
  BY <1>2, Places
<1>4. TimedTriggers' = TimedTriggers
  BY <1>1 DEF TimedTriggers
<1>5. CASE KeepRun
  <2>1. Waiting' = Waiting
    BY <1>1, <1>4, <1>5 DEF KeepRun, Waiting
  <2>2. active \in Pinned
    BY <1>2, <1>5 DEF TriggersInv, Numbered, Pinned, KeepRun
  <2>3. Board!Fire(active)
    BY <1>1, <1>3, <2>1, <2>2, SameTriggers DEF Board!Fire
  <2>. QED  BY <1>3, <2>3 DEF BoardStep, Board!Next
<1>6. CASE RemoveRun \/ Unpin
  <2>1. EraseAtPos
    BY <1>6 DEF RemoveRun, Unpin
  <2>2. /\ \A e \in DirectEvents : \A i \in DOMAIN list'[e] :
             /\ i \in Nat /\ Before(e, i) \in DOMAIN list[e]
             /\ list'[e][i] = list[e][Before(e, i)]
        /\ \A e \in DirectEvents : \A i \in DOMAIN list[e] : ~(e = Event /\ i = pos) =>
             \E j \in DOMAIN list'[e] : list'[e][j] = list[e][i]
    BY <1>1, <1>2, <2>1, EraseMembers
  <2>3. /\ \A i \in DOMAIN queue : queue[i] # active
        /\ active \notin TimedTriggers
    <3>1. active \in Ids /\ trigger[active].event \in DirectEvents
      BY <1>2 DEF TriggersInv, Numbered
    <3>2. active \notin OneShot
      BY <3>1 DEF OneShot, DirectEvents, TimedEvents
    <3>. QED  BY <1>2, <3>2 DEF TriggersInv, Numbered, Apart, TimedTriggers
  <2>4. \A e \in DirectEvents : \A i \in DOMAIN list'[e] : list'[e][i] # active
    <3>. SUFFICES ASSUME NEW e \in DirectEvents, NEW i \in DOMAIN list'[e], list'[e][i] = active
                  PROVE  FALSE
      OBVIOUS
    <3>1. i \in Nat /\ Before(e, i) \in DOMAIN list[e] /\ list[e][Before(e, i)] = active
      BY <2>2
    <3>2. e = Event
      BY <1>2, <3>1 DEF TriggersInv, Numbered
    <3>3. Before(e, i) = pos
      BY <1>2, <3>1, <3>2 DEF TriggersInv, Apart
    <3>4. pos \in Nat
      BY <1>1 DEF TypeOK
    <3>. QED  BY <3>1, <3>2, <3>3, <3>4 DEF Before
  <2>5. ASSUME NEW t, t # active
        PROVE  (\E e \in DirectEvents : \E i \in DOMAIN list'[e] : list'[e][i] = t) <=>
               (\E e \in DirectEvents : \E i \in DOMAIN list[e] : list[e][i] = t)
    BY <1>2, <2>2, <2>5
  <2>6. Waiting' = Waiting \ {active}
    <3>1. ASSUME NEW t PROVE t \in Waiting' <=> t \in Waiting /\ t # active
      BY <1>1, <1>4, <2>3, <2>4, <2>5, Places, PlacesAfter
    <3>. QED  BY <3>1
  <2>7. Board!Fire(active)
    BY <1>1, <1>3, <2>6, SameTriggers DEF Board!Fire
  <2>. QED  BY <1>3, <2>7 DEF BoardStep, Board!Next
<1>. QED  BY <1>5, <1>6

\* The action of a timed trigger returns or throws: it has left the heap before.
LEMMA PoppedLeaves ==
  ASSUME TriggersInv, Pass("time"), active # None, active' = None, UNCHANGED <<trigger, places>>
  PROVE  active \in Waiting /\ active \in OneShot /\ Waiting' = Waiting \ {active}
<1>1. active \in OneShot \ TimedTriggers
  BY DEF TriggersInv, Executing, InList, Pass, Event, DirectEvents
<1>2. trigger[active].event \notin DirectEvents
  BY <1>1 DEF OneShot, DirectEvents, TimedEvents
<1>3. /\ \A i \in DOMAIN queue : queue[i] # active
      /\ \A e \in DirectEvents : \A i \in DOMAIN list[e] : list[e][i] # active
  BY <1>2 DEF TriggersInv, Numbered, Apart, Popped
<1>4. Popped = {active} /\ Popped' = {} /\ TimedTriggers' = TimedTriggers
  BY DEF Popped, TimedTriggers, places
<1>5. ASSUME NEW t PROVE t \in Waiting' <=> t \in Waiting /\ t # active
  BY <1>1, <1>3, <1>4, Places, PlacesAfter DEF places
<1>. QED  BY <1>1, <1>4, <1>5, Places

\* What moves a trigger from one place to another, or moves nothing.
LEMMA StillWaiting ==
  ASSUME trigger' = trigger, fired' = fired, Waiting' = Waiting
  PROVE  BoardStep
BY SameTriggers DEF BoardStep

LEMMA BoardSteps ==
  ASSUME TriggersInv, [Next]_vars
  PROVE  BoardStep
<1>1. ASSUME NEW k \in Kinds, QueueTrigger(k)  PROVE BoardStep
  <2>1. /\ k \in Kind /\ TypeOK /\ trigger' = Append(trigger, k) /\ Len(trigger) < MaxTriggers
        /\ queue' = Append(queue, Len(trigger'))
        /\ UNCHANGED <<list, timed, fired, passes, active>>
    BY <1>1, KindsAssumption DEF QueueTrigger, TriggersInv, progress
  <2>2. Len(trigger') = Len(trigger) + 1
    BY <2>1 DEF TypeOK
  <2>3. /\ DOMAIN queue = 1 .. Len(queue) /\ DOMAIN queue' = 1 .. Len(queue) + 1 /\ Len(queue) \in Nat
        /\ \A i \in DOMAIN queue : queue'[i] = queue[i]
        /\ queue'[Len(queue) + 1] = Len(trigger) + 1
    BY <2>1, <2>2, AppendMembers DEF TypeOK
  <2>4. TimedTriggers' = TimedTriggers /\ Popped' = Popped
    BY <2>1 DEF TimedTriggers, Popped, Pass
  <2>5. ASSUME NEW t PROVE (\E i \in DOMAIN queue' : queue'[i] = t) <=>
                             (\E i \in DOMAIN queue : queue[i] = t) \/ t = Len(trigger) + 1
    BY <2>3
  <2>6. ASSUME NEW t PROVE t \in Waiting' <=> t \in Waiting \/ t = Len(trigger) + 1
    BY <2>1, <2>4, <2>5, Places, PlacesAfter
  <2>. QED  BY <2>1, <2>6, InsertImplemented DEF BoardStep, Board!Next
<1>2. ASSUME NEW k \in Kinds, InsertFromLua(k)  PROVE BoardStep
  <2>. DEFINE n == Len(trigger) + 1
  <2>1. /\ k \in Kind /\ TypeOK /\ trigger' = Append(trigger, k) /\ Len(trigger) < MaxTriggers
        /\ UNCHANGED <<queue, fired, passes, active>>
    BY <1>2, KindsAssumption DEF InsertFromLua, TriggersInv, progress
  <2>2. n \in Nat /\ Store(n, k)
    BY <1>2, <2>1 DEF InsertFromLua, TypeOK
  <2>3. Stored(n, k)
    BY <2>1, <2>2, StoredSomewhere
  <2>4. Popped' = Popped
    BY <2>1 DEF Popped, Pass
  <2>. HIDE DEF n
  <2>5. ASSUME NEW t PROVE t \in Waiting' <=> t \in Waiting \/ t = n
    BY <2>1, <2>3, <2>4, Places, PlacesAfter DEF Stored
  <2>. QED  BY <2>1, <2>5, InsertImplemented DEF BoardStep, Board!Next, n
<1>3. CASE ProcessPending
  <2>. DEFINE h == Head(queue)
  <2>1. /\ TypeOK /\ queue # <<>> /\ queue' = Tail(queue) /\ Store(h, trigger[h])
        /\ UNCHANGED <<trigger, fired, passes, active>>
    BY <1>3 DEF ProcessPending, TriggersInv, progress
  <2>2. /\ h = queue[1] /\ 1 \in DOMAIN queue /\ DOMAIN queue = 1 .. Len(queue) /\ Len(queue) \in Nat
        /\ \A i \in DOMAIN queue' : i + 1 \in DOMAIN queue /\ queue'[i] = queue[i + 1]
        /\ DOMAIN queue' = 1 .. Len(queue) - 1
    BY <2>1, TailMembers DEF TypeOK
  <2>3. h \in Nat /\ trigger[h] \in Kind
    BY <2>1, <2>2 DEF TriggersInv, Numbered, TypeOK, Ids
  <2>4. Stored(h, trigger[h])
    BY <2>1, <2>3, StoredSomewhere
  <2>5. Popped' = Popped
    BY <2>1 DEF Popped, Pass
  <2>. HIDE DEF h
  <2>6. ASSUME NEW t PROVE (\E i \in DOMAIN queue : queue[i] = t) <=>
                             (\E i \in DOMAIN queue' : queue'[i] = t) \/ t = h
    <3>1. ASSUME NEW i \in DOMAIN queue, i # 1
          PROVE  i - 1 \in DOMAIN queue' /\ queue'[i - 1] = queue[i]
      <4>1. i - 1 \in DOMAIN queue' /\ (i - 1) + 1 = i
        BY <2>2, <3>1
      <4>. QED  BY <2>2, <4>1
    <3>. QED  BY <2>2, <3>1
  <2>7. ASSUME NEW t PROVE t \in Waiting' <=> t \in Waiting
    BY <2>4, <2>5, <2>6, Places, PlacesAfter DEF Stored
  <2>. QED  BY <2>1, <2>7, StillWaiting
<1>4. CASE RemoveRun \/ KeepRun \/ Unpin
  BY <1>4, FireListed
<1>5. CASE ConditionFails \/ Execute
  <2>1. UNCHANGED <<trigger, places, fired>> /\ Popped = {} /\ Popped' = {}
    BY <1>5 DEF ConditionFails, Execute, InList, Event, Popped, Pass, DirectEvents
  <2>2. Waiting' = Waiting
    BY <2>1 DEF Waiting, TimedTriggers, places
  <2>. QED  BY <2>1, <2>2, StillWaiting
<1>6. CASE ExecuteTimed
  <2>1. PICK r \in timed : timed' = timed \ {r} /\ active' = r.trigger
    BY <1>6 DEF ExecuteTimed
  <2>2. Pass("time") /\ active = None /\ UNCHANGED <<trigger, queue, list, fired, passes>>
    BY <1>6 DEF ExecuteTimed
  <2>3. r.trigger # None
    BY DEF TriggersInv, Numbered, OneShot, Ids, None
  <2>4. Popped = {} /\ Popped' = {r.trigger}
    BY <2>1, <2>2, <2>3 DEF Popped, Pass
  <2>5. (TimedTriggers \cup Popped)' = TimedTriggers \cup Popped
    BY <2>1, <2>4 DEF TimedTriggers
  <2>6. Waiting' = Waiting
    BY <2>2, <2>5 DEF Waiting
  <2>. QED  BY <2>2, <2>6, StillWaiting
<1>7. CASE TimedRun
  <2>1. /\ Pass("time") /\ active # None /\ active' = None /\ fired' = fired \cup {active}
        /\ UNCHANGED <<trigger, places>>
    BY <1>7 DEF TimedRun, Returned, places
  <2>2. active \in Waiting /\ Board!Fire(active)
    BY <2>1, PoppedLeaves, SameTriggers DEF Board!Fire
  <2>. QED  BY <2>2 DEF BoardStep, Board!Next
<1>8. CASE PassEnds
  <2>1. UNCHANGED <<trigger, places, fired>> /\ Popped = {} /\ Popped' = {}
    BY <1>8 DEF PassEnds, Popped
  <2>2. Waiting' = Waiting
    BY <2>1 DEF Waiting, TimedTriggers, places
  <2>. QED  BY <2>1, <2>2, StillWaiting
<1>9. CASE Throws
  <2>1. UNCHANGED <<trigger, places, fired>> /\ active' = None
    BY <1>9 DEF Throws, Enter
  <2>2. CASE Pass("time") /\ active # None
    <3>1. active \in Waiting /\ Board!Lose(active)
      BY <2>1, <2>2, PoppedLeaves, SameTriggers DEF Board!Lose
    <3>. QED  BY <3>1 DEF BoardStep, Board!Next
  <2>3. CASE ~(Pass("time") /\ active # None)
    <3>1. Waiting' = Waiting
      BY <2>1, <2>3 DEF Waiting, TimedTriggers, Popped, places
    <3>. QED  BY <2>1, <3>1, StillWaiting
  <2>. QED  BY <2>2, <2>3
<1>10. ASSUME NEW s \in DOMAIN Passes, EnterNext(s)  PROVE BoardStep
  <2>1. UNCHANGED <<trigger, places, fired>> /\ active' = None /\ ~Pass("time")
    BY <1>10 DEF EnterNext, Enter, Pass
  <2>2. Waiting' = Waiting
    BY <2>1 DEF Waiting, TimedTriggers, Popped, places
  <2>. QED  BY <2>1, <2>2, StillWaiting
<1>11. CASE UNCHANGED vars
  <2>1. Waiting' = Waiting
    BY <1>11 DEF vars, progress, places, Waiting, TimedTriggers, Popped, Pass
  <2>. QED  BY <1>11, <2>1, StillWaiting DEF vars
<1>. QED  BY <1>1, <1>2, <1>3, <1>4, <1>5, <1>6, <1>7, <1>8, <1>9, <1>10, <1>11 DEF Next, Ended

-----------------------------------------------------------------------------
(* The theorems.                                                           *)

THEOREM TypeCorrect == Spec => []TypeOK
BY TriggersInvariant, PTL DEF TriggersInv

\* A trigger is kept in one place, whoever inserts and whatever is removed while the
\* lists are gone through.
THEOREM OnePlaceHolds == Spec => []OnePlace
<1>1. TriggersInv => OnePlace
  <2>. SUFFICES ASSUME TriggersInv PROVE OnePlace
    OBVIOUS
  <2>1. \A e \in DirectEvents : \A t \in ToSet(list[e]) : trigger[t].event = e /\ t \notin OneShot
    BY DEF TriggersInv, Numbered, ToSet, OneShot, DirectEvents, TimedEvents
  <2>2. TimedTriggers \subseteq OneShot
    BY DEF TriggersInv, Numbered, TimedTriggers
  <2>3. \A e \in DirectEvents : ToSet(list[e]) \cap Popped = {}
    <3>1. Popped \subseteq OneShot
      BY DEF TriggersInv, Executing, Popped, InList, Event, Pass, DirectEvents
    <3>. QED  BY <2>1, <3>1
  <2>4. ToSet(queue) \cap (TimedTriggers \cup Popped) = {}
    BY DEF TriggersInv, Apart, ToSet
  <2>5. \A e \in DirectEvents : ToSet(queue) \cap ToSet(list[e]) = {}
    BY DEF TriggersInv, Apart, ToSet
  <2>6. /\ \A i, j \in DOMAIN queue : queue[i] = queue[j] => i = j
        /\ \A e \in DirectEvents : \A i, j \in DOMAIN list[e] : list[e][i] = list[e][j] => i = j
        /\ \A q, r \in timed : q.trigger = r.trigger => q = r
    BY DEF TriggersInv, Apart
  <2>. QED  BY <2>1, <2>2, <2>3, <2>4, <2>5, <2>6 DEF OnePlace
<1>. QED  BY <1>1, TriggersInvariant, PTL

\* The triggers of one event that were queued run in the order in which they were
\* queued, whichever state empties the queue and whatever is erased or unpinned.
THEOREM InOrderHolds == Spec => []InOrder
<1>1. TriggersInv => InOrder
  BY DEF TriggersInv, Ordered, InOrder
<1>. QED  BY <1>1, TriggersInvariant, PTL

\* The models of a step find everything done that was due by its time.
THEOREM DueBeforeModelsHolds == Spec => DueBeforeModels
<1>1. TriggersInv /\ [Next]_vars =>
        [state = "STEP_BEGIN" /\ state' = "STEP" => \A r \in timed : r.time > now]_vars
  <2>. SUFFICES ASSUME TriggersInv, Next, state = "STEP_BEGIN", state' = "STEP"
                PROVE  \A r \in timed : r.time > now
    BY DEF vars
  <2>1. passes = <<>>
    BY DEF Next, QueueTrigger, InsertFromLua, ProcessPending, ConditionFails, Execute, RemoveRun,
           KeepRun, Unpin, ExecuteTimed, TimedRun, Returned, PassEnds, Throws, EnterNext, Enter,
           Ended, progress
  <2>2. now \in Nat /\ \A r \in timed : r.time \in Nat
    BY DEF TriggersInv, TypeOK
  <2>. QED  BY <2>1, <2>2 DEF TriggersInv, DueRun, Due
<1>. QED  BY <1>1, TriggersInvariant, PTL DEF Spec, DueBeforeModels

\* The coordinator keeps what TriggerBoard promises: from its insertion until it has
\* run a trigger waits, and only a timed one whose action throws is lost.
THEOREM BoardImplemented == Spec => BoardSpec
<1>1. Init => Board!Init
  BY DEF Init, Board!Init, Pinned, OneShot, Ids, Waiting, TimedTriggers, Popped, ToSet
<1>2. TriggersInv /\ [Next]_vars => [Board!Next]_<<Len(trigger), Pinned, OneShot, Waiting, fired>>
  BY BoardSteps DEF BoardStep
<1>. QED  BY <1>1, <1>2, TriggersInvariant, PTL DEF Spec, BoardSpec, Board!Spec, Board!board
=============================================================================
