----------------------------- MODULE Drive_proofs -----------------------------
(***************************************************************************)
(* What the data path of a step keeps, for any configurations, contacts,   *)
(* delays and number of steps.  The invariant says of each phase what the  *)
(* caches, the targets and the contacts tell about the steps before it.    *)
(***************************************************************************)
EXTENDS Drive, TLAPS

\* The scenes that were read, and the targets that were set, in step n.
ScenesOf(n)  == [obstacle : Obstacles, still : BOOLEAN, at : {n}]
TargetsOf(n) == {Unset} \cup [by : {"acc", "lka", "aeb", "driver"}, at : {n}, from : {n}]
CachesOf(n)  == {Empty} \cup ScenesOf(n)

\* What a control function takes and yields, if nothing in it is older than
\* the step: without noise, only the filter holds objects, those of the scene.
Fresh(c) ==
    /\ c \in [cache : [filter : CachesOf(step), noisy : CachesOf(step)],
              target : [acceleration : TargetsOf(step), steering : TargetsOf(step)],
              fullStop : BOOLEAN, thrown : BOOLEAN]
    /\ ~config.noisy => c.cache.noisy = Empty /\ c.cache.filter \in {Empty, env}

\* The loop of a step, and the time of the scene in it.
Stepping ==
    /\ phase \in {"vehicles", "controllers"} => step <= config.steps /\ env.at = step
    /\ phase \in {"simulators", "vehicles"} => queue = {}
    /\ ~config.noisy => cache.noisy = Empty

\* No target and no cached object outlives its step.
Current ==
    /\ phase = "controllers" => Fresh(Outputs)
    /\ phase = "simulators" => target \in [acceleration : TargetsOf(step - 1),
                                           steering : TargetsOf(step - 1)]

\* The basic controller has been called in this step, or is not to be.
BasicDone == phase = "simulators" \/ (phase = "controllers" /\ "basic" \notin queue)

\* AEB has had the last word on the scene that env still shows.
Braked ==
    BasicDone /\ "basic" \in controllers /\ "aeb" \in assist /\ ~config.noisy
      /\ (env.obstacle = "near" \/ fullStop)
    => target.acceleration.by = "aeb"

\* The last step in which the contacts were updated.
Seen == IF phase = "controllers" /\ "basic" \notin queue THEN step ELSE step - 1

\* A push button that is down since p.since, when the contacts were last
\* updated in step n: the activations that are counted are those that fit in.
Held(b, c, p, n) ==
    /\ p.since \in 1 .. n
    /\ ~c.repeated => /\ p.count = 0 /\ c.last = p.since
                      /\ b \in Repeating => n - p.since <= Delay
    /\ c.repeated  => /\ b \in Repeating /\ p.count >= 1 /\ n - c.last \in 0 .. Interval
                      /\ c.last = p.since + Delay + 1 + (p.count - 1) * (Interval + 1)

\* A push button, as it is between its updates.
Tracked(b, c, p, n) == IF c.active THEN Held(b, c, p, n) ELSE ~c.repeated

Counted ==
    phase # "failed" /\ "basic" \in controllers =>
    \A b \in PushButtons : Tracked(b, hmi[b], presses[b], Seen)

DriveInv == TypeOK /\ Stepping /\ Current /\ Braked /\ Counted /\ AccHasTarget
----------------------------------------------------------------------------
(* The sensors and the actuator.                                           *)

\* What the constants say of the configuration of a run.
LEMMA ConfigType ==
    ASSUME TypeOK
    PROVE  /\ config.driver \in BOOLEAN /\ config.fullStop \in BOOLEAN /\ config.noisy \in BOOLEAN
           /\ config.abortOnFailure \in BOOLEAN /\ config.steps \in Nat
           /\ config.pressed \in SUBSET Contacts
           /\ step \in Nat /\ step >= 1 /\ RetryLimit \in Nat
  BY DriveAssumption DEF TypeOK

\* NoisyObjectSensor::sensed_objects: what it shows, and leaves in the
\* caches, is the scene of the step.
LEMMA SenseFresh ==
    ASSUME TypeOK, env \in ScenesOf(step), NEW c, Fresh(c), NEW moved \in {"far", "near"}
    PROVE  /\ Fresh(Sense(c, moved)) /\ Sensed(Sense(c, moved)) \in ScenesOf(step)
           /\ ~config.noisy => Sensed(Sense(c, moved)) = env
           /\ Sense(c, moved).fullStop = c.fullStop /\ Sense(c, moved).thrown = c.thrown
           /\ Sense(c, moved).target = c.target
  <1> DEFINE f == IF c.cache.filter # Empty THEN c.cache.filter ELSE env
             z == CASE c.cache.noisy # Empty   -> c.cache.noisy
                    [] c.cache.noisy = Empty /\ f.obstacle # "none" -> [f EXCEPT !.obstacle = moved]
                    [] OTHER -> f
  <1>1. c.cache.filter \in CachesOf(step) /\ c.cache.noisy \in CachesOf(step)
    BY DEF Fresh
  <1>2. f \in ScenesOf(step) /\ (~config.noisy => f = env)
    BY <1>1 DEF CachesOf, Fresh
  <1>3. z \in ScenesOf(step)
    <2>1. [f EXCEPT !.obstacle = moved] \in ScenesOf(step)
      BY <1>2 DEF ScenesOf, Obstacles
    <2> HIDE DEF f
    <2> QED
      BY <2>1, <1>1, <1>2 DEF CachesOf
  <1>4. Sense(c, moved) =
          IF config.noisy
          THEN [c EXCEPT !.cache.noisy = z,
                         !.cache.filter = IF c.cache.noisy # Empty THEN c.cache.filter ELSE f]
          ELSE [c EXCEPT !.cache.filter = f]
    BY DEF Sense
  <1> HIDE DEF f, z
  <1>5. f \in CachesOf(step) /\ z \in CachesOf(step)
    BY <1>2, <1>3 DEF CachesOf
  <1>6. CASE config.noisy
    <2> DEFINE h == IF c.cache.noisy # Empty THEN c.cache.filter ELSE f
    <2>1. h \in CachesOf(step)
      BY <1>1, <1>5
    <2>2. Sense(c, moved) = [c EXCEPT !.cache.noisy = z, !.cache.filter = h]
      BY <1>4, <1>6
    <2> HIDE DEF h
    <2>3. Sense(c, moved) = [cache |-> [filter |-> h, noisy |-> z], target |-> c.target,
                             fullStop |-> c.fullStop, thrown |-> c.thrown]
      <3>1. c = [cache |-> c.cache, target |-> c.target, fullStop |-> c.fullStop, thrown |-> c.thrown]
        BY DEF Fresh
      <3>2. c.cache \in [filter : CachesOf(step), noisy : CachesOf(step)]
        BY DEF Fresh
      <3>3. [c.cache EXCEPT !.noisy = z, !.filter = h] = [filter |-> h, noisy |-> z]
        <4>1. [c.cache EXCEPT !.noisy = z, !.filter = h]
                \in [filter : CachesOf(step), noisy : CachesOf(step)]
          BY <3>2, <1>5, <2>1
        <4>2. /\ [c.cache EXCEPT !.noisy = z, !.filter = h].filter = h
              /\ [c.cache EXCEPT !.noisy = z, !.filter = h].noisy = z
          BY <3>2
        <4>3. \A r \in [filter : CachesOf(step), noisy : CachesOf(step)] :
                r = [filter |-> r.filter, noisy |-> r.noisy]
          OBVIOUS
        <4> QED  BY <4>1, <4>2, <4>3
      <3>4. Sense(c, moved) = [c EXCEPT !.cache = [filter |-> h, noisy |-> z]]
        BY <2>2, <3>1, <3>3
      <3> QED  BY <3>1, <3>4
    <2>4. /\ Sense(c, moved).cache.noisy = z /\ Sense(c, moved).target = c.target
          /\ Sense(c, moved).fullStop = c.fullStop /\ Sense(c, moved).thrown = c.thrown
      BY <2>3
    <2>5. Fresh(Sense(c, moved))
      BY <2>1, <2>3, <1>5, <1>6 DEF Fresh
    <2> QED
      BY <2>4, <2>5, <1>3, <1>6 DEF Sensed
  <1>7. CASE ~config.noisy
    <2>1. Sense(c, moved) = [c EXCEPT !.cache.filter = f]
      BY <1>4, <1>7
    <2> QED
      BY <2>1, <1>2, <1>5, <1>7 DEF Fresh, Sensed
  <1> QED
    BY <1>6, <1>7

\* LatLongActuator: a target that is set is as old as what it is set from.
LEMMA SetFresh ==
    ASSUME TypeOK, NEW c, Fresh(c), NEW by \in {"acc", "lka", "aeb", "driver"}, NEW from, from = step
    PROVE  /\ Fresh(Accelerate(c, by, from)) /\ Fresh(Steer(c, by, from))
           /\ Accelerate(c, by, from).target.acceleration.by = by
           /\ Accelerate(c, by, from).fullStop = c.fullStop
           /\ Accelerate(c, by, from).thrown = c.thrown
           /\ Steer(c, by, from).thrown = c.thrown
  <1> DEFINE t == [by |-> by, at |-> step, from |-> from]
  <1>1. t \in TargetsOf(step) /\ t.by = by
    BY ConfigType DEF TargetsOf
  <1>2. Accelerate(c, by, from) = [c EXCEPT !.target.acceleration = t]
    BY DEF Accelerate
  <1>3. Steer(c, by, from) = [c EXCEPT !.target.steering = t]
    BY DEF Steer
  <1> HIDE DEF t
  <1> QED
    BY <1>1, <1>2, <1>3 DEF Fresh

\* A function that only forwards the driver's request.
LEMMA ForwardFresh ==
    ASSUME TypeOK, NEW c, Fresh(c), NEW has \in BOOLEAN
    PROVE  Fresh(Forward(c, has, Accelerate)) /\ Fresh(Forward(c, has, Steer))
  <1>1. Fresh(Accelerate(c, "driver", step)) /\ Fresh(Steer(c, "driver", step))
    BY SetFresh
  <1>2. Fresh([c EXCEPT !.thrown = TRUE])
    BY DEF Fresh
  <1> QED
    BY <1>1, <1>2 DEF Forward

LEMMA AccFresh ==
    ASSUME TypeOK, env \in ScenesOf(step), NEW c, Fresh(c), NEW moved \in {"far", "near"},
           NEW has \in BOOLEAN, NEW a
    PROVE  Fresh(AccControl(c, a, moved, has))
  <1> DEFINE s == Sense(c, moved)
  <1>1. Fresh(s) /\ Sensed(s).at = step
    BY SenseFresh DEF ScenesOf
  <1>2. Fresh(Accelerate(s, "acc", Sensed(s).at))
    BY <1>1, SetFresh
  <1> QED
    BY <1>2, ForwardFresh DEF AccControl

LEMMA LkaFresh ==
    ASSUME TypeOK, env \in ScenesOf(step), NEW c, Fresh(c), NEW moved \in {"far", "near"},
           NEW has \in BOOLEAN, NEW a
    PROVE  Fresh(LkaControl(c, a, moved, has))
  <1> DEFINE s == Sense(c, moved)
  <1>1. Fresh(s) /\ Sensed(s).at = step
    BY SenseFresh DEF ScenesOf
  <1>2. Fresh(Steer(s, "lka", Sensed(s).at))
    BY <1>1, SetFresh
  <1> QED
    BY <1>1, <1>2, ForwardFresh DEF LkaControl

\* AEB brakes for what is near in the scene of the step, and as long as a
\* full stop goes on.
LEMMA AebFresh ==
    ASSUME TypeOK, env \in ScenesOf(step), NEW c, Fresh(c), NEW moved \in {"far", "near"},
           NEW has \in BOOLEAN, NEW a
    PROVE  LET b == AebControl(c, a, moved, has)
           IN  /\ Fresh(b)
               /\ "aeb" \in a /\ ~config.noisy /\ (env.obstacle = "near" \/ b.fullStop)
                  => b.target.acceleration.by = "aeb"
  <1> DEFINE s    == Sense(c, moved)
             near == Sensed(s).obstacle = "near"
             full == c.fullStop \/ (near /\ config.fullStop)
             d    == Accelerate(s, "aeb", Sensed(s).at)
             e    == IF near \/ full THEN d ELSE s
             b    == [e EXCEPT !.fullStop = full /\ ~env.still]
  <1>1. Fresh(s) /\ Sensed(s).at = step /\ (~config.noisy => Sensed(s) = env)
    BY SenseFresh DEF ScenesOf
  <1>2. Fresh(d) /\ d.target.acceleration.by = "aeb"
    BY <1>1, SetFresh
  <1>3. CASE "aeb" \notin a
    BY <1>3, ForwardFresh DEF AebControl
  <1>4. CASE "aeb" \in a
    <2>1. AebControl(c, a, moved, has) = b
      BY <1>4 DEF AebControl
    <2>2. (full /\ ~env.still) \in BOOLEAN /\ (~config.noisy /\ env.obstacle = "near" => near)
      BY <1>1
    <2> HIDE DEF s, d, near, full
    <2>3. Fresh(e) /\ ((near \/ full) => e.target.acceleration.by = "aeb")
      BY <1>1, <1>2
    <2> HIDE DEF e
    <2>4. Fresh(b) /\ b.target = e.target
      BY <2>2, <2>3 DEF Fresh
    <2>5. b.fullStop => full
      BY <2>2, <2>3 DEF Fresh
    <2> HIDE DEF b
    <2> QED
      BY <2>1, <2>2, <2>3, <2>4, <2>5
  <1> QED
    BY <1>3, <1>4

----------------------------------------------------------------------------
(* The contacts.                                                           *)

\* A number of whole intervals and a part of one.
LEMMA WholeIntervals ==
    ASSUME NEW d \in Nat, d >= 1, NEW k \in Nat, NEW r \in Nat, r < d
    PROVE  (k * d + r) \div d = k
  <1> DEFINE x == k * d + r
             q == x \div d
             m == x % d
  <1>1. x \in Int /\ q \in Int /\ m \in Int
    OBVIOUS
  <1>2. x = d * q + m /\ 0 <= m /\ m < d
    BY <1>1
  <1>3. d * (q - k) = r - m
    BY <1>1, <1>2
  <1>4. CASE q - k >= 1
    <2>1. d * (q - k) >= d
      BY <1>1, <1>4
    <2> QED
      BY <2>1, <1>1, <1>2, <1>3
  <1>5. CASE q - k <= -1
    <2>1. d * (q - k) <= -d
      BY <1>1, <1>5
    <2> QED
      BY <2>1, <1>1, <1>2, <1>3
  <1> QED
    BY <1>1, <1>4, <1>5

\* Contact::update keeps a contact a contact.
LEMMA UpdateType ==
    ASSUME NEW h \in [Contacts -> ContactType], NEW now \in Nat
    PROVE  UpdateMap(h, now) \in [Contacts -> ContactType]
  <1> SUFFICES ASSUME NEW b \in Contacts
               PROVE  Update(b, h[b], now).next \in ContactType
    BY DEF UpdateMap
  <1>1. h[b] \in ContactType
    OBVIOUS
  <1>2. ContactDown(b, h[b], now).next \in ContactType
    BY <1>1 DEF ContactDown, ContactType
  <1>3. ContactUp(b, h[b]).next \in ContactType
    BY <1>1 DEF ContactUp, Released, ContactType
  <1> QED
    BY <1>1, <1>2, <1>3 DEF Update

\* The functions of the contacts never leave ACC active without a target.
LEMMA AfterHmiOk ==
    ASSUME TypeOK, AccHasTarget, NEW events
    PROVE  /\ AfterHmi(events) \subseteq {"enabled", "active", "hasTarget", "aeb", "lka"}
           /\ "active" \in AfterHmi(events) => "hasTarget" \in AfterHmi(events)
  <1> DEFINE Ok(a) == /\ a \subseteq {"enabled", "active", "hasTarget", "aeb", "lka"}
                      /\ "active" \in a => "hasTarget" \in a
             Upd(a, b) == OnEvent(a, b, IF b \in Contacts THEN events[b] ELSE "none")
  <1>1. Ok(assist)
    BY DEF TypeOK, AccHasTarget
  <1>2. ASSUME NEW a, NEW b, NEW e, Ok(a)
        PROVE  Ok(OnEvent(a, b, e))
    <2>1. Raises(b, e) \subseteq {"enabled", "active", "hasTarget", "aeb", "lka"}
      BY DEF Raises
    <2>2. "active" \in Raises(b, e) => "hasTarget" \in Raises(b, e)
      BY DEF Raises
    <2>3. "hasTarget" \in Clears(b, e) => "active" \in Clears(b, e)
      BY DEF Clears
    <2> QED
      BY <1>2, <2>1, <2>2, <2>3 DEF OnEvent
  <1>3. ASSUME NEW a, NEW b, Ok(a)
        PROVE  Ok(Upd(a, b))
    BY <1>2, <1>3
  <1>4. AfterHmi(events) =
          Upd(Upd(Upd(Upd(Upd(Upd(Upd(assist,
            "aeb"), "cancel"), "enable"), "lka"), "minus"), "plus"), "resume")
    BY DEF AfterHmi
  <1> HIDE DEF Ok, Upd
  <1>5. Ok(AfterHmi(events))
    BY <1>1, <1>3, <1>4
  <1> QED
    BY <1>5 DEF Ok

\* CountPresses, for one contact.
Pressed(b, c, p, now) ==
    CASE c.state /\ ~c.active -> [since |-> now, count |-> 0]
      [] Update(b, c, now).event \in {"single", "repeat"} -> [p EXCEPT !.count = @ + 1]
      [] OTHER -> p

\* One update of a push button, in the step after the last one.
LEMMA PushUpdated ==
    ASSUME NEW b \in PushButtons, NEW c \in ContactType, NEW p \in [since : Nat, count : Nat],
           NEW n \in Nat, NEW now, now = n + 1,
           Tracked(b, c, p, n)
    PROVE  LET d == Update(b, c, now).next
               q == Pressed(b, c, p, now)
           IN  /\ q \in [since : Nat, count : Nat]
               /\ Tracked(b, d, q, now)
               /\ c.active /\ ~d.active => q.count = Worth(b, now - 1 - q.since)
  <1> USE DEF Tracked
  <1> DEFINE d == Update(b, c, now).next
             q == Pressed(b, c, p, now)
  <1> SUFFICES /\ q \in [since : Nat, count : Nat]
               /\ IF d.active THEN Held(b, d, q, now) ELSE ~d.repeated
               /\ c.active /\ ~d.active => q.count = Worth(b, now - 1 - q.since)
    OBVIOUS
  <1>1. b \notin Switches /\ Delay \in Nat /\ Interval \in Nat /\ now \in Nat
    BY HmiAssumption
  <1>2. /\ c.state \in BOOLEAN /\ c.active \in BOOLEAN /\ c.repeated \in BOOLEAN
        /\ c.last \in Nat /\ p.since \in Nat /\ p.count \in Nat
    BY DEF ContactType
  <1>3. CASE c.state /\ ~c.active
    <2>1. Update(b, c, now) = [event |-> "none", next |-> [c EXCEPT !.active = TRUE, !.last = now]]
      BY <1>1, <1>3 DEF Update, ContactDown
    <2>2. q = [since |-> now, count |-> 0]
      BY <1>3, <2>1 DEF Pressed
    <2>3. d = [c EXCEPT !.active = TRUE, !.last = now]
      BY <2>1
    <2> HIDE DEF d, q
    <2>4. d = [state |-> c.state, active |-> TRUE, last |-> now, repeated |-> c.repeated]
      BY <2>3 DEF ContactType
    <2>5. d.active /\ d.last = now /\ ~d.repeated
      BY <2>4, <1>3
    <2>6. Held(b, d, q, now)
      BY <2>2, <2>5, <1>1 DEF Held
    <2> QED
      BY <2>2, <2>5, <2>6, <1>1
  <1>4. CASE c.state /\ c.active /\ b \in Repeating /\ Elapsed(c, now)
    <2>1. Update(b, c, now) = [event |-> "repeat", next |-> [c EXCEPT !.last = now, !.repeated = TRUE]]
      BY <1>1, <1>4 DEF Update, ContactDown
    <2>2. q = [p EXCEPT !.count = @ + 1]
      BY <1>4, <2>1 DEF Pressed
    <2>3. d = [c EXCEPT !.last = now, !.repeated = TRUE]
      BY <2>1
    <2>4. q.since = p.since /\ q.count = p.count + 1 /\ q \in [since : Nat, count : Nat]
      BY <2>2, <1>2
    <2>5. Held(b, c, p, n)
      BY <1>4
    <2> HIDE DEF d, q
    <2>8. d = [state |-> c.state, active |-> c.active, last |-> now, repeated |-> TRUE]
      BY <2>3 DEF ContactType
    <2>9. d.active /\ d.last = now /\ d.repeated
      BY <2>8, <1>4
    <2>10. now - c.last > (IF c.repeated THEN Interval ELSE Delay)
      BY <1>4 DEF Elapsed
    <2>6. ASSUME c.repeated PROVE Held(b, d, q, now)
      <3> DEFINE k == (p.count - 1) * (Interval + 1)
      <3>0. k \in Int
        BY <1>1, <1>2
      <3>1. /\ n - c.last \in 0 .. Interval /\ c.last = p.since + Delay + 1 + k /\ p.count >= 1
        BY <2>5, <2>6 DEF Held
      <3>4. now - c.last > Interval
        BY <2>6, <2>10
      <3>2. (q.count - 1) * (Interval + 1) = k + Interval + 1
        BY <2>4, <1>1, <1>2
      <3> HIDE DEF k
      <3>3. now = q.since + Delay + 1 + (k + Interval + 1)
        BY <3>0, <3>1, <3>4, <2>4, <1>1, <1>2
      <3>5. q.since \in 1 .. n
        BY <2>4, <2>5 DEF Held
      <3>6. q.since \in 1 .. now /\ q.count >= 1 /\ now - d.last \in 0 .. Interval
        BY <3>1, <3>5, <2>4, <2>9, <1>1, <1>2
      <3> QED
        <4>1. d.last = q.since + Delay + 1 + (q.count - 1) * (Interval + 1)
          BY <3>2, <3>3, <2>9
        <4>2. d.repeated /\ b \in Repeating
          BY <2>9, <1>4
        <4> QED
          BY <3>6, <4>1, <4>2 DEF Held
    <2>7. ASSUME ~c.repeated PROVE Held(b, d, q, now)
      <3>4. p.count = 0 /\ c.last = p.since /\ n - p.since <= Delay /\ p.since \in 1 .. n
        BY <2>5, <2>7, <1>4 DEF Held
      <3>5. now - c.last > Delay
        BY <2>7, <2>10
      <3>1. q.count = 1 /\ now = q.since + Delay + 1 /\ q.since \in 1 .. now
        BY <3>4, <3>5, <2>4, <1>1, <1>2
      <3>2. (q.count - 1) * (Interval + 1) = 0
        BY <3>1, <1>1
      <3>3. now = q.since + Delay + 1 + (q.count - 1) * (Interval + 1)
        BY <3>1, <3>2, <1>1
      <3> QED
        <4>1. d.last = q.since + Delay + 1 + (q.count - 1) * (Interval + 1)
          BY <3>3, <2>9
        <4>3. q.count >= 1
          BY <3>1
        <4>2. d.repeated /\ b \in Repeating /\ now - d.last \in 0 .. Interval
          BY <2>9, <1>1, <1>4
        <4> QED
          BY <3>1, <4>1, <4>2, <4>3 DEF Held
    <2> QED
      BY <2>4, <2>6, <2>7, <2>9
  <1>5. CASE c.state /\ c.active /\ ~(b \in Repeating /\ Elapsed(c, now))
    <2>1. Update(b, c, now) = [event |-> "none", next |-> c]
      BY <1>1, <1>5 DEF Update, ContactDown
    <2>2. q = p
      BY <1>5, <2>1 DEF Pressed
    <2>3. d = c
      BY <2>1
    <2> HIDE DEF d, q
    <2>4. Held(b, c, p, n)
      BY <1>5
    <2>5. p.since \in 1 .. now
      BY <2>4, <1>1, <1>2 DEF Held
    <2>6. CASE c.repeated
      <3>1. /\ b \in Repeating /\ p.count >= 1 /\ n - c.last \in 0 .. Interval
            /\ c.last = p.since + Delay + 1 + (p.count - 1) * (Interval + 1)
        BY <2>4, <2>6 DEF Held
      <3>2. ~(now - c.last > Interval)
        BY <3>1, <2>6, <1>5 DEF Elapsed
      <3>3. now - c.last \in 0 .. Interval
        BY <3>1, <3>2, <1>1, <1>2
      <3> QED
        BY <3>1, <3>3, <2>2, <2>3, <2>5, <2>6, <1>5 DEF Held
    <2>7. CASE ~c.repeated
      <3>1. p.count = 0 /\ c.last = p.since
        BY <2>4, <2>7 DEF Held
      <3>2. b \in Repeating => ~(now - p.since > Delay)
        BY <3>1, <2>7, <1>5 DEF Elapsed
      <3>3. b \in Repeating => now - p.since <= Delay
        BY <3>2, <1>1, <1>2
      <3> QED
        BY <3>1, <3>3, <2>2, <2>3, <2>5, <2>7, <1>5 DEF Held
    <2> QED
      BY <2>6, <2>7
  <1>6. CASE ~c.state /\ c.active
    <2>1. /\ d = Released(c)
          /\ Update(b, c, now).event = IF c.repeated THEN "none" ELSE "single"
      BY <1>1, <1>6 DEF Update, ContactUp
    <2>2. q = IF c.repeated THEN p ELSE [p EXCEPT !.count = @ + 1]
      BY <1>6, <2>1 DEF Pressed
    <2>3. ~d.active /\ ~d.repeated
      BY <2>1 DEF Released, ContactType
    <2>4. Held(b, c, p, n)
      BY <1>6
    <2> HIDE DEF d, q
    <2>5. CASE c.repeated
      <3> DEFINE k == p.count - 1
                 r == n - c.last
      <3>1. /\ b \in Repeating /\ k \in Nat /\ r \in Nat /\ r < Interval + 1
            /\ n - p.since - Delay - 1 = k * (Interval + 1) + r
        BY <2>4, <2>5, <1>1, <1>2 DEF Held
      <3>2. (k * (Interval + 1) + r) \div (Interval + 1) = k
        <4>1. Interval + 1 \in Nat /\ Interval + 1 >= 1
          BY <1>1
        <4> HIDE DEF k, r
        <4> QED
          BY <3>1, <4>1, WholeIntervals
      <3>3. k * (Interval + 1) >= 0
        BY <3>1, <1>1
      <3>4. n - p.since > Delay
        BY <3>1, <3>3, <1>1, <1>2
      <3>5. now - 1 - q.since = n - p.since /\ q.count = k + 1 /\ q = p
        BY <2>2, <2>5, <1>2
      <3>6. Worth(b, n - p.since) = 1 + (n - p.since - Delay - 1) \div (Interval + 1)
        BY <3>1, <3>4 DEF Worth
      <3>7. Worth(b, now - 1 - q.since) = q.count
        BY <3>1, <3>2, <3>5, <3>6
      <3> QED
        BY <2>3, <3>5, <3>7
    <2>6. CASE ~c.repeated
      <3>1. q.since = p.since /\ q.count = 1 /\ q \in [since : Nat, count : Nat]
        BY <2>2, <2>4, <2>6, <1>2 DEF Held
      <3>2. now - 1 - q.since = n - p.since
        BY <3>1, <1>2
      <3>3. ~(b \in Repeating /\ n - p.since > Delay)
        BY <2>4, <2>6, <1>1, <1>2 DEF Held
      <3>4. Worth(b, now - 1 - q.since) = 1
        BY <3>2, <3>3 DEF Worth
      <3> QED
        BY <2>3, <3>1, <3>4
    <2> QED
      BY <2>5, <2>6
  <1>7. CASE ~c.state /\ ~c.active
    <2>1. Update(b, c, now) = [event |-> "none", next |-> c]
      BY <1>7 DEF Update
    <2>2. q = p
      BY <1>7, <2>1 DEF Pressed
    <2> QED
      BY <2>1, <2>2, <1>7
  <1> QED
    BY <1>2, <1>3, <1>4, <1>5, <1>6, <1>7

----------------------------------------------------------------------------
(* The invariant.                                                          *)

LEMMA InitInv == Init => DriveInv
  <1> SUFFICES ASSUME Init PROVE DriveInv
    OBVIOUS
  <1> USE DEF Init
  <1>1. TypeOK
    <2>1. hmi \in [Contacts -> ContactType]
      <3>1. \A b \in Contacts : Contact(b = "aeb") \in ContactType
        BY DEF Contact, ContactType
      <3> QED
        BY <3>1
    <2>2. presses \in [Contacts -> [since : Nat, count : Nat]]
      OBVIOUS
    <2>3. config.steps \in Nat
      BY DriveAssumption
    <2>4. env \in Scenes /\ env.at \in 0 .. step
      BY DEF Scenes, Obstacles
    <2>5. cache \in [filter : {Empty} \cup Scenes, noisy : {Empty} \cup Scenes]
      OBVIOUS
    <2>6. target \in [acceleration : Targets, steering : Targets]
      BY DEF Targets
    <2>7. assist \subseteq {"enabled", "active", "hasTarget", "aeb", "lka"}
      BY DEF Starts
    <2>8. config \in Configs /\ step \in 1 .. config.steps + 1 /\ retries \in 0 .. RetryLimit
      BY <2>3, DriveAssumption
    <2>9. controllers \subseteq {"basic", "other"} /\ queue \subseteq controllers
      OBVIOUS
    <2> QED
      BY <2>1, <2>2, <2>4, <2>5, <2>6, <2>7, <2>8, <2>9 DEF TypeOK
  <1>2. Stepping
    BY DEF Stepping
  <1>3. Current
    BY DEF Current, TargetsOf
  <1>4. Braked
    BY DEF Braked
  <1>5. Counted
    <2>1. \A b \in PushButtons : b \in Contacts
      BY DEF Contacts
    <2>2. ASSUME NEW b \in PushButtons
          PROVE  ~hmi[b].active /\ ~hmi[b].repeated
      <3>1. b # "aeb"
        BY DriveAssumption
      <3>2. hmi[b] = [state |-> FALSE, active |-> FALSE, last |-> 0, repeated |-> FALSE]
        BY <2>1, <3>1 DEF Contact
      <3> HIDE DEF Init
      <3> QED
        BY <3>2
    <2> QED
      BY <2>2 DEF Counted, Tracked
  <1>6. AccHasTarget
    BY DEF AccHasTarget, Starts
  <1> QED
    BY <1>1, <1>2, <1>3, <1>4, <1>5, <1>6 DEF DriveInv

\* ESMiniSimulator::process reads a scene and leaves everything else alone.
LEMMA StepSimulatorsInv == DriveInv /\ StepSimulators => DriveInv'
  <1> SUFFICES ASSUME DriveInv, StepSimulators PROVE DriveInv'
    OBVIOUS
  <1> USE DEF StepSimulators, basic, loop
  <1>1. TypeOK /\ config.steps \in Nat /\ step \in Nat /\ step >= 1
    BY ConfigType DEF DriveInv
  <1>2. /\ env' \in Scenes /\ env'.at = step /\ step <= config.steps
        /\ phase' \in {"vehicles", "failed"}
    BY <1>1 DEF Scenes
  <1>3. TypeOK'
    BY <1>1, <1>2 DEF TypeOK
  <1>4. Stepping'
    BY <1>2 DEF DriveInv, Stepping
  <1>5. Current' /\ Braked'
    BY <1>2 DEF Current, Braked, BasicDone
  <1>6. Counted'
    <2>1. Seen' = Seen
      BY <1>2 DEF Seen
    <2>2. phase # "failed"
      OBVIOUS
    <2> QED
      BY <2>1, <2>2 DEF DriveInv, Counted, Tracked, Held
  <1>7. AccHasTarget'
    BY DEF DriveInv, AccHasTarget
  <1> QED
    BY <1>3, <1>4, <1>5, <1>6, <1>7 DEF DriveInv

\* Vehicle::process reaches the actuator, the filter and, if there is one, the
\* noisy sensor around it.
LEMMA AllProcessed ==
    ASSUME TypeOK
    PROVE  /\ "control" \in Processed /\ "filter" \in Processed
           /\ config.noisy => "noisy" \in Processed
  <1>1. "control" \in Components /\ (IF config.noisy THEN "noisy" ELSE "filter") \in Components
    BY DEF Components
  <1>2. Components \subseteq Processed
    BY DEF Processed
  <1>3. ASSUME config.noisy PROVE "filter" \in Processed
    <2>1. "noisy" \in Components /\ Wraps["noisy"] = {"filter"}
      BY <1>1, <1>3 DEF Wraps
    <2>2. UNION {Wraps[c] : c \in Components} \subseteq Processed
      BY DEF Processed
    <2> QED
      BY <2>1, <2>2
  <1> QED
    BY <1>1, <1>2, <1>3

\* Vehicle::process starts the step afresh.
LEMMA StepVehiclesInv == DriveInv /\ StepVehicles => DriveInv'
  <1> SUFFICES ASSUME DriveInv, StepVehicles PROVE DriveInv'
    OBVIOUS
  <1> USE DEF StepVehicles, basic
  <1>1. TypeOK /\ config.noisy \in BOOLEAN /\ step \in Nat
    BY ConfigType DEF DriveInv
  <1>2. target' = [acceleration |-> Unset, steering |-> Unset]
    BY <1>1, AllProcessed
  <1>3. /\ cache' \in [filter : {Empty}, noisy : {Empty} \cup Scenes] /\ cache'.noisy = Empty
    <2>1. cache' = [c \in DOMAIN cache |-> IF c \in Processed THEN Empty ELSE cache[c]]
      OBVIOUS
    <2>2. cache \in [filter : {Empty} \cup Scenes, noisy : {Empty} \cup Scenes]
      BY <1>1 DEF TypeOK
    <2>3. "noisy" \notin Processed => cache.noisy = Empty
      BY <1>1, AllProcessed DEF DriveInv, Stepping
    <2>4. "filter" \in Processed
      BY <1>1, AllProcessed
    <2>5. /\ cache' = [filter |-> cache'.filter, noisy |-> cache'.noisy]
          /\ cache'.filter = Empty /\ cache'.noisy = Empty
      BY <2>1, <2>2, <2>3, <2>4
    <2> QED
      BY <2>5
  <1>4. TypeOK'
    <2>1. target' \in [acceleration : Targets, steering : Targets]
      BY <1>2 DEF Targets
    <2>2. cache' \in [filter : {Empty} \cup Scenes, noisy : {Empty} \cup Scenes]
      BY <1>3
    <2> QED
      BY <1>1, <2>1, <2>2 DEF TypeOK
  <1>5. Stepping'
    BY <1>3 DEF DriveInv, Stepping
  <1>6. Current'
    <2>1. Outputs' = [cache |-> cache', target |-> target', fullStop |-> fullStop', thrown |-> FALSE]
      BY DEF Outputs
    <2>2. cache' \in [filter : CachesOf(step'), noisy : CachesOf(step')] /\ cache'.filter = Empty
      BY <1>3 DEF CachesOf
    <2>3. target' \in [acceleration : TargetsOf(step'), steering : TargetsOf(step')]
      BY <1>2 DEF TargetsOf
    <2>4. fullStop' \in BOOLEAN
      BY <1>1 DEF TypeOK
    <2>5. Fresh(Outputs)'
      BY <1>3, <2>1, <2>2, <2>3, <2>4 DEF Fresh, CachesOf, TargetsOf, ScenesOf
    <2> QED
      BY <2>5 DEF Current
  <1>7. Braked'
    BY DEF Braked, BasicDone
  <1>8. Counted'
    <2>1. "basic" \in controllers => Seen' = Seen
      BY DEF Seen
    <2> QED
      BY <2>1 DEF DriveInv, Counted, Tracked, Held
  <1>9. AccHasTarget'
    BY DEF DriveInv, AccHasTarget
  <1> QED
    BY <1>4, <1>5, <1>6, <1>7, <1>8, <1>9 DEF DriveInv

\* What changes neither the data of the step nor the basic controller keeps the
\* invariant, whatever it does to the other one.
LEMMA RestInv ==
    ASSUME DriveInv, TypeOK', UNCHANGED <<config, step, env, cache, target, assist, fullStop>>,
           phase' \in {phase, "failed"},
           phase' # "failed" => ("basic" \in controllers' <=> "basic" \in controllers)
                                /\ ("basic" \in queue' <=> "basic" \in queue)
                                /\ (queue = {} => queue' = {}),
           \A b \in PushButtons :
              /\ hmi'[b].active = hmi[b].active /\ hmi'[b].last = hmi[b].last
              /\ hmi'[b].repeated = hmi[b].repeated /\ presses'[b] = presses[b]
    PROVE  DriveInv'
  <1>1. Stepping' /\ AccHasTarget'
    BY DEF DriveInv, Stepping, AccHasTarget
  <1>2. Current'
    <2>1. Outputs' = Outputs
      BY DEF Outputs
    <2>2. Fresh(Outputs) => Fresh(Outputs)'
      BY <2>1 DEF Fresh, CachesOf, TargetsOf, ScenesOf
    <2> QED
      BY <2>2 DEF DriveInv, Current, TargetsOf
  <1>3. Braked'
    BY DEF DriveInv, Braked, BasicDone
  <1>4. Counted'
    <2>1. phase' # "failed" => Seen' = Seen
      BY DEF Seen
    <2> QED
      BY <2>1 DEF DriveInv, Counted, Tracked, Held
  <1> QED
    BY <1>1, <1>2, <1>3, <1>4 DEF DriveInv

LEMMA PressInv == DriveInv /\ Press => DriveInv'
  <1> SUFFICES ASSUME DriveInv, Press PROVE DriveInv'
    OBVIOUS
  <1> USE DEF Press, loop
  <1>1. TypeOK
    BY DEF DriveInv
  <1>2. PICK b \in config.pressed : hmi' = UseContact(hmi, [x \in {b} |-> ~hmi[b].state])
    OBVIOUS
  <1>3. b \in Contacts
    BY <1>1, <1>2, ConfigType
  <1>4. ASSUME NEW d \in Contacts
        PROVE  /\ hmi'[d] \in ContactType /\ hmi'[d].active = hmi[d].active
               /\ hmi'[d].last = hmi[d].last /\ hmi'[d].repeated = hmi[d].repeated
    <2>1. hmi[d] \in ContactType /\ hmi[b] \in ContactType
      BY <1>1, <1>3 DEF TypeOK
    <2>2. (~hmi[b].state) \in BOOLEAN
      OBVIOUS
    <2>3. hmi'[d] = IF d = b THEN [hmi[d] EXCEPT !.state = ~hmi[b].state] ELSE hmi[d]
      BY <1>2 DEF UseContact
    <2>4. CASE d = b
      <3> DEFINE down == ~hmi[b].state
      <3>1. hmi'[d] = [hmi[d] EXCEPT !.state = down]
        BY <2>3, <2>4
      <3>2. down \in BOOLEAN
        BY <2>2
      <3> HIDE DEF down
      <3>3. hmi'[d] = [state |-> down, active |-> hmi[d].active, last |-> hmi[d].last,
                       repeated |-> hmi[d].repeated]
        BY <2>1, <3>1 DEF ContactType
      <3> QED
        BY <2>1, <3>2, <3>3 DEF ContactType
    <2>5. CASE d # b
      BY <2>1, <2>3, <2>5
    <2> QED
      BY <2>4, <2>5
  <1>5. hmi' \in [Contacts -> ContactType]
    <2>1. hmi' = [d \in Contacts |-> hmi'[d]]
      BY <1>2 DEF UseContact
    <2> QED
      BY <1>4, <2>1
  <1>6. TypeOK'
    BY <1>1, <1>5 DEF TypeOK, world
  <1>7. PushButtons \subseteq Contacts
    BY DEF Contacts
  <1> QED
    BY <1>4, <1>6, <1>7, RestInv DEF world

LEMMA StepOtherInv == DriveInv /\ (StepOther \/ Wake) => DriveInv'
  <1> SUFFICES ASSUME DriveInv, StepOther \/ Wake PROVE DriveInv'
    OBVIOUS
  <1>1. TypeOK /\ RetryLimit \in Nat /\ retries \in Nat
    BY ConfigType DEF DriveInv, TypeOK
  <1>2. CASE Wake
    <2>1. TypeOK'
      BY <1>1, <1>2 DEF TypeOK, Wake, world, basic
    <2> QED
      BY <1>2, <2>1, RestInv DEF Wake, world, basic
  <1>3. CASE StepOther
    <2> USE <1>3 DEF StepOther, world, basic
    <2>1. UNCHANGED <<config, step, env, cache, target, hmi, assist, fullStop, presses>>
      OBVIOUS
    <2>2. CASE Done("other") /\ UNCHANGED asleep
      <3>1. TypeOK'
        BY <1>1, <2>1, <2>2 DEF TypeOK, Done
      <3> QED
        BY <2>1, <2>2, <3>1, RestInv DEF Done
    <2>3. CASE Dies("other") /\ UNCHANGED asleep
      <3>1. phase' \in {phase, "failed"} /\ retries' = 0 /\ queue' \subseteq controllers'
        BY <1>1, <2>3 DEF Dies, TypeOK
      <3>2. phase' # "failed" => queue' = queue \ {"other"} /\ controllers' = controllers \ {"other"}
        BY <2>3 DEF Dies
      <3>3. controllers' \subseteq controllers
        BY <2>3 DEF Dies
      <3>4. TypeOK'
        BY <1>1, <2>1, <2>3, <3>1, <3>3 DEF TypeOK
      <3> QED
        BY <2>1, <3>1, <3>2, <3>4, RestInv
    <2>4. CASE /\ retries # RetryLimit /\ retries' = retries + 1 /\ asleep' = TRUE
               /\ UNCHANGED <<phase, controllers, queue>>
      <3>1. retries' \in 0 .. RetryLimit
        BY <1>1, <2>4 DEF TypeOK
      <3>2. TypeOK'
        BY <1>1, <2>1, <2>4, <3>1 DEF TypeOK
      <3> QED
        BY <2>1, <2>4, <3>2, RestInv
    <2> QED
      BY <2>2, <2>3, <2>4
  <1> QED
    BY <1>2, <1>3

LEMMA StepEndInv == DriveInv /\ StepEnd => DriveInv'
  <1> SUFFICES ASSUME DriveInv, StepEnd PROVE DriveInv'
    OBVIOUS
  <1> USE DEF StepEnd, world, basic, loop
  <1>1. /\ TypeOK /\ config.steps \in Nat /\ step \in Nat /\ step <= config.steps
        /\ step' = step + 1 /\ step' - 1 = step
    BY ConfigType DEF DriveInv, Stepping
  <1>2. TypeOK'
    <2>1. step' \in 1 .. config'.steps + 1 /\ env'.at \in 0 .. step'
      BY <1>1 DEF TypeOK
    <2> QED
      BY <1>1, <2>1 DEF TypeOK
  <1>3. Stepping' /\ AccHasTarget'
    BY DEF DriveInv, Stepping, AccHasTarget
  <1>4. Current'
    <2>1. Fresh(Outputs)
      BY DEF DriveInv, Current
    <2>2. target \in [acceleration : TargetsOf(step), steering : TargetsOf(step)]
      BY <2>1 DEF Fresh, Outputs
    <2> QED
      BY <1>1, <2>2 DEF Current, TargetsOf
  <1>5. Braked'
    BY DEF DriveInv, Braked, BasicDone
  <1>6. Counted'
    <2>1. Seen' = Seen
      BY <1>1 DEF Seen
    <2> QED
      BY <2>1 DEF DriveInv, Counted, Tracked, Held
  <1> QED
    BY <1>2, <1>3, <1>4, <1>5, <1>6 DEF DriveInv

\* The update of the HMI, as each push button sees it.
LEMMA HmiUpdated ==
    ASSUME DriveInv, StepBasic
    PROVE  /\ hmi' = UpdateMap(hmi, step) /\ hmi' \in [Contacts -> ContactType]
           /\ presses' \in [Contacts -> [since : Nat, count : Nat]]
           /\ assist' \subseteq {"enabled", "active", "hasTarget", "aeb", "lka"}
           /\ AccHasTarget'
           /\ \A b \in PushButtons :
                 /\ Tracked(b, hmi'[b], presses'[b], step)
                 /\ hmi[b].active /\ ~hmi'[b].active
                    => presses'[b].count = Worth(b, step - 1 - presses'[b].since)
  <1>1. TypeOK /\ step \in Nat /\ step >= 1 /\ AccHasTarget
    BY ConfigType DEF DriveInv
  <1> DEFINE events == UpdateEvents(hmi, step)
  <1>2. hmi' = UpdateMap(hmi, step) /\ presses' = CountPresses(events) /\ assist' = AfterHmi(events)
    BY DEF StepBasic
  <1>3. hmi \in [Contacts -> ContactType] /\ presses \in [Contacts -> [since : Nat, count : Nat]]
    BY <1>1 DEF TypeOK
  <1>4. hmi' \in [Contacts -> ContactType]
    BY <1>1, <1>2, <1>3, UpdateType
  <1>5. ASSUME NEW b \in Contacts
        PROVE  /\ hmi'[b] = Update(b, hmi[b], step).next
               /\ presses'[b] = Pressed(b, hmi[b], presses[b], step)
    <2>1. events[b] = Update(b, hmi[b], step).event
      BY DEF UpdateEvents
    <2> HIDE DEF events
    <2> QED
      BY <1>2, <2>1 DEF UpdateMap, CountPresses, Pressed
  <1>6. presses' \in [Contacts -> [since : Nat, count : Nat]]
    <2>1. presses' = [b \in Contacts |-> presses'[b]]
      BY <1>2 DEF CountPresses
    <2>2. ASSUME NEW b \in Contacts
          PROVE  presses'[b] \in [since : Nat, count : Nat]
      <3>1. presses[b] \in [since : Nat, count : Nat]
        BY <1>3
      <3>2. /\ [since |-> step, count |-> 0] \in [since : Nat, count : Nat]
            /\ [presses[b] EXCEPT !.count = @ + 1] \in [since : Nat, count : Nat]
        BY <1>1, <3>1
      <3> QED
        BY <1>5, <3>1, <3>2 DEF Pressed
    <2> QED
      BY <2>1, <2>2
  <1>7. ASSUME NEW b \in PushButtons
        PROVE  /\ Tracked(b, hmi'[b], presses'[b], step)
               /\ hmi[b].active /\ ~hmi'[b].active
                  => presses'[b].count = Worth(b, step - 1 - presses'[b].since)
    <2>1. b \in Contacts
      BY DEF Contacts
    <2>2. /\ phase = "controllers" /\ "basic" \in queue /\ "basic" \in controllers
      BY <1>1 DEF StepBasic, TypeOK
    <2>3. Seen = step - 1
      BY <2>2 DEF Seen
    <2>4. Tracked(b, hmi[b], presses[b], step - 1)
      BY <2>2, <2>3 DEF DriveInv, Counted
    <2>5. hmi[b] \in ContactType /\ presses[b] \in [since : Nat, count : Nat]
      BY <1>3, <2>1
    <2>6. step - 1 \in Nat /\ step = (step - 1) + 1
      BY <1>1
    <2>7. LET d == Update(b, hmi[b], step).next
              q == Pressed(b, hmi[b], presses[b], step)
          IN  /\ Tracked(b, d, q, step)
              /\ hmi[b].active /\ ~d.active => q.count = Worth(b, step - 1 - q.since)
      BY <2>4, <2>5, <2>6, PushUpdated
    <2> QED
      BY <1>5, <2>1, <2>7
  <1>8. /\ assist' \subseteq {"enabled", "active", "hasTarget", "aeb", "lka"}
        /\ AccHasTarget'
    <2> HIDE DEF events
    <2> QED
      BY <1>1, <1>2, AfterHmiOk DEF AccHasTarget
  <1> QED
    BY <1>2, <1>4, <1>6, <1>7, <1>8

\* The functions of the basic controller see the scene of the step only, and
\* the last of them brakes.
LEMMA FunctionsRun ==
    ASSUME DriveInv, StepBasic
    PROVE  \E o : /\ Fresh(o) /\ cache' = o.cache /\ target' = o.target /\ fullStop' = o.fullStop
                  /\ \/ o.thrown /\ Dies("basic")
                     \/ /\ ~o.thrown /\ Done("basic")
                        /\ "aeb" \in assist' /\ ~config.noisy
                              /\ (env.obstacle = "near" \/ o.fullStop)
                           => o.target.acceleration.by = "aeb"
  <1>1. TypeOK /\ phase = "controllers"
    BY DEF DriveInv, StepBasic
  <1>2. PICK moved \in {"far", "near"}, has \in BOOLEAN :
               \E acc \in {AccControl(Outputs, assist', moved, has)} :
               \E lka \in {IF acc.thrown THEN acc ELSE LkaControl(acc, assist', moved, has)} :
               \E aeb \in {IF lka.thrown THEN lka ELSE AebControl(lka, assist', moved, has)} :
                  /\ cache' = aeb.cache /\ target' = aeb.target /\ fullStop' = aeb.fullStop
                  /\ IF aeb.thrown THEN Dies("basic") ELSE Done("basic")
    BY DEF StepBasic
  <1> DEFINE acc == AccControl(Outputs, assist', moved, has)
             lka == IF acc.thrown THEN acc ELSE LkaControl(acc, assist', moved, has)
             aeb == IF lka.thrown THEN lka ELSE AebControl(lka, assist', moved, has)
  <1>9. /\ cache' = aeb.cache /\ target' = aeb.target /\ fullStop' = aeb.fullStop
        /\ IF aeb.thrown THEN Dies("basic") ELSE Done("basic")
    BY <1>2
  <1>3. env \in ScenesOf(step)
    BY <1>1 DEF DriveInv, TypeOK, Stepping, Scenes, ScenesOf
  <1>4. Fresh(Outputs)
    BY <1>1 DEF DriveInv, Current
  <1>5. Fresh(acc)
    BY <1>1, <1>3, <1>4, AccFresh
  <1>6. Fresh(lka)
    BY <1>1, <1>3, <1>5, LkaFresh
  <1>7. CASE lka.thrown
    <2>1. aeb = lka
      BY <1>7
    <2> QED
      BY <1>6, <1>7, <1>9, <2>1
  <1>8. CASE ~lka.thrown
    <2>1. aeb = AebControl(lka, assist', moved, has)
      BY <1>8
    <2>2. /\ Fresh(aeb)
          /\ "aeb" \in assist' /\ ~config.noisy /\ (env.obstacle = "near" \/ aeb.fullStop)
             => aeb.target.acceleration.by = "aeb"
      BY <1>1, <1>3, <1>6, <2>1, AebFresh
    <2> HIDE DEF lka, aeb
    <2> QED
      BY <1>9, <2>2
  <1> QED
    BY <1>7, <1>8

LEMMA StepBasicInv == DriveInv /\ StepBasic => DriveInv'
  <1> SUFFICES ASSUME DriveInv, StepBasic PROVE DriveInv'
    OBVIOUS
  <1>1. /\ TypeOK /\ Stepping /\ config.noisy \in BOOLEAN /\ step \in Nat
        /\ phase = "controllers" /\ UNCHANGED <<config, step, env, asleep>>
    BY ConfigType DEF DriveInv, StepBasic
  <1>2. PICK o : /\ Fresh(o) /\ cache' = o.cache /\ target' = o.target /\ fullStop' = o.fullStop
                 /\ \/ o.thrown /\ Dies("basic")
                    \/ /\ ~o.thrown /\ Done("basic")
                       /\ "aeb" \in assist' /\ ~config.noisy
                             /\ (env.obstacle = "near" \/ o.fullStop)
                          => o.target.acceleration.by = "aeb"
    BY FunctionsRun
  <1>3. /\ cache' \in [filter : CachesOf(step), noisy : CachesOf(step)]
        /\ target' \in [acceleration : TargetsOf(step), steering : TargetsOf(step)]
        /\ fullStop' \in BOOLEAN
        /\ ~config.noisy => cache'.noisy = Empty /\ cache'.filter \in {Empty, env}
    BY <1>2 DEF Fresh
  <1>4. /\ retries' = 0 /\ phase' \in {"controllers", "failed"}
        /\ controllers' \subseteq controllers /\ queue' \subseteq controllers'
        /\ phase' # "failed" => queue' = queue \ {"basic"}
    BY <1>1, <1>2 DEF Dies, Done, TypeOK
  <1>5. phase' # "failed" /\ "basic" \in controllers'
        => (/\ "aeb" \in assist' /\ ~config.noisy /\ (env.obstacle = "near" \/ fullStop')
            => target'.acceleration.by = "aeb")
    BY <1>2 DEF Dies
  <1>6. TypeOK'
    <2>1. CachesOf(step) \subseteq {Empty} \cup Scenes
      BY <1>1 DEF CachesOf, ScenesOf, Scenes
    <2>2. cache' \in [filter : {Empty} \cup Scenes, noisy : {Empty} \cup Scenes]
      BY <1>3, <2>1
    <2>3. TargetsOf(step) \subseteq Targets
      BY <1>1 DEF TargetsOf, Targets
    <2>4. target' \in [acceleration : Targets, steering : Targets]
      BY <1>3, <2>3
    <2>5. retries' \in 0 .. RetryLimit
      BY <1>4, ConfigType, <1>1
    <2> QED
      BY <1>1, <1>3, <1>4, <2>2, <2>4, <2>5, HmiUpdated DEF TypeOK
  <1>7. Stepping'
    BY <1>1, <1>3, <1>4 DEF Stepping
  <1>8. Current'
    <2>1. Outputs' = [cache |-> cache', target |-> target', fullStop |-> fullStop', thrown |-> FALSE]
      BY DEF Outputs
    <2>2. Fresh(Outputs)'
      BY <1>1, <1>3, <2>1 DEF Fresh, CachesOf, TargetsOf, ScenesOf
    <2> QED
      BY <1>4, <2>2 DEF Current
  <1>9. Braked'
    BY <1>1, <1>4, <1>5 DEF Braked, BasicDone
  <1>10. Counted'
    <2>1. phase' # "failed" => Seen' = step
      BY <1>1, <1>4 DEF Seen
    <2> QED
      BY <2>1, HmiUpdated DEF Counted, Tracked, Held
  <1> QED
    BY <1>6, <1>7, <1>8, <1>9, <1>10, HmiUpdated DEF DriveInv

----------------------------------------------------------------------------
(* What follows from it.                                                   *)

LEMMA NextInv == DriveInv /\ [Next]_vars => DriveInv'
  <1> SUFFICES ASSUME DriveInv, [Next]_vars PROVE DriveInv'
    OBVIOUS
  <1>1. CASE UNCHANGED vars
    <2>1. TypeOK'
      BY <1>1 DEF DriveInv, TypeOK, vars, world, basic, loop
    <2> QED
      BY <1>1, <2>1, RestInv DEF vars, world, basic, loop
  <1> QED
    BY <1>1, StepSimulatorsInv, StepVehiclesInv, StepBasicInv, StepOtherInv, StepEndInv, PressInv
       DEF Next, Engine

THEOREM Inductive == Spec => []DriveInv
  BY InitInv, NextInv, PTL DEF Spec

\* AdaptiveCruiseControl::control never finds its assertion violated.
THEOREM AccHasTargetHolds == Spec => []AccHasTarget
  <1>1. DriveInv => AccHasTarget
    BY DEF DriveInv
  <1> QED
    BY <1>1, Inductive, PTL

\* The simulator applies what was set in the last step from its own scene.
THEOREM OneStepLatencyHolds == Spec => OneStepLatency
  <1>1. DriveInv /\ [Next]_vars =>
          [\A t \in {target.acceleration, target.steering} :
             phase = "simulators" /\ phase' = "vehicles" /\ t # Unset
             => t.at = step - 1 /\ t.from = t.at]_vars
    <2> SUFFICES ASSUME DriveInv, phase = "simulators",
                        NEW t \in {target.acceleration, target.steering}, t # Unset
                 PROVE  t.at = step - 1 /\ t.from = t.at
      OBVIOUS
    <2>1. t \in TargetsOf(step - 1)
      BY DEF DriveInv, Current
    <2> QED
      BY <2>1 DEF TargetsOf
  <1> QED
    BY <1>1, Inductive, PTL DEF Spec, OneStepLatency

\* The simulator applies the brake in the step after an obstacle was near, and
\* as long as a full stop goes on.
THEOREM BrakesInTimeHolds == Spec => BrakesInTime
  <1>1. DriveInv /\ [Next]_vars =>
          [(/\ phase = "simulators" /\ phase' = "vehicles"
            /\ "aeb" \in assist /\ "basic" \in controllers /\ ~config.noisy
            /\ env.obstacle = "near" \/ fullStop)
           => Actuation(target.acceleration).by = "aeb"]_vars
    <2> SUFFICES ASSUME DriveInv, phase = "simulators", "aeb" \in assist, "basic" \in controllers,
                        ~config.noisy, env.obstacle = "near" \/ fullStop
                 PROVE  Actuation(target.acceleration).by = "aeb"
      OBVIOUS
    <2>1. target.acceleration.by = "aeb"
      BY DEF DriveInv, Braked, BasicDone
    <2> QED
      BY <2>1 DEF Actuation, Unset
  <1> QED
    BY <1>1, Inductive, PTL DEF Spec, BrakesInTime

\* A button that is released has run its functions as often as it was held.
THEOREM PressCountedHolds == Spec => PressCounted
  <1>1. DriveInv /\ [Next]_vars => [Counts]_vars
    <2> SUFFICES ASSUME DriveInv, Next, NEW b \in PushButtons, hmi[b].active, ~hmi'[b].active
                 PROVE  presses'[b].count = Worth(b, step - 1 - presses'[b].since)
      BY DEF Counts
    <2>1. CASE StepBasic
      BY <2>1, HmiUpdated
    <2>2. CASE Press
      <3>1. PICK d \in config.pressed : hmi' = UseContact(hmi, [x \in {d} |-> ~hmi[d].state])
        BY <2>2 DEF Press
      <3>2. b \in Contacts /\ hmi[b] \in ContactType
        BY DEF Contacts, DriveInv, TypeOK
      <3> DEFINE down == ~hmi[d].state
      <3>3. hmi'[b] \in {hmi[b], [hmi[b] EXCEPT !.state = down]}
        BY <3>1, <3>2 DEF UseContact
      <3> HIDE DEF down
      <3>4. hmi'[b].active = hmi[b].active
        BY <3>2, <3>3 DEF ContactType
      <3> QED
        BY <3>4
    <2>3. CASE UNCHANGED hmi
      BY <2>3
    <2> QED
      BY <2>1, <2>2, <2>3
         DEF Next, Engine, StepSimulators, StepVehicles, StepOther, Wake, StepEnd, basic
  <1> QED
    BY <1>1, Inductive, PTL DEF Spec, PressCounted
===============================================================================
