------------------------ MODULE TestScheduler_proofs ------------------------
(***************************************************************************)
(* Theorems about TestScheduler, for all tests, whatever they call, however *)
(* long they wait, and in whatever order they begin.                        *)
(***************************************************************************)
EXTENDS TestScheduler, FiniteSetTheorems, SequenceTheorems, TLAPS

-----------------------------------------------------------------------------
(* Sequences.                                                              *)

\* What is left of a sequence when the element at i has been erased.
LEMMA RemoveAtProperties ==
  ASSUME NEW S, NEW s \in Seq(S), NEW i \in 1 .. Len(s)
  PROVE  /\ RemoveAt(s, i) \in Seq(S)
         /\ DOMAIN RemoveAt(s, i) = 1 .. Len(s) - 1
         /\ \A j \in 1 .. Len(s) - 1 : RemoveAt(s, i)[j] = IF j < i THEN s[j] ELSE s[j + 1]
<1>. DEFINE l == SubSeq(s, 1, i - 1)
            r == SubSeq(s, i + 1, Len(s))
<1>1. l \in Seq(S) /\ Len(l) = i - 1 /\ \A j \in 1 .. i - 1 : l[j] = s[j]
  OBVIOUS
<1>2. r \in Seq(S) /\ Len(r) = Len(s) - i /\ \A j \in 1 .. Len(s) - i : r[j] = s[i + j]
  OBVIOUS
<1>. HIDE DEF l, r
<1>3. l \o r \in Seq(S) /\ Len(l \o r) = Len(l) + Len(r)
  BY <1>1, <1>2, ConcatProperties
<1>4. ASSUME NEW j \in 1 .. Len(s) - 1
      PROVE  (l \o r)[j] = IF j < i THEN s[j] ELSE s[j + 1]
  BY <1>1, <1>2
<1>5. RemoveAt(s, i) = l \o r
  BY DEF RemoveAt, l, r
<1>6. DOMAIN (l \o r) = 1 .. Len(s) - 1
  BY <1>1, <1>2, <1>3
<1>. QED  BY <1>3, <1>4, <1>5, <1>6

\* What is appended may be appended after the erasure as well.
LEMMA RemoveAfterAppend ==
  ASSUME NEW S, NEW s \in Seq(S), NEW t \in S, NEW i \in 1 .. Len(s)
  PROVE  RemoveAt(Append(s, t), i) = Append(RemoveAt(s, i), t)
<1>. DEFINE a == RemoveAt(Append(s, t), i)
            r == RemoveAt(s, i)
            b == Append(r, t)
<1>1. /\ Append(s, t) \in Seq(S) /\ Len(Append(s, t)) = Len(s) + 1 /\ i \in 1 .. Len(Append(s, t))
      /\ \A j \in 1 .. Len(s) : Append(s, t)[j] = s[j]
      /\ Append(s, t)[Len(s) + 1] = t
  OBVIOUS
<1>2. /\ a \in Seq(S) /\ DOMAIN a = 1 .. Len(s)
      /\ \A j \in 1 .. Len(s) : a[j] = IF j < i THEN Append(s, t)[j] ELSE Append(s, t)[j + 1]
  <2>. DEFINE e == Append(s, t)
  <2>1. e \in Seq(S) /\ i \in 1 .. Len(e) /\ Len(e) - 1 = Len(s)
    BY <1>1
  <2>. HIDE DEF e
  <2>2. /\ RemoveAt(e, i) \in Seq(S) /\ DOMAIN RemoveAt(e, i) = 1 .. Len(s)
        /\ \A j \in 1 .. Len(s) : RemoveAt(e, i)[j] = IF j < i THEN e[j] ELSE e[j + 1]
    BY <2>1, RemoveAtProperties
  <2>. QED  BY <2>2 DEF e
<1>3. /\ r \in Seq(S) /\ DOMAIN r = 1 .. Len(s) - 1
      /\ \A j \in 1 .. Len(s) - 1 : r[j] = IF j < i THEN s[j] ELSE s[j + 1]
  BY RemoveAtProperties
<1>. HIDE DEF a, r
<1>4. /\ b \in Seq(S) /\ DOMAIN b = 1 .. Len(s) /\ b[Len(s)] = t
      /\ \A j \in 1 .. Len(s) - 1 : b[j] = r[j]
  BY <1>3
<1>5. ASSUME NEW j \in 1 .. Len(s) PROVE a[j] = b[j]
  BY <1>1, <1>2, <1>3, <1>4
<1>6. a = b
  BY <1>2, <1>4, <1>5
<1>. QED  BY <1>6 DEF a, r

\* A sequence without repetitions, and what it has before and after an erasure.
Once(s) == \A i, j \in DOMAIN s : s[i] = s[j] => i = j

LEMMA EraseOnce ==
  ASSUME NEW S, NEW s \in Seq(S), NEW i \in 1 .. Len(s), Once(s)
  PROVE  /\ Once(RemoveAt(s, i))
         /\ \A t : (\E j \in DOMAIN RemoveAt(s, i) : RemoveAt(s, i)[j] = t) <=>
                   (\E j \in DOMAIN s : s[j] = t) /\ t # s[i]
<1>. DEFINE r == RemoveAt(s, i)
            before(j) == IF j < i THEN j ELSE j + 1
<1>1. DOMAIN s = 1 .. Len(s) /\ Len(s) \in Nat /\ i \in Nat
  OBVIOUS
<1>2. /\ DOMAIN r = 1 .. Len(s) - 1
      /\ \A j \in DOMAIN r : j \in Nat /\ before(j) \in DOMAIN s /\ before(j) # i /\ r[j] = s[before(j)]
  BY <1>1, RemoveAtProperties
<1>3. ASSUME NEW j \in DOMAIN s, j # i
      PROVE  \E k \in DOMAIN r : r[k] = s[j]
  <2>1. CASE j < i
    <3>1. j \in DOMAIN r /\ before(j) = j
      BY <1>1, <1>2, <2>1
    <3>. QED  BY <1>2, <3>1
  <2>2. CASE j > i
    <3>1. j - 1 \in DOMAIN r /\ before(j - 1) = j
      BY <1>1, <1>2, <2>2
    <3>. QED  BY <1>2, <3>1
  <2>. QED  BY <1>1, <1>3, <2>1, <2>2
<1>4. \A j, k \in Nat : before(j) = before(k) => j = k
  BY <1>1
<1>. HIDE DEF r, before
<1>5. Once(r)
  BY <1>2, <1>4 DEF Once
<1>6. ASSUME NEW t PROVE (\E j \in DOMAIN r : r[j] = t) <=> (\E j \in DOMAIN s : s[j] = t) /\ t # s[i]
  BY <1>1, <1>2, <1>3 DEF Once
<1>. QED  BY <1>5, <1>6 DEF r

\* A sequence that is made of a finite set has each of its elements once.
LEMMA SetToSeqOnce ==
  ASSUME NEW S, IsFiniteSet(S)
  PROVE  /\ SetToSeq(S) \in Seq(S) /\ Once(SetToSeq(S))
         /\ \A t \in S : \E i \in DOMAIN SetToSeq(S) : SetToSeq(S)[i] = t
<1>. DEFINE n == Cardinality(S)
            f == SetToSeq(S)
<1>1. n \in Nat /\ ExistsBijection(1 .. n, S)
  BY FS_CardinalityType
<1>2. \E g \in [1 .. n -> S] : IsInjective(g)
  BY <1>1 DEF ExistsBijection, Bijection, Injection
<1>3. f \in [1 .. n -> S] /\ IsInjective(f)
  BY <1>2 DEF SetToSeq
<1>4. Cardinality(1 .. n) = n /\ IsFiniteSet(1 .. n)
  BY <1>1, FS_Interval
<1>5. f \in Injection(1 .. n, S)
  BY <1>3 DEF Injection
<1>6. f \in Surjection(1 .. n, S)
  BY <1>4, <1>5, FS_Injection
<1>. QED  BY <1>1, <1>3, <1>6 DEF Once, IsInjective, Surjection

-----------------------------------------------------------------------------
(* The invariant, in parts.                                                *)

Waits == {"unbegun", "gate", "duration", "until", "timeout", "not"}

TypeOK ==
  /\ current \in Tests \cup {None}
  /\ loops \in Seq(Tests) /\ pos \in Nat \ {0}
  /\ status \in [Tests -> {"pending", "running", "aborted", "passed", "failed"}]
  /\ complete \in [Tests -> BOOLEAN] /\ failures \in [Tests -> BOOLEAN]
  /\ verdict \in Verdicts \cup {None}
  /\ wait \in [Tests -> Waits] /\ left \in [Tests -> Int]

InLoops(t) == \E i \in DOMAIN loops : loops[i] = t

\* While the run goes on, the triggers of the loop are those of the tests that wait for
\* it, and the one at the iterator whose test is running.
Listed ==
  phase # "thrown" =>
    /\ Once(loops)
    /\ \A t \in Tests : Suspended(t) => InLoops(t)
    /\ \A i \in DOMAIN loops : \/ Suspended(loops[i])
                               \/ phase = "loop" /\ i = pos /\ loops[i] = current
    /\ phase = "loop" /\ current # None => pos \in DOMAIN loops /\ loops[pos] = current

\* The test that is running waits for nothing, and the machine for it.
Awake ==
  current # None => wait[current] = "not" /\ phase \in {"start", "time", "loop", "stop"}

\* A test that is complete is over, and its status is what its checks have given.
Over ==
  \A t \in Tests : complete[t] =>
    /\ current # t /\ wait[t] = "not"
    /\ status[t] = IF failures[t] THEN "failed" ELSE "passed"

\* The verdict is derived from the checks of all tests, when all are complete.
Derived ==
  verdict # None =>
    /\ \A t \in Tests : complete[t]
    /\ verdict = "SUCCESS" <=> \A t \in Tests : ~failures[t]

SchedulerInv == TypeOK /\ Listed /\ Awake /\ Over /\ Derived

-----------------------------------------------------------------------------
(* A test begins, goes on, or waits.                                       *)

LEMMA InitInv == Init => SchedulerInv
<1>. SUFFICES ASSUME Init PROVE SchedulerInv
  OBVIOUS
<1>1. IsFiniteSet(Gated) /\ Gated \subseteq Tests
  BY TestsAssumption, FS_Subset DEF Gated
<1>2. /\ loops \in Seq(Gated) /\ Once(loops)
      /\ \A t \in Gated : InLoops(t)
  BY <1>1, SetToSeqOnce DEF Init, InLoops
<1>3. loops \in Seq(Tests) /\ \A i \in DOMAIN loops : loops[i] \in Gated
  BY <1>1, <1>2
<1>4. TypeOK
  BY <1>3 DEF Init, TypeOK, Waits
<1>5. Listed
  BY <1>1, <1>2, <1>3, TestsAssumption DEF Init, Listed, Suspended
<1>6. Awake /\ Over /\ Derived
  BY DEF Init, Awake, Over, Derived
<1>. QED  BY <1>4, <1>5, <1>6 DEF SchedulerInv

\* A step that leaves the tests and the triggers alone.
LEMMA NobodyMoves ==
  ASSUME SchedulerInv, UNCHANGED <<current, loops, report, wait>>,
         pos' \in Nat \ {0}, left' \in [Tests -> Int],
         \/ phase # "thrown" /\ current = None
         \/ UNCHANGED <<phase, pos>>
  PROVE  SchedulerInv'
<1>1. TypeOK'
  BY DEF SchedulerInv, TypeOK, report
<1>2. Listed'
  BY TestsAssumption DEF SchedulerInv, TypeOK, Listed, Suspended, InLoops, report
<1>3. (Awake /\ Over /\ Derived)'
  BY DEF SchedulerInv, Awake, Over, Derived, report
<1>. QED  BY <1>1, <1>2, <1>3 DEF SchedulerInv

LEMMA ResumeInv ==
  ASSUME SchedulerInv, NEW t \in Tests, Begin(t) \/ TimeUp(t) \/ Visit(t)
  PROVE  SchedulerInv'
<1>1. /\ current = None /\ current' = t
      /\ status' = [status EXCEPT ![t] = "running"] /\ wait' = [wait EXCEPT ![t] = "not"]
      /\ UNCHANGED <<phase, loops, pos, complete, failures, verdict, left>>
  BY DEF Begin, TimeUp, Visit, Resume, machine
<1>2. /\ ~Visit(t) => wait[t] \in {"unbegun", "duration"} /\ phase # "loop"
      /\ phase \in {"start", "time", "loop", "stop"}
  BY DEF Begin, TimeUp, Visit, Due
<1>3. Visit(t) => phase = "loop" /\ pos \in DOMAIN loops /\ loops[pos] = t
  BY DEF Visit
<1>4. t # None
  BY TestsAssumption
<1>5. Visit(t) => Suspended(t)
  BY <1>1, <1>3, <1>4 DEF SchedulerInv, Listed
<1>6. ~complete[t]
  BY <1>2, <1>5 DEF SchedulerInv, Over, Suspended
<1>7. TypeOK'
  BY <1>1 DEF SchedulerInv, TypeOK, Waits
<1>8. wait'[t] = "not" /\ \A u \in Tests \ {t} : wait'[u] = wait[u] /\ status'[u] = status[u]
  BY <1>1 DEF SchedulerInv, TypeOK
<1>9. Listed'
  <2>. SUFFICES ASSUME phase # "thrown" PROVE Listed'
    BY <1>1 DEF Listed
  <2>1. Once(loops) /\ \A i \in DOMAIN loops : loops[i] \in Tests /\ Suspended(loops[i])
    BY <1>1, TestsAssumption DEF SchedulerInv, TypeOK, Listed
  <2>2. \A u \in Tests : Suspended(u)' => InLoops(u)'
    BY <1>1, <1>8 DEF SchedulerInv, Listed, Suspended, InLoops
  <2>3. \A i \in DOMAIN loops : loops[i] # t => Suspended(loops[i])'
    BY <1>1, <1>8, <2>1 DEF Suspended
  <2>4. \A i \in DOMAIN loops : loops[i] = t => phase = "loop" /\ i = pos
    BY <1>2, <1>3, <2>1 DEF Once, Suspended
  <2>5. phase = "loop" => pos \in DOMAIN loops /\ loops[pos] = t
    BY <1>2, <1>3
  <2>. QED  BY <1>1, <2>1, <2>2, <2>3, <2>4, <2>5 DEF Listed
<1>10. (Awake /\ Over /\ Derived)'
  BY <1>1, <1>2, <1>6, <1>8 DEF SchedulerInv, TypeOK, Awake, Over, Derived
<1>. QED  BY <1>7, <1>9, <1>10 DEF SchedulerInv

\* The test that is running is not complete, and no verdict is there yet.
LEMMA RunningIsOpen ==
  ASSUME SchedulerInv, NEW t \in Tests, current = t
  PROVE  ~complete[t] /\ verdict = None /\ wait[t] = "not"
<1>1. t # None
  BY TestsAssumption
<1>2. ~complete[t] /\ wait[t] = "not"
  BY <1>1 DEF SchedulerInv, Over, Awake
<1>. QED  BY <1>2 DEF SchedulerInv, Derived

LEMMA FailsInv ==
  ASSUME SchedulerInv, NEW t \in Tests, current = t, Fails(t)
  PROVE  SchedulerInv'
<1>1. /\ status' = [status EXCEPT ![t] = "aborted"] /\ phase' = "thrown" /\ current' = None
      /\ UNCHANGED <<loops, pos, complete, failures, verdict, wait, left>>
  BY DEF Fails, Escapes, waits
<1>2. ~complete[t] /\ verdict = None
  BY RunningIsOpen
<1>3. TypeOK' /\ Listed' /\ Awake'
  BY <1>1 DEF SchedulerInv, TypeOK, Listed, Awake
<1>4. Over' /\ Derived'
  BY <1>1, <1>2, TestsAssumption DEF SchedulerInv, TypeOK, Over, Derived
<1>. QED  BY <1>3, <1>4 DEF SchedulerInv

LEMMA ExpectInv ==
  ASSUME SchedulerInv, NEW t \in Tests, Expect(t)
  PROVE  SchedulerInv'
<1>1. /\ current = t /\ failures' = [failures EXCEPT ![t] = TRUE]
      /\ UNCHANGED <<phase, loops, pos, current, status, complete, verdict, wait, left>>
  BY DEF Expect, Call, machine, waits
<1>2. ~complete[t] /\ verdict = None
  BY <1>1, RunningIsOpen
<1>3. TypeOK' /\ Listed' /\ Awake'
  BY <1>1 DEF SchedulerInv, TypeOK, Listed, Awake, Suspended, InLoops
<1>4. Over' /\ Derived'
  BY <1>1, <1>2 DEF SchedulerInv, TypeOK, Over, Derived
<1>. QED  BY <1>3, <1>4 DEF SchedulerInv

-----------------------------------------------------------------------------
(* A test yields or ends.                                                  *)

Rest(t) == IF phase = "loop" THEN RemoveAt(loops, pos) ELSE loops

\* Without the trigger of the test that is running, the loop has those of the others.
LEMMA OthersListed ==
  ASSUME SchedulerInv, NEW t \in Tests, current = t, phase # "thrown"
  PROVE  /\ Rest(t) \in Seq(Tests) /\ Once(Rest(t))
         /\ \A u \in Tests : Suspended(u) <=> \E i \in DOMAIN Rest(t) : Rest(t)[i] = u
<1>1. /\ t # None /\ ~Suspended(t) /\ loops \in Seq(Tests) /\ DOMAIN loops = 1 .. Len(loops)
  BY TestsAssumption, RunningIsOpen DEF Suspended, SchedulerInv, TypeOK
<1>2. /\ Once(loops)
      /\ \A u \in Tests : Suspended(u) => \E i \in DOMAIN loops : loops[i] = u
      /\ \A i \in DOMAIN loops : Suspended(loops[i]) \/ (phase = "loop" /\ i = pos /\ loops[i] = t)
      /\ phase = "loop" => pos \in DOMAIN loops /\ loops[pos] = t
  BY <1>1 DEF SchedulerInv, Listed, InLoops
<1>3. CASE phase = "loop"
  <2>1. pos \in 1 .. Len(loops) /\ loops[pos] = t
    BY <1>1, <1>2, <1>3
  <2>2. /\ Once(RemoveAt(loops, pos))
        /\ \A u : (\E j \in DOMAIN RemoveAt(loops, pos) : RemoveAt(loops, pos)[j] = u) <=>
                  (\E j \in DOMAIN loops : loops[j] = u) /\ u # loops[pos]
    BY <1>1, <1>2, <2>1, EraseOnce
  <2>4. RemoveAt(loops, pos) \in Seq(Tests)
    BY <1>1, <2>1, RemoveAtProperties
  <2>3. \A u \in Tests : Suspended(u) <=> (\E j \in DOMAIN loops : loops[j] = u) /\ u # t
    BY <1>1, <1>2, <2>1 DEF Once
  <2>. QED  BY <1>3, <2>1, <2>2, <2>3, <2>4 DEF Rest
<1>4. CASE phase # "loop"
  BY <1>1, <1>2, <1>4 DEF Rest
<1>. QED  BY <1>3, <1>4

\* The trigger that a test inserts when it begins to wait stands behind all others, and
\* the one that has resumed it is gone.
LEMMA ReturnsListed ==
  ASSUME SchedulerInv, NEW t \in Tests, current = t, phase' = phase, NEW kind \in Waits,
         wait' = [wait EXCEPT ![t] = kind], kind # "gate",
         Returns(IF kind \in {"until", "timeout"} THEN Append(loops, t) ELSE loops)
  PROVE  Listed' /\ loops' \in Seq(Tests) /\ pos' \in Nat \ {0}
<1>. DEFINE again == kind \in {"until", "timeout"}
            s == IF again THEN Append(loops, t) ELSE loops
<1>1. /\ loops \in Seq(Tests) /\ s \in Seq(Tests) /\ pos \in Nat \ {0}
      /\ t # None /\ current' = None
  BY TestsAssumption DEF SchedulerInv, TypeOK, Returns
<1>2. phase = "loop" /\ phase # "thrown" => pos \in 1 .. Len(loops)
  BY <1>1 DEF SchedulerInv, Listed
<1>3. pos' \in Nat \ {0}
  <2>1. pos' \in {pos, 1, pos + 1}
    BY DEF Returns, Unpinned
  <2>. QED  BY <1>1, <2>1
<1>4. loops' = IF again THEN Append(Rest(t), t) ELSE Rest(t)
  <2>1. CASE phase = "loop" /\ again
    <3>1. loops' = RemoveAt(Append(loops, t), pos)
      BY <2>1 DEF Returns, Unpinned
    <3>2. RemoveAt(Append(loops, t), pos) = Append(RemoveAt(loops, pos), t)
      BY <1>1, <1>2, <2>1, RemoveAfterAppend
    <3>. QED  BY <2>1, <3>1, <3>2 DEF Rest
  <2>2. CASE ~(phase = "loop" /\ again)
    BY <2>2 DEF Returns, Unpinned, Rest
  <2>. QED  BY <2>1, <2>2
<1>5. loops' \in Seq(Tests)
  <2>1. Rest(t) \in Seq(Tests)
    BY <1>1, <1>2, RemoveAtProperties DEF Rest
  <2>. QED  BY <1>4, <2>1
<1>6. CASE phase # "thrown"
  <2>1. /\ Rest(t) \in Seq(Tests) /\ Once(Rest(t))
        /\ \A u \in Tests : Suspended(u) <=> \E i \in DOMAIN Rest(t) : Rest(t)[i] = u
    BY <1>6, OthersListed
  <2>2. ~Suspended(t)
    BY RunningIsOpen DEF Suspended
  <2>3. /\ Suspended(t)' <=> again
        /\ \A u \in Tests \ {t} : Suspended(u)' <=> Suspended(u)
    BY DEF SchedulerInv, TypeOK, Suspended, Waits
  <2>. HIDE DEF s, again
  <2>4. Once(loops') /\ \A u \in Tests : Suspended(u)' <=> \E i \in DOMAIN loops' : loops'[i] = u
    <3>1. CASE again
      <4>. DEFINE r == Rest(t)
      <4>1. r \in Seq(Tests) /\ loops' = Append(r, t)
        BY <1>4, <2>1, <3>1
      <4>. HIDE DEF r
      <4>2. /\ DOMAIN r = 1 .. Len(r) /\ Len(r) \in Nat /\ DOMAIN loops' = 1 .. Len(r) + 1
            /\ \A i \in DOMAIN r : loops'[i] = r[i]
            /\ loops'[Len(r) + 1] = t
        BY <4>1
      <4>3. \A i \in DOMAIN r : r[i] # t
        BY <2>1, <2>2 DEF r
      <4>4. Once(loops')
        BY <2>1, <4>2, <4>3 DEF Once, r
      <4>5. \A u \in Tests : (\E i \in DOMAIN loops' : loops'[i] = u) <=>
                             (\E i \in DOMAIN r : r[i] = u) \/ u = t
        BY <4>2
      <4>6. \A u \in Tests : Suspended(u) <=> \E i \in DOMAIN r : r[i] = u
        BY <2>1 DEF r
      <4>. QED  BY <2>3, <3>1, <4>4, <4>5, <4>6
    <3>2. CASE ~again
      BY <1>4, <2>1, <2>2, <2>3, <3>2
    <3>. QED  BY <3>1, <3>2
  <2>5. \A i \in DOMAIN loops' : loops'[i] \in Tests
    BY <1>5
  <2>6. \A i \in DOMAIN loops' : (Suspended(loops[i]))'
    BY <2>4, <2>5
  <2>. QED  BY <1>1, <1>3, <1>5, <2>4, <2>6 DEF Listed, InLoops
<1>7. CASE phase = "thrown"
  BY <1>3, <1>5, <1>7 DEF Listed
<1>. QED  BY <1>6, <1>7, <1>3, <1>5

LEMMA YieldInv ==
  ASSUME SchedulerInv, NEW t \in Tests, current = t, left' \in [Tests -> Int],
         NEW kind \in {"duration", "until", "timeout"},
         Yield(t, kind, IF kind \in {"until", "timeout"} THEN Append(loops, t) ELSE loops)
  PROVE  SchedulerInv'
<1>1. /\ status' = [status EXCEPT ![t] = "pending"] /\ wait' = [wait EXCEPT ![t] = kind]
      /\ current' = None /\ UNCHANGED <<phase, complete, failures, verdict>>
  BY DEF Yield, Returns
<1>2. ~complete[t] /\ verdict = None
  BY RunningIsOpen
<1>3. Listed' /\ loops' \in Seq(Tests) /\ pos' \in Nat \ {0}
  BY <1>1, ReturnsListed DEF Yield, Waits
<1>4. TypeOK'
  BY <1>1, <1>3 DEF SchedulerInv, TypeOK, Waits
<1>5. (Awake /\ Over /\ Derived)'
  BY <1>1, <1>2, TestsAssumption DEF SchedulerInv, TypeOK, Awake, Over, Derived
<1>. QED  BY <1>3, <1>4, <1>5 DEF SchedulerInv

LEMMA FinishInv ==
  ASSUME SchedulerInv, NEW t \in Tests, current = t, NEW s, Finish(t, s)
  PROVE  SchedulerInv'
<1>1. /\ status' = [status EXCEPT ![t] = IF ~failures[t] THEN "passed" ELSE "failed"]
      /\ complete' = [complete EXCEPT ![t] = TRUE]
      /\ current' = None /\ UNCHANGED <<failures, wait, left>>
      /\ \/ phase' = phase /\ Returns(loops)
         \/ phase' = "thrown" /\ UNCHANGED <<loops, pos>>
  BY DEF Finish, Returns, Escapes, waits
<1>2. verdict' = IF AllComplete(t)
                 THEN IF ~failures[t] /\ \A u \in Tests \ {t} : status[u] = "passed"
                      THEN "SUCCESS" ELSE "FAIL"
                 ELSE verdict
  BY DEF Finish
<1>3. ~complete[t] /\ verdict = None /\ wait[t] = "not"
  BY RunningIsOpen
<1>4. Listed' /\ loops' \in Seq(Tests) /\ pos' \in Nat \ {0}
  <2>1. wait' = [wait EXCEPT ![t] = "not"]
    BY <1>1, <1>3 DEF SchedulerInv, TypeOK
  <2>2. CASE phase' = phase /\ Returns(loops)
    BY <2>1, <2>2, ReturnsListed DEF Waits
  <2>3. CASE phase' = "thrown" /\ UNCHANGED <<loops, pos>>
    BY <2>3 DEF Listed, SchedulerInv, TypeOK
  <2>. QED  BY <1>1, <2>2, <2>3
<1>5. TypeOK'
  BY <1>1, <1>2, <1>4 DEF SchedulerInv, TypeOK, Verdicts
<1>6. Awake' /\ Over'
  BY <1>1, <1>3, TestsAssumption DEF SchedulerInv, TypeOK, Awake, Over
<1>7. Derived'
  <2>1. CASE AllComplete(t)
    <3>1. \A u \in Tests \ {t} : complete[u] /\ (status[u] = "passed" <=> ~failures[u])
      BY <2>1 DEF AllComplete, SchedulerInv, Over
    <3>2. \A u \in Tests : complete'[u]
      BY <1>1, <3>1 DEF SchedulerInv, TypeOK
    <3>3. verdict' = "SUCCESS" <=> \A u \in Tests : ~failures[u]
      BY <1>2, <2>1, <3>1
    <3>. QED  BY <1>1, <3>2, <3>3 DEF Derived
  <2>2. CASE ~AllComplete(t)
    BY <1>2, <1>3, <2>2 DEF Derived
  <2>. QED  BY <2>1, <2>2
<1>. QED  BY <1>4, <1>5, <1>6, <1>7 DEF SchedulerInv

-----------------------------------------------------------------------------
(* The theorems.                                                           *)

LEMMA TestInv ==
  ASSUME SchedulerInv, NEW t \in Tests, Test(t)
  PROVE  SchedulerInv'
<1>1. CASE Begin(t) \/ TimeUp(t) \/ Visit(t)
  BY <1>1, ResumeInv
<1>2. CASE Pass(t)
  <2>1. /\ phase # "thrown" /\ current = None /\ pos' = pos + 1 /\ pos \in Nat \ {0}
        /\ UNCHANGED <<phase, current, loops, report, wait, left>>
    BY <1>2 DEF Pass, waits, SchedulerInv, TypeOK
  <2>2. left' \in [Tests -> Int]
    BY <2>1 DEF SchedulerInv, TypeOK
  <2>. QED  BY <2>1, <2>2, NobodyMoves
<1>3. CASE Error(t)
  BY <1>3, FailsInv DEF Error, Call
<1>4. CASE Expect(t)
  BY <1>4, ExpectInv
<1>5. CASE Stop(t)
  BY <1>5, FinishInv DEF Stop
<1>6. ASSUME NEW x, DoAction(t, x) PROVE SchedulerInv'
  <2>1. CASE slot # None
    BY <1>6, <2>1, FailsInv DEF DoAction, Call
  <2>2. CASE slot = None
    <3>1. UNCHANGED <<machine, current, report, waits>>
      BY <1>6, <2>2 DEF DoAction
    <3>2. pos' \in Nat \ {0} /\ left' \in [Tests -> Int]
      BY <3>1 DEF machine, waits, SchedulerInv, TypeOK
    <3>. QED  BY <3>1, <3>2, NobodyMoves DEF machine, waits
  <2>. QED  BY <2>1, <2>2
<1>7. ASSUME NEW x, StopWith(t, x) PROVE SchedulerInv'
  BY <1>7, FailsInv, FinishInv DEF StopWith, Call
<1>8. CASE WaitDuration(t)
  <2>1. left' \in [Tests -> Int] /\ current = t
    BY <1>8, WaitAssumption DEF WaitDuration, Call, SchedulerInv, TypeOK
  <2>. QED  BY <1>8, <2>1, YieldInv DEF WaitDuration
<1>9. ASSUME NEW kind \in {"until", "timeout"}, WaitUntil(t, kind) PROVE SchedulerInv'
  <2>1. left' \in [Tests -> Int] /\ current = t
    BY <1>9, WaitAssumption DEF WaitUntil, Call, SchedulerInv, TypeOK
  <2>. QED  BY <1>9, <2>1, YieldInv DEF WaitUntil
<1>. QED  BY <1>1, <1>2, <1>3, <1>4, <1>5, <1>6, <1>7, <1>8, <1>9 DEF Test

LEMMA StepInv ==
  ASSUME SchedulerInv, [Next]_vars
  PROVE  SchedulerInv'
<1>. USE DEF machine, waits
<1>1. pos \in Nat \ {0} /\ left \in [Tests -> Int]
  BY DEF SchedulerInv, TypeOK
<1>2. CASE \E t \in Tests : Test(t)
  BY <1>2, TestInv
<1>3. CASE Started \/ TimeDone \/ LoopDone \/ Stopped
  <2>1. /\ phase # "thrown" /\ current = None /\ pos' = 1
        /\ UNCHANGED <<current, loops, report, wait, left>>
    BY <1>3 DEF Started, TimeDone, LoopDone, Stopped, Goto
  <2>. QED  BY <1>1, <2>1, NobodyMoves
<1>4. CASE Handle
  <2>1. /\ phase # "thrown" /\ current = None
        /\ UNCHANGED <<current, loops, pos, report, wait, left>>
    BY <1>4 DEF Handle
  <2>. QED  BY <1>1, <2>1, NobodyMoves
<1>5. CASE AskStop \/ UNCHANGED vars
  <2>1. UNCHANGED <<phase, current, loops, pos, report, wait, left>>
    BY <1>5 DEF AskStop, vars
  <2>. QED  BY <1>1, <2>1, NobodyMoves
<1>6. CASE Step
  <2>1. left' \in [Tests -> Int]
    BY <1>1, <1>6 DEF Step
  <2>2. UNCHANGED <<current, loops, pos, report, wait>> /\ phase = "between" /\ current = None
    BY <1>6 DEF Step, SchedulerInv, Awake
  <2>. QED  BY <1>1, <2>1, <2>2, NobodyMoves
<1>. QED  BY <1>2, <1>3, <1>4, <1>5, <1>6 DEF Next, Machine

LEMMA SchedulerInvariant == Spec => []SchedulerInv
BY InitInv, StepInv, PTL DEF Spec

\* Whatever a test waits for in the loop, one trigger resumes it, and nobody resumes a
\* test that waits for something else, or one that is over.
THEOREM OneTriggerHolds == Spec => []OneTrigger
<1>1. SchedulerInv => OneTrigger
  <2>. SUFFICES ASSUME SchedulerInv, NEW t \in Tests, phase # "thrown"
                PROVE  Cardinality({i \in DOMAIN loops : loops[i] = t /\ ~(i = pos /\ t = current)})
                         = IF Suspended(t) THEN 1 ELSE 0
    BY DEF OneTrigger
  <2>. DEFINE mine == {i \in DOMAIN loops : loops[i] = t /\ ~(i = pos /\ t = current)}
  <2>1. t = current => ~Suspended(t)
    BY RunningIsOpen DEF Suspended
  <2>2. CASE Suspended(t)
    <3>0. Once(loops) /\ InLoops(t)
      BY <2>2 DEF SchedulerInv, Listed
    <3>1. PICK i \in DOMAIN loops : loops[i] = t
      BY <3>0 DEF InLoops
    <3>2. mine = {i}
      BY <2>1, <2>2, <3>0, <3>1 DEF Once
    <3>. QED  BY <2>2, <3>2, FS_Singleton
  <2>3. CASE ~Suspended(t)
    <3>1. mine = {}
      BY <2>3 DEF SchedulerInv, Listed
    <3>. QED  BY <2>3, <3>1, FS_EmptySet
  <2>. QED  BY <2>2, <2>3
<1>. QED  BY <1>1, SchedulerInvariant, PTL

\* The outcome that is reported is the one of all tests: a failed check fails it, and
\* it does not fail for nothing.
THEOREM ReportTrueHolds == Spec => []ReportTrue
<1>1. SchedulerInv => ReportTrue
  BY DEF SchedulerInv, TypeOK, Verdicts, Derived, ReportTrue
<1>. QED  BY <1>1, SchedulerInvariant, PTL

\* A test that is complete is never resumed, and its status stays.
THEOREM CompleteStaysHolds == Spec => CompleteStays
<1>. DEFINE Stays == \A t \in Tests :
              complete[t] => complete'[t] /\ status'[t] = status[t] /\ current' # t
<1>1. SchedulerInv /\ [Next]_vars => [Stays]_vars
  <2>. SUFFICES ASSUME SchedulerInv, Next, NEW u \in Tests, complete[u]
                PROVE  complete'[u] /\ status'[u] = status[u] /\ current' # u
    OBVIOUS
  <2>1. current # u /\ wait[u] = "not" /\ u # None
    BY TestsAssumption DEF SchedulerInv, Over
  <2>2. ASSUME NEW t \in Tests, Begin(t) \/ TimeUp(t) \/ Visit(t)
        PROVE  complete'[u] /\ status'[u] = status[u] /\ current' # u
    <3>1. wait[t] # "not"
      <4>1. CASE Visit(t)
        BY <4>1, TestsAssumption DEF Visit, Resume, SchedulerInv, Listed, Suspended
      <4>. QED  BY <2>2, <4>1 DEF Begin, TimeUp, Due
    <3>. QED  BY <2>1, <2>2, <3>1 DEF Begin, TimeUp, Visit, Resume, SchedulerInv, TypeOK
  <2>3. ASSUME NEW t \in Tests, Pass(t)
        PROVE  complete'[u] /\ status'[u] = status[u] /\ current' # u
    BY <2>1, <2>3 DEF Pass, report
  <2>4. ASSUME NEW t \in Tests, current = t, Fails(t) \/ (\E s : Finish(t, s)) \/ (\E k, l : Yield(t, k, l))
        PROVE  complete'[u] /\ status'[u] = status[u] /\ current' # u
    BY <2>1, <2>4 DEF Fails, Finish, Yield, Returns, Escapes, SchedulerInv, TypeOK
  <2>5. ASSUME UNCHANGED <<current, status, complete>>
        PROVE  complete'[u] /\ status'[u] = status[u] /\ current' # u
    BY <2>1, <2>5
  <2>6. ASSUME NEW t \in Tests, Test(t)
        PROVE  complete'[u] /\ status'[u] = status[u] /\ current' # u
    <3>1. CASE Error(t) \/ Stop(t) \/ \E x : StopWith(t, x)
      BY <2>4, <3>1 DEF Error, Stop, StopWith, Call
    <3>2. CASE WaitDuration(t) \/ \E k : WaitUntil(t, k)
      BY <2>4, <3>2 DEF WaitDuration, WaitUntil, Call
    <3>3. CASE Expect(t)
      BY <2>5, <3>3 DEF Expect
    <3>4. CASE \E x : DoAction(t, x)
      BY <2>4, <2>5, <3>4 DEF DoAction, Call, report
    <3>. QED  BY <2>2, <2>3, <2>6, <3>1, <3>2, <3>3, <3>4 DEF Test
  <2>7. CASE Machine \/ AskStop
    BY <2>5, <2>7 DEF Machine, AskStop, Started, TimeDone, LoopDone, Stopped, Goto, Handle, Step, report
  <2>. QED  BY <2>6, <2>7 DEF Next
<1>. QED  BY <1>1, SchedulerInvariant, PTL DEF Spec, CompleteStays
=============================================================================
