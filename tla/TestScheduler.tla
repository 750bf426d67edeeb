--------------------------- MODULE TestScheduler ---------------------------
(***************************************************************************)
(* Tests that Lua scripts schedule with cloe.schedule_test.  Each test is a *)
(* co-routine: it begins with an event, runs in the thread of the machine   *)
(* until it waits for a duration or for a condition, and is resumed by the  *)
(* trigger it inserted when it began to wait.  The last test that completes *)
(* derives the outcome of all of them and asks the machine to end, through  *)
(* the slot for one interrupt that all triggers share.                      *)
(*                                                                         *)
(* What a test computes is left open: it may call any method of its fixture *)
(* at any time.  Time is relative: a wait counts the cycles that are left.  *)
(***************************************************************************)
EXTENDS Integers, Sequences, SequencesExt, FiniteSets

CONSTANTS
  Tests,        \* the tests that are scheduled
  Begins,       \* what each begins with: "start", "stop", or the test it comes after
  Terminating,  \* those with terminate = true, the default
  None,         \* no test, no interrupt, no outcome
  MaxWait,      \* bound: the longest wait, in cycles
  MaxOps        \* bound: how many methods each test calls

ASSUME TestsAssumption       == IsFiniteSet(Tests) /\ None \notin Tests \cup {"FAIL", "SUCCESS"}
ASSUME BeginsAssumption      == Begins \in [Tests -> Tests \cup {"start", "stop"}]
ASSUME TerminatingAssumption == Terminating \subseteq Tests
ASSUME WaitAssumption        == MaxWait \in Nat \ {0}

Verdicts   == {"FAIL", "SUCCESS"}
Interrupts == Verdicts \cup {"STOP"}

VARIABLES
  phase,     \* what the machine does: start, time, loop, between, stop, ended, thrown
  current,   \* the test that is running
  loops,     \* the pinned triggers of the event loop, by the test that each belongs to
  pos,       \* the iterator over them
  slot,      \* interrupt_
  outcome,   \* the outcome of the simulation
  status,    \* report.tests[].status
  complete,  \* report.tests[].complete
  failures,  \* whether _asserts_failed > 0
  wait,      \* how each test waits: unbegun, gate, duration, until, timeout, or not
  left,      \* the cycles that are left of the wait
  verdict,   \* report.outcome
  called,    \* the tests that have called fail()
  ops        \* how many methods each test has called

machine == <<phase, loops, pos, outcome>>
report  == <<status, complete, failures, verdict>>
waits   == <<wait, left>>
vars    == <<machine, current, slot, report, waits, called, ops>>

\* A test that comes after another one is a pinned trigger of the loop.
Gated == {t \in Tests : Begins[t] \in Tests}

Init ==
  /\ phase = "start" /\ current = None /\ slot = None /\ outcome = None
  /\ loops = SetToSeq(Gated) /\ pos = 1
  /\ status = [t \in Tests |-> "pending"] /\ complete = [t \in Tests |-> FALSE]
  /\ failures = [t \in Tests |-> FALSE] /\ verdict = None
  /\ wait = [t \in Tests |-> IF t \in Gated THEN "gate" ELSE "unbegun"]
  /\ left = [t \in Tests |-> 0]
  /\ called = {} /\ ops = [t \in Tests |-> 0]

-----------------------------------------------------------------------------
(* The loop of the event loop, from the trigger at pos.                    *)

\* Mutant: the trigger stays when the test has been resumed.
Kept(list) == [list |-> list, pos |-> pos + 1]

\* The action returned false, and its trigger is removed.  The iterator that erase()
\* returned is incremented: past the next trigger, or, from the end of the list, to its
\* beginning (undefined, but so in a circular std::list).
Unpinned(list) ==
  [list |-> RemoveAt(list, pos), pos |-> IF pos = Len(list) THEN 1 ELSE pos + 1]

\* The test that is running has yielded or ended; list has the triggers it inserted.
Returns(list) ==
  /\ current' = None
  /\ IF phase = "loop"
     THEN loops' = Unpinned(list).list /\ pos' = Unpinned(list).pos
     ELSE loops' = list /\ UNCHANGED pos

\* An error of Lua goes through the trigger and the state, and ends the run.
Escapes ==
  /\ phase' = "thrown" /\ outcome' = "aborted" /\ current' = None
  /\ UNCHANGED <<loops, pos>>

-----------------------------------------------------------------------------
(* The life of a test.                                                     *)

\* _resume: the test runs from where it waited.
Resume(t) ==
  /\ current = None /\ current' = t
  /\ status' = [status EXCEPT ![t] = "running"]
  /\ wait' = [wait EXCEPT ![t] = "not"]
  /\ UNCHANGED <<machine, slot, complete, failures, verdict, left, called, ops>>

\* Mutant: the trigger of a test is pinned.
BeginAgain(t) ==
  /\ phase \in {"start", "stop"} /\ Begins[t] = phase /\ wait[t] \in {"unbegun", "not"}
  /\ Resume(t)

\* schedule_self: the trigger that was inserted for the test fires.
Begin(t) == phase \in {"start", "stop"} /\ Begins[t] = phase /\ wait[t] = "unbegun" /\ Resume(t)

\* One method of the fixture is called.
Call(t) == current = t /\ ops[t] < MaxOps /\ ops' = [ops EXCEPT ![t] = @ + 1]

\* An error in the co-routine.
Fails(t) ==
  /\ status' = [status EXCEPT ![t] = "aborted"]
  /\ Escapes
  /\ UNCHANGED <<slot, complete, failures, verdict, waits>>

Error(t) == Call(t) /\ Fails(t) /\ UNCHANGED called

\* _expect_op: a check that fails is counted, and the test goes on.
Expect(t) ==
  /\ Call(t)
  /\ failures' = [failures EXCEPT ![t] = TRUE]
  /\ UNCHANGED <<machine, current, slot, status, complete, verdict, waits, called>>

\* do_action: the machine throws if an interrupt is waiting to be handled.
DoAction(t, x) ==
  /\ Call(t)
  /\ IF slot # None
     THEN Fails(t)
     ELSE slot' = x /\ UNCHANGED <<machine, current, report, waits>>
  /\ UNCHANGED called

\* wait_duration and wait_until yield the specification of a trigger.
Yield(t, kind, list) ==
  /\ status' = [status EXCEPT ![t] = "pending"]
  /\ wait' = [wait EXCEPT ![t] = kind]
  /\ Returns(list)
  /\ UNCHANGED <<phase, slot, outcome, complete, failures, verdict, called>>

WaitDuration(t) ==
  /\ Call(t)
  /\ \E d \in 1 .. MaxWait : left' = [left EXCEPT ![t] = d]
  /\ Yield(t, "duration", loops)

WaitUntil(t, kind) ==
  /\ Call(t)
  /\ \E d \in 0 .. MaxWait : left' = [left EXCEPT ![t] = IF kind = "timeout" THEN d ELSE 0]
  /\ Yield(t, kind, Append(loops, t))

\* Mutant: the tests that have not completed are passed over.
AnyComplete(t) == t \in Tests

\* _terminate goes over the tests, and returns if one is not complete.
AllComplete(t) == \A u \in Tests \ {t} : complete[u]

\* _finish and _terminate, with the slot as the test leaves it.
Finish(t, s) ==
  LET passed == ~failures[t]
      all    == passed /\ \A u \in Tests \ {t} : status[u] = "passed"
  IN /\ status' = [status EXCEPT ![t] = IF passed THEN "passed" ELSE "failed"]
     /\ complete' = [complete EXCEPT ![t] = TRUE]
     /\ IF AllComplete(t)
        THEN /\ verdict' = IF all THEN "SUCCESS" ELSE "FAIL"
             /\ IF t \notin Terminating
                THEN slot' = s /\ Returns(loops) /\ UNCHANGED <<phase, outcome>>
                ELSE IF s = None
                THEN slot' = verdict' /\ Returns(loops) /\ UNCHANGED <<phase, outcome>>
                ELSE slot' = s /\ Escapes
        ELSE slot' = s /\ Returns(loops) /\ UNCHANGED <<phase, outcome, verdict>>
     /\ UNCHANGED <<failures, waits>>

\* The co-routine returns, or stop() yields the function that abandons it.
Stop(t) == current = t /\ Finish(t, slot) /\ UNCHANGED <<called, ops>>

\* fail() and succeed() do the action and stop.  A failed assertion is a failed check and
\* then fail().
StopWith(t, x) ==
  /\ Call(t)
  /\ called' = IF x = "FAIL" THEN called \cup {t} ELSE called
  /\ IF slot # None THEN Fails(t) ELSE Finish(t, x)

-----------------------------------------------------------------------------
(* The machine.                                                            *)

Goto(p) ==
  /\ current = None /\ phase' = p /\ pos' = 1
  /\ UNCHANGED <<current, loops, outcome, slot, report, waits, called, ops>>

Begun(p) == \A t \in Tests : Begins[t] = p => wait[t] # "unbegun"

Started == phase = "start" /\ Begun("start") /\ Goto("between")

Due(t) == wait[t] = "duration" /\ left[t] <= 0

\* A trigger of wait_duration.
TimeUp(t) == phase = "time" /\ Due(t) /\ Resume(t)

TimeDone == phase = "time" /\ (\A t \in Tests : ~Due(t)) /\ Goto("loop")

\* Mutant: it times out in the cycle at which the time is reached, and in no other.
TimedOutAt(t) == wait[t] = "timeout" /\ left[t] = 0

\* sync:time() > timeout
TimedOut(t) == wait[t] = "timeout" /\ left[t] < 0

\* The trigger at pos: the condition holds, or the time is up.
Visit(t) ==
  /\ phase = "loop" /\ pos \in DOMAIN loops /\ loops[pos] = t
  /\ wait[t] = "gate" => complete[Begins[t]]
  /\ Resume(t)

\* ... or neither, and the trigger stays.
Pass(t) ==
  /\ phase = "loop" /\ pos \in DOMAIN loops /\ loops[pos] = t /\ current = None
  /\ wait[t] = "gate" => ~complete[Begins[t]]
  /\ ~TimedOut(t)
  /\ pos' = pos + 1
  /\ UNCHANGED <<phase, current, loops, outcome, slot, report, waits, called, ops>>

LoopDone == phase = "loop" /\ pos \notin DOMAIN loops /\ Goto("between")

\* The machine stops by itself, or somebody else asks it to.
AskStop ==
  /\ phase = "between" /\ slot = None /\ slot' = "STOP"
  /\ UNCHANGED <<machine, current, report, waits, called, ops>>

\* A verdict replaces the one before; Stop adds none of its own.
Handle ==
  /\ phase \in {"between", "stop"} /\ current = None /\ slot # None
  /\ phase = "stop" => Begun("stop")
  /\ phase' = "stop" /\ slot' = None
  /\ outcome' = IF slot \in Verdicts THEN slot ELSE outcome
  /\ UNCHANGED <<current, loops, pos, report, waits, called, ops>>

\* The next cycle.
Step ==
  /\ phase = "between" /\ slot = None
  /\ phase' = "time"
  /\ left' = [t \in Tests |-> IF left[t] >= 0 THEN left[t] - 1 ELSE left[t]]
  /\ UNCHANGED <<current, loops, pos, outcome, slot, report, wait, called, ops>>

Stopped == phase = "stop" /\ slot = None /\ Begun("stop") /\ Goto("ended")

Test(t) ==
  \/ Begin(t) \/ TimeUp(t) \/ Visit(t) \/ Pass(t)
  \/ Error(t) \/ Expect(t) \/ Stop(t)
  \/ (\E x \in Interrupts : DoAction(t, x)) \/ (\E x \in Verdicts : StopWith(t, x))
  \/ WaitDuration(t) \/ (\E kind \in {"until", "timeout"} : WaitUntil(t, kind))

Machine == Started \/ TimeDone \/ LoopDone \/ Handle \/ Step \/ Stopped

Next == (\E t \in Tests : Test(t)) \/ Machine \/ AskStop

Spec == Init /\ [][Next]_vars

\* The thread of the machine goes on.
FairSpec == Spec /\ WF_vars((\E t \in Tests : Test(t)) \/ Machine)

-----------------------------------------------------------------------------
(* Properties.                                                             *)

Suspended(t) == wait[t] \in {"gate", "until", "timeout"}

\* A test that waits for the loop has one trigger there, and nobody else has: a
\* second one would resume a test that waits for something else, or a co-routine
\* that is dead.
OneTrigger ==
  \A t \in Tests :
    LET mine == {i \in DOMAIN loops : loops[i] = t /\ ~(i = pos /\ t = current)} IN
      phase \notin {"thrown"} => Cardinality(mine) = IF Suspended(t) THEN 1 ELSE 0

\* The outcome in the report is the one of all tests: none of them is open, it is
\* no success if any has failed a check, and no failure if none has and none has
\* called fail().  (Whether fail() alone is to make it one is FailFails, below.)
ReportTrue ==
  verdict # None =>
    /\ \A t \in Tests : complete[t]
    /\ (\E t \in Tests : failures[t]) => verdict = "FAIL"
    /\ verdict = "FAIL" => \E t \in Tests : failures[t] \/ t \in called

\* Once a test has completed it never runs again, and its status stays.
CompleteStays ==
  [][\A t \in Tests : complete[t] => complete'[t] /\ status'[t] = status[t] /\ current' # t]_vars

\* A wait with a timeout ends, however many other tests begin and end to wait, unless
\* the simulation stops.
TimeoutEnds ==
  \A t \in Tests : wait[t] \in {"duration", "timeout"} ~>
    (current = t \/ phase \in {"stop", "ended", "thrown"})

-----------------------------------------------------------------------------
(* What the documentation says and the code does not do.                   *)

\* testing.lua:357, of fail(): "Fail the test-case and stop the simulation."  A test
\* that has called it is not reported as passed.
FailFails == \A t \in called : status[t] # "passed"

=============================================================================
