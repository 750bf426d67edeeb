-------------------------- MODULE MCTestScheduler --------------------------
(* Small instances of TestScheduler for TLC.                               *)
EXTENDS TestScheduler

CONSTANTS t1, t2, t3, t4

\* Two tests side by side, one that comes after the first, and one at the end.
SomeTests   == {t1, t2, t3, t4}
SomeBegins  == [t \in SomeTests |-> CASE t = t3 -> t1 [] t = t4 -> "stop" [] OTHER -> "start"]
Terminators == {t1, t2, t4}

=============================================================================
