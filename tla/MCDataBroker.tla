---------------------------- MODULE MCDataBroker ----------------------------
(* A small instance of DataBroker for TLC.                                 *)
EXTENDS DataBroker, TLC

CONSTANTS a, c, p, s1, s2

SomeNames  == {a, c, p}
SomeDeclarable == {a, c}
SomeSlots  == {s1, s2}
SomeValues == {0, 1}

\* p is a pattern that matches a and the alias c.
SomeMatching == [n \in SomeNames |-> IF n = p THEN {a, c} ELSE {n}]

Entry(old, new) == [old |-> old, new |-> new]

\* An enum with the pattern itself as an alias, one with an alias that the pattern
\* matches, and a list that has a malformed entry and asks for one signal twice.
SomeScripts ==
  { [aliases |-> <<Entry(p, p)>>, requires |-> <<p>>],
    [aliases |-> <<Entry(p, c), Entry(p, p)>>, requires |-> <<c>>],
    [aliases |-> <<Malformed>>, requires |-> <<Malformed>>],
    [aliases |-> <<>>, requires |-> <<a, c, a>>] }

SlotSymmetry == Permutations(SomeSlots)

=============================================================================
