----------------------------- MODULE MCTriggers -----------------------------
(* Small instances of Triggers for TLC.                                    *)
EXTENDS Triggers

K(e, o, s, c, src) ==
  [event |-> e, offset |-> o, sticky |-> s, conceal |-> c, source |-> src]

\* Pinned and unpinned triggers of the loop, of a plugin's event, of the stop,
\* and timed ones, by both ways of insertion.
SomeKinds == {K("loop", 0, TRUE, FALSE, "NETWORK"), K("loop", 0, FALSE, FALSE, "LUA"),
              K("data", 0, FALSE, FALSE, "NETWORK"), K("stop", 0, TRUE, FALSE, "NETWORK"),
              K("next", 0, FALSE, FALSE, "LUA"), K("time", 2, TRUE, FALSE, "NETWORK")}

DataOnly == {"data"}

=============================================================================
