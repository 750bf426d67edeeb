------------------------------ MODULE MCStack ------------------------------
(***************************************************************************)
(* Instances of Connect for TLC.  Two families of file systems: `Merging`  *)
(* varies how two files set the engine, include each other (or themselves, *)
(* or a missing file) and load plugins, and `Modelling` varies the models  *)
(* they define.                                                            *)
(***************************************************************************)
EXTENDS Connect

MCFile == {"f", "g", "missing"}
MCId == {"s", "v", "w", "c", "d", "k", "sim"}
MCKey == {"x", "y", "z"}
MCDefault == {"x"}
MCReserved == {"sim"}
MCLibrary ==
  [a |-> [type |-> "simulator", name |-> "vtd", good |-> TRUE],
   b |-> [type |-> "simulator", name |-> "vtd", good |-> TRUE],
   old |-> [type |-> "controller", name |-> "acc", good |-> FALSE],
   nop |-> [type |-> "simulator", name |-> "nop", good |-> TRUE],
   basic |-> [type |-> "controller", name |-> "basic", good |-> TRUE],
   noisy |-> [type |-> "component", name |-> "noisy", good |-> TRUE]]
MCDirectory == [lib |-> {"a"}, opt |-> {"b", "old"}, usr |-> {"b"}]
MCBuiltIn ==
  [simulator |-> [nop |-> "nop"], controller |-> [basic |-> "basic"],
   component |-> [noisy |-> "noisy"]]
MCSystemPath == <<"lib">>

Plug(p, failure, clobber) ==
  [path |-> p, name |-> {}, missing |-> {}, failure |-> failure, clobber |-> clobber]
Version == [version |-> "4"]
With(s, v) == (s :> v)

Sim(b) == [binding |-> b, id |-> "s"]
Veh(n, src, from, comps) == [name |-> n, source |-> src, from |-> from, components |-> comps]
Comp(k, i, from) == [key |-> k, binding |-> "noisy", id |-> i, from |-> from]
Ctl(i, v) == [binding |-> "basic", id |-> i, vehicle |-> v]

-----------------------------------------------------------------------------
Engines ==
  {<<>>, With("engine", [max_include_depth |-> 0]),
   With("engine", [max_include_depth |-> 2, ignore_failure |-> TRUE]),
   With("engine", [ignore |-> {"include", "plugins"}]),
   With("engine", [plugin_path |-> <<"usr">>]),
   With("engine", [plugin_path |-> <<"nowhere">>, ignore_missing |-> TRUE]),
   With("engine", [plugin_path |-> <<"opt", "lib">>, ignore_failure |-> TRUE]),
   With("engine", [allow_clobber |-> FALSE])}
Includes ==
  {<<>>, With("include", <<"f">>), With("include", <<"g">>), With("include", <<"g", "g">>),
   With("include", <<"missing">>)}
Plugins ==
  {<<>>, With("plugins", <<Plug("b", {}, {})>>),
   With("plugins", <<Plug("b", {TRUE}, {FALSE}), Plug("nowhere", {}, {})>>),
   With("plugins", <<Plug("opt", {TRUE}, {TRUE})>>),
   With("plugins", <<[Plug("lib", {}, {}) EXCEPT !.name = {"vtd"}]>>)}
Limit(n) == With("simulation", [controller_retry_limit |-> n])
Base ==
  [version |-> "4", simulators |-> <<Sim("vtd")>>,
   vehicles |-> <<Veh("v", "simulator", "s", <<>>)>>, controllers |-> <<Ctl("k", "v")>>]
Rests == {Base @@ Limit(1), Base, With("unknown", 1) @@ Base, [simulators |-> <<>>]}
Merging ==
  {[f |-> e1 @@ i1 @@ p1 @@ r1, g |-> e2 @@ i2 @@ p2 @@ Limit(2) @@ [version |-> "4"]] :
     e1 \in Engines, i1 \in Includes, p1 \in Plugins, r1 \in Rests,
     e2 \in {With("engine", [max_include_depth |-> 2, ignore_failure |-> TRUE]),
             With("engine", [ignore |-> {"vehicles", "unknown", "controllers"}]),
             With("engine", [plugin_path |-> <<"opt">>, allow_clobber |-> FALSE])},
     i2 \in {<<>>, With("include", <<"f">>), With("include", <<"g">>)},
     p2 \in {<<>>, With("plugins", <<Plug("b", {}, {})>>)}}

-----------------------------------------------------------------------------
ComponentLists ==
  {<<>>, <<Comp("x", "c", {"x"})>>, <<Comp("x", "c", {"y"}), Comp("y", "d", {})>>,
   <<Comp("y", "c", {"z"}), Comp("z", "d", {"x"})>>,
   <<Comp("y", "c", {"z"}), Comp("z", "d", {"y"})>>}
VehicleLists ==
  LET one == {Veh("v", "simulator", "s", x) : x \in ComponentLists}
             \cup {Veh("v", "vehicle", "v", <<>>), Veh("v", "vehicle", "w", <<>>),
                   Veh("v", "simulator", "w", <<>>)}
      two == {Veh("w", "vehicle", "v", x) : x \in ComponentLists}
             \cup {Veh("w", "simulator", "k", <<>>), Veh("v", "simulator", "s", <<>>),
                   Veh("sim", "simulator", "s", <<>>), Veh("s", "vehicle", "v", <<>>)}
  IN {<<>>} \cup {<<a>> : a \in one} \cup {<<b>> : b \in two}
     \cup {<<a, b>> : a \in one, b \in two} \cup {<<b, a>> : a \in one, b \in two}
Modelling ==
  {[f |-> [version |-> "4", include |-> <<"g">>, vehicles |-> v, controllers |-> c],
    g |-> [version |-> "4", simulators |-> s] @@ g] :
     v \in VehicleLists,
     c \in {<<>>, <<Ctl("k", "v")>>, <<Ctl("k", "w")>>, <<Ctl("v", "v"), Ctl("k", "v")>>},
     s \in {<<>>, <<Sim("nop")>>, <<Sim("nop"), Sim("nop")>>},
     g \in {<<>>, [vehicles |-> <<Veh("w", "simulator", "s", <<>>)>>]}}

MCDisks == Merging \cup Modelling
MCCommandLines == {<<"f">>, <<"g", "f">>, <<"missing">>}
=============================================================================
