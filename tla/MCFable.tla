------------------------------- MODULE MCFable -------------------------------
(* Parts of the stack's schemas (stack.hpp), with some of their members:   *)
(* the engine's configuration, vehicles and simulators, a vehicle by       *)
(* itself and its origin (FromSimulator); and arrays, which are declared   *)
(* as in array_test.cpp.                                                   *)
EXTENDS Fable

MCKeyOrder == <<"0", "1", "2", "CONNECT", "START", "STOP", "args", "binding", "components",
                "default_timeout", "from", "ignore", "index", "lidar", "mode", "name", "part",
                "plugin_path", "radar",
                "simulator", "simulators", "state_timeouts", "vehicles", "watchdog", "whole">>

\* Numbers, strings and enumerations that accept what is listed.
Number(p, a, b) == [kind |-> "number", ptr |-> p, min |-> a, max |-> b,
                    whitelist |-> {}, blacklist |-> {}]
String(p, A)   == [kind |-> "string", ptr |-> p, accepts |-> A]
Enum(p, A)     == [kind |-> "enum", ptr |-> p, accepts |-> A]
Optional(p, s) == [kind |-> "optional", ptr |-> p, of |-> s]
Vector(p, s, extend) ==
    [kind |-> "vector", ptr |-> p, of |-> s, sizes |-> 0 .. 9, extend |-> extend]
Map(p, s, unique) == [kind |-> "map", ptr |-> p, of |-> s, required |-> {}, unique |-> unique,
                      names |-> ToSet(MCKeyOrder)]
Struct(R, P)   == [kind |-> "struct", required |-> R, properties |-> P, additional |-> FALSE]
Array(p, s, all) == [kind |-> "array", ptr |-> p, of |-> s, require_all |-> all,
                     index |-> ("0" :> 1 @@ "1" :> 2)]
Clearing(s, i, C) == [kind |-> "confable", schema |-> s, initial |-> i, cleared |-> C]
Confable(s, i) == Clearing(s, i, {})
Variant(q, m)  == [kind |-> "variant", alternatives |-> q, second |-> m]
Id(p)          == String(p, {"a", "b"})

MCEngine ==
    Confable(Struct({}, [ignore |-> Vector("ignore", Id("id"), TRUE),
                         plugin_path |-> Vector("plugin_path", Id("id"), FALSE),
                         watchdog |-> Struct({},
                            [mode |-> Enum("mode", {"off", "abort"}),
                             default_timeout |-> Number("default_timeout", 0, 9),
                             state_timeouts |-> Map("state_timeouts",
                                                    Optional("t", Number("n", 0, 9)), FALSE)])]),
             [ignore |-> <<>>, plugin_path |-> <<"a">>, mode |-> "off", default_timeout |-> 9,
              state_timeouts |-> [k \in {"CONNECT"} |-> <<3>>]])

MCComponent == Confable(Struct({"binding"}, [binding |-> Id("binding"),
                                             name |-> Optional("name", Id("id"))]),
                        [binding |-> "", name |-> <<>>])
MCSimulator(b) == [name |-> b, args |-> Struct({}, [mode |-> Number("n", 0, 1)]),
                   makes |-> Confable(Struct({"binding"},
                                [binding |-> [kind |-> "const", of |-> b],
                                 name |-> Optional("name", Id("id")),
                                 args |-> [kind |-> "passthru", ptr |-> "args",
                                           of |-> Struct({}, [mode |-> Number("n", 0, 1)])]]),
                                [name |-> <<>>, args |-> Null])]
MCFrom ==
    Clearing(Variant(<<Struct({"simulator", "index"},
                              [simulator |-> Id("simulator"), index |-> Number("index", 0, 1)]),
                       Struct({"simulator", "name"},
                              [simulator |-> Id("simulator"), name |-> Id("name")])>>, "name"),
             [simulator |-> "", index |-> 0, name |-> ""], {"simulator", "index", "name"})

MCVehicle ==
    Clearing(Struct({"name", "from"},
                    [name |-> Id("name"),
                     from |-> Variant(<<MCFrom @@ [ptr |-> "from_sim"], Id("from_veh")>>, "from_veh"),
                     components |-> Map("components", MCComponent, TRUE)]),
             [name |-> "", from_sim |-> MCFrom.initial, from_veh |-> "", components |-> NoItems],
             {"name", "from_sim", "from_veh"})

MCStackConf ==
    Confable(Struct({}, [simulators |-> Vector("simulators",
                            [kind |-> "factory", key |-> "binding",
                             makes |-> <<MCSimulator("a"), MCSimulator("b")>>,
                             transform |-> [name |-> Id("name")]], TRUE),
                         vehicles |-> Vector("vehicles", MCVehicle, TRUE)]),
             [simulators |-> <<>>, vehicles |-> <<>>])

MCArrays ==
    Confable(Struct({}, [part  |-> Array("part", Number("n", 0, 1), FALSE),
                         whole |-> Array("whole", Number("n", 0, 1), TRUE)]),
             [part |-> <<1, 1>>, whole |-> <<0, 0>>])

MCTypes == [engine |-> MCEngine, stack |-> MCStackConf, vehicle |-> MCVehicle, from |-> MCFrom,
            arrays |-> MCArrays]

Timeouts(f) == Obj([watchdog |-> Obj([state_timeouts |-> Obj(f)])])
Strings == {Str("a"), Str("b"), Num(0)}
Paths   == {Arr(<<>>), Arr(<<Str("a")>>), Arr(<<Str("b"), Str("a")>>), Arr(<<Str("a"), Num(1)>>)}
Parts   == {Obj(NoItems), Obj([binding |-> Str("a")]),
            Obj([binding |-> Str("b"), name |-> Null]), Obj([binding |-> Null])}

MCEngineInputs ==
    {Obj([ignore |-> i, plugin_path |-> p]) : i, p \in Paths}
    \cup {Obj([plugin_path |-> p, watchdog |-> Obj([mode |-> m, default_timeout |-> t])]) :
             p \in Paths, m \in {Str("off"), Str("abort"), Str("on"), Num(1)}, t \in {Num(0), Num(10)}}
    \cup {Timeouts([START |-> Num(5)]), Timeouts([START |-> Null, STOP |-> Num(1)]),
          Timeouts([CONNECT |-> Num(5)]), Timeouts([CONNECT |-> Null, START |-> Num(7)]), Null}

Origins == {Str("a"), Str("b"), Num(0), Obj([simulator |-> Str("a"), index |-> Num(1)]),
            Obj([simulator |-> Str("b"), name |-> Str("a")]), Obj([simulator |-> Str("b")])}

MCVehicleInputs ==
    {Obj([name |-> n, from |-> f]) : n \in Strings, f \in Origins}
    \cup {Obj([name |-> n, from |-> f, components |-> Obj([k \in {l} |-> p])]) :
             l \in {"lidar", "radar"}, n \in {Str("a"), Num(0)}, p \in Parts,
             f \in {Str("a"), Obj([simulator |-> Str("a"), index |-> Num(0)])}}
    \cup {Obj([name |-> Str("b"), from |-> Str("b"), components |-> Obj([lidar |-> p, radar |-> q])]) :
             p, q \in Parts}
    \cup {Obj([name |-> Str("a")]), Null}

MCStackInputs ==
    {Obj([vehicles |-> Arr(<<Obj([name |-> n, from |-> f,
                                  components |-> Obj([lidar |-> p, radar |-> q])])>>)]) :
        n \in {Str("a"), Num(0)}, f \in {Str("a"), Obj([simulator |-> Str("a"), index |-> Num(1)])},
        p, q \in Parts}
    \cup {Obj([simulators |-> Arr(<<Obj([binding |-> b, name |-> n, args |-> Obj([mode |-> Num(m)])])>>),
               vehicles |-> Arr(<<Obj([name |-> n, from |-> Str("b")])>>)]) :
             b \in {Str("a"), Str("b"), Str("c"), Null}, n \in {Str("b"), Null}, m \in 0 .. 2}
    \cup {Obj([simulators |-> Arr(<<Obj([binding |-> Str("a")])>>)])}

MCFromInputs ==
    {Obj([simulator |-> s, index |-> i]) : s \in Strings, i \in {Num(0), Num(1), Num(2)}}
    \cup {Obj([simulator |-> s, name |-> n]) : s, n \in Strings}
    \cup {Obj([simulator |-> Str("a")]),
          Obj([simulator |-> Str("a"), index |-> Num(1), name |-> Str("a")])}

MCArraysInputs ==
    {Obj([part |-> a, whole |-> b]) :
        a \in {Arr(<<Num(0), Num(1)>>), Arr(<<Num(0), Num(2)>>), Arr(<<Num(1)>>), Num(0)}
              \cup {Obj(f) : f \in UNION {[K -> {Num(0), Num(2), Num(3), Str("a")}] :
                                          K \in SUBSET {"0", "1"} \cup {{"0", "2"}}}},
        b \in {Arr(<<Num(1), Num(1)>>), Arr(<<Num(1), Str("a")>>)}}
    \cup {Obj([whole |-> Obj([k \in {"0"} |-> Num(0)])])}

MCInputs == [engine |-> MCEngineInputs, stack |-> MCStackInputs, vehicle |-> MCVehicleInputs,
             from |-> MCFromInputs, arrays |-> MCArraysInputs]
=============================================================================
