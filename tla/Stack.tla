------------------------------- MODULE Stack -------------------------------
(***************************************************************************)
(* How stack files become one configuration (stack/src/cloe/stack.cpp):    *)
(* the files of the command line are merged one after the other, each      *)
(* merge applies the engine section, then the included files, then scans   *)
(* the plugin path, then loads the listed plugins, and only then reads the *)
(* models, since their schemas come from the plugins.                      *)
(*                                                                         *)
(* The recursion of Stack::from_conf is the sequence `frames`, innermost   *)
(* call last.  A frame holds the call's file, its depth, the sections that *)
(* have not been ignored, where it is, and the part of `include` or        *)
(* `plugins` that it has still to go through.  An exception leaves every   *)
(* call, and the command line tool gives up: `phase` becomes "failed".     *)
(* An optional value is a set with at most one element.                    *)
(***************************************************************************)
EXTENDS Integers, Sequences, FiniteSets, SequencesExt, Functions

CONSTANTS
  File,           \* names of stack files, existing or not
  Id,             \* identifiers of models and vehicles
  Key,            \* names under which a vehicle keeps its components
  Default,        \* the names among Key that a simulator's vehicles have
  Reserved,       \* identifiers nobody may use
  Disks,          \* the contents of the file system to consider
  CommandLines,   \* the sequences of files to consider
  Library,        \* the plugin files: path -> [type, name, good]
  Directory,      \* the plugin directories: path -> set of paths in Library
  BuiltIn,        \* built-in plugins: type -> (name -> path)
  SystemPath,     \* the plugin path before any file is read
  MaxIncludeDepth,\* the depth of includes allowed by default, 64 in the code
  MaxFrames       \* bound on the nesting of includes, above every limit used

Types == {"simulator", "controller", "component"}

SimulatorConf == [binding : STRING, id : Id]
ControllerConf == [binding : STRING, id : Id, vehicle : Id]
ComponentConf == [key : Key, binding : STRING, id : Id, from : SUBSET Key]
\* A vehicle comes from a simulator or is a copy of another vehicle.
VehicleConf == [name : Id, source : {"simulator", "vehicle"}, from : Id,
                components : Seq(ComponentConf)]
Path == DOMAIN Library \cup DOMAIN Directory \cup {"nowhere"}
PluginConf == [path : Path,
               name : SUBSET STRING, missing : SUBSET BOOLEAN,
               failure : SUBSET BOOLEAN, clobber : SUBSET BOOLEAN]

EngineConf ==
  [max_include_depth |-> MaxIncludeDepth, plugin_path |-> SystemPath, ignore_missing |-> FALSE,
   ignore_failure |-> FALSE, allow_clobber |-> TRUE]

\* What the schemas of fable accept in the sections of a stack file.
WellFormed(c) ==
  /\ "engine" \in DOMAIN c =>
       /\ DOMAIN c["engine"] \subseteq DOMAIN EngineConf \cup {"ignore"}
       /\ "plugin_path" \in DOMAIN c["engine"] => c["engine"]["plugin_path"] \in Seq(Path)
  /\ "include" \in DOMAIN c => c["include"] \in Seq(File)
  /\ "plugins" \in DOMAIN c => c["plugins"] \in Seq(PluginConf)
  /\ "simulators" \in DOMAIN c => c["simulators"] \in Seq(SimulatorConf)
  /\ "vehicles" \in DOMAIN c => c["vehicles"] \in Seq(VehicleConf)
  /\ "controllers" \in DOMAIN c => c["controllers"] \in Seq(ControllerConf)

ASSUME DisksWellFormed ==
  \A d \in Disks : DOMAIN d \subseteq File /\ \A f \in DOMAIN d : WellFormed(d[f])
\* "initial" stands for what initialize() merges, which is no file.
ASSUME FilesAssumption ==
  /\ "initial" \notin File /\ CommandLines \subseteq Seq(File)
  /\ SystemPath \in Seq(Path)
  /\ \A p \in DOMAIN Directory : Directory[p] \subseteq DOMAIN Library /\ IsFiniteSet(Directory[p])
  /\ \A p \in DOMAIN Library : Library[p].good => Library[p].type \in Types
ASSUME BuiltInAssumption == BuiltIn = [t \in Types |-> BuiltIn[t]]

VARIABLES disk, args, merged, frames, stack, loaded, prototype, scanned, phase
stackVars == <<disk, args, merged, frames, stack, loaded, prototype, scanned, phase>>

-----------------------------------------------------------------------------
ValueOr(option, default) == IF option = {} THEN default ELSE CHOOSE x \in option : TRUE

\* A property that is there already stays, as Map::from_conf has it.
KeepOld(old, given) == old

\* Struct::from_conf: a property that is given replaces the old value.
Overlay(old, given) ==
  [k \in DOMAIN old |-> IF k \in DOMAIN given THEN given[k] ELSE old[k]]

\* The entries of a section that is there; they follow those that the
\* configuration has already (Vector::from_conf with extend(true)).
Section(c, left, s) == IF s \in left THEN c[s] ELSE <<>>

\* The configuration of new_stack: built-in plugins, nothing else.
EmptyStack ==
  [engine |-> EngineConf, ignore |-> {}, include |-> <<>>, plugins |-> <<>>,
   simulators |-> <<>>, vehicles |-> <<>>, controllers |-> <<>>,
   simulation |-> [controller_retry_limit |-> 1000]]

\* initialize() merges a configuration with nothing but a version.
InitialConf == [version |-> "4"]
Content(f) == IF f = "initial" THEN InitialConf ELSE disk[f]

BuiltInPaths == UNION {{BuiltIn[t][n] : n \in DOMAIN BuiltIn[t]} : t \in Types}

Frame(f, depth) ==
  [file |-> f, depth |-> depth, left |-> {}, pc |-> "begin", todo |-> <<>>]
Top == frames[Len(frames)]
At(pc) == phase = "load" /\ frames # <<>> /\ Top.pc = pc
Becomes(f) == [frames EXCEPT ![Len(frames)] = f]

Throw ==
  /\ phase' = "failed"
  /\ frames' = <<>>
  /\ UNCHANGED <<disk, args, merged, stack, loaded, prototype, scanned>>

Init ==
  /\ disk \in Disks
  /\ \E line \in CommandLines : args = <<"initial">> \o line
  /\ merged = 0
  /\ frames = <<>>
  /\ stack = EmptyStack
  /\ loaded = BuiltInPaths
  /\ prototype = BuiltIn
  /\ scanned = {}
  /\ phase = "load"

-----------------------------------------------------------------------------
\* merge_stack: read the next file of the command line and apply it.
MergeNext ==
  /\ phase = "load" /\ frames = <<>> /\ merged < Len(args)
  /\ \/ /\ args[merged + 1] \in DOMAIN disk \cup {"initial"}
        /\ frames' = <<Frame(args[merged + 1], 0)>>
        /\ merged' = merged + 1
        /\ UNCHANGED <<disk, args, stack, loaded, prototype, scanned, phase>>
     \/ args[merged + 1] \notin DOMAIN disk \cup {"initial"} /\ Throw

Supported(c) == "version" \in DOMAIN c /\ c["version"] = "4"

\* The sections that /engine/ignore, here or in an earlier file, leaves over.
Unignored(c, ignore) == DOMAIN c \ ignore

\* from_conf up to the includes: version, ignored sections, engine, include.
BeginConf ==
  LET c == Content(Top.file)
      given == IF "engine" \in DOMAIN c THEN c["engine"] ELSE <<>>
      ignore == stack.ignore \cup (IF "ignore" \in DOMAIN given THEN given["ignore"] ELSE {})
      left == Unignored(c, ignore)
      new == Section(c, left, "include")
  IN /\ At("begin")
     /\ Supported(c)
     /\ stack' = [stack EXCEPT !.ignore = ignore,
                    !.engine = IF "engine" \in left THEN Overlay(@, given) ELSE @,
                    !.include = @ \o new]
     /\ frames' = Becomes([Top EXCEPT !.left = left \ {"engine", "include"},
                                      !.pc = "include", !.todo = new])
     /\ UNCHANGED <<disk, args, merged, loaded, prototype, scanned, phase>>

RejectVersion == At("begin") /\ ~Supported(Content(Top.file)) /\ Throw

\* A depth that is not passed on: what the limit is there to prevent.
SameDepth ==
  /\ At("include") /\ Top.todo # <<>> /\ Len(frames) < MaxFrames
  /\ \/ /\ Top.depth <= stack.engine.max_include_depth
        /\ Head(Top.todo) \in DOMAIN disk
        /\ frames' = Append(Becomes([Top EXCEPT !.todo = Tail(@)]), Frame(Head(Top.todo), Top.depth))
        /\ UNCHANGED <<disk, args, merged, stack, loaded, prototype, scanned, phase>>
     \/ Head(Top.todo) \notin DOMAIN disk /\ Throw

\* One round of the loop over the includes of this file.
IncludeNext ==
  /\ At("include") /\ Top.todo # <<>>
  /\ Len(frames) < MaxFrames
  /\ \/ /\ Top.depth <= stack.engine.max_include_depth
        /\ Head(Top.todo) \in DOMAIN disk
        /\ frames' = Append(Becomes([Top EXCEPT !.todo = Tail(@)]),
                            Frame(Head(Top.todo), Top.depth + 1))
        /\ UNCHANGED <<disk, args, merged, stack, loaded, prototype, scanned, phase>>
     \/ /\ \/ Top.depth > stack.engine.max_include_depth
           \/ Head(Top.todo) \notin DOMAIN disk
        /\ Throw

IncludesDone ==
  /\ At("include") /\ Top.todo = <<>>
  /\ frames' = Becomes([Top EXCEPT !.pc = "scan"])
  /\ UNCHANGED <<disk, args, merged, stack, loaded, prototype, scanned, phase>>

-----------------------------------------------------------------------------
\* The plugins in a directory; the file system gives them in any order.
Listing(c) ==
  {[i \in DOMAIN order |-> [c EXCEPT !.path = order[i]]] :
     order \in SetToSeqs(Directory[c.path])}

\* Scan the next directory of engine.plugin_path that no file has scanned yet.
ScanWith(clobber) ==
  /\ At("scan") /\ Top.todo = <<>>
  /\ \E i \in DOMAIN stack.engine.plugin_path :
       LET p == stack.engine.plugin_path[i]
       IN /\ p \notin scanned
          /\ \A j \in 1 .. i - 1 : stack.engine.plugin_path[j] \in scanned
          /\ scanned' = scanned \cup {p}
          /\ frames' = Becomes([Top EXCEPT !.todo =
               <<[path |-> p, name |-> {}, missing |-> {TRUE}, failure |-> {}, clobber |-> clobber]>>])
  /\ UNCHANGED <<disk, args, merged, stack, loaded, prototype, phase>>

\* A scan that takes its leave to clobber plugins from the engine section.
ScanClobbering == ScanWith({})

\* Load the default plugins; one whose name is taken is refused.
ScanNext == ScanWith({FALSE})

\* Then the plugins that this file lists.
ListPlugins ==
  LET new == Section(Content(Top.file), Top.left, "plugins")
  IN /\ At("scan") /\ Top.todo = <<>>
     /\ ToSet(stack.engine.plugin_path) \subseteq scanned
     /\ stack' = [stack EXCEPT !.plugins = @ \o new]
     /\ frames' = Becomes([Top EXCEPT !.pc = "plugins", !.todo = new])
     /\ UNCHANGED <<disk, args, merged, loaded, prototype, scanned, phase>>

Loading == phase = "load" /\ frames # <<>> /\ Top.pc \in {"scan", "plugins"} /\ Top.todo # <<>>
Skip == frames' = Becomes([Top EXCEPT !.todo = Tail(@)])

\* apply_plugin_conf on a path that is no file: a directory becomes its files.
OpenPath ==
  LET c == Head(Top.todo)
  IN /\ Loading /\ c.path \notin DOMAIN Library
     /\ \/ /\ c.path \in DOMAIN Directory /\ c.name = {}
           /\ \E files \in Listing(c) :
                frames' = Becomes([Top EXCEPT !.todo = files \o Tail(@)])
           /\ UNCHANGED <<disk, args, merged, stack, loaded, prototype, scanned, phase>>
        \/ /\ c.path \notin DOMAIN Directory
           /\ ValueOr(c.missing, stack.engine.ignore_missing)
           /\ Skip
           /\ UNCHANGED <<disk, args, merged, stack, loaded, prototype, scanned, phase>>
        \/ /\ \/ c.path \in DOMAIN Directory /\ c.name # {}
              \/ /\ c.path \notin DOMAIN Directory
                 /\ ~ValueOr(c.missing, stack.engine.ignore_missing)
           /\ Throw

Clobbers(c) == ValueOr(c.clobber, stack.engine.allow_clobber)

\* insert_plugin: the plugin counts as loaded before its name is looked at,
\* and stays so when it is refused.  Where it may clobber, set_factory is to
\* replace the factory of that name, but inserts into a map that keeps it.
InsertPlugin ==
  LET c == Head(Top.todo)
      lib == Library[c.path]
      name == ValueOr(c.name, lib.name)
      taken == name \in DOMAIN prototype[lib.type]
      refused == ~lib.good \/ (c.path \notin loaded /\ taken /\ ~Clobbers(c))
  IN /\ Loading /\ c.path \in DOMAIN Library
     /\ loaded' = IF lib.good THEN loaded \cup {c.path} ELSE loaded
     /\ prototype' = IF refused \/ taken \/ c.path \in loaded THEN prototype
                     ELSE [prototype EXCEPT ![lib.type] =
                             [n \in DOMAIN @ \cup {name} |->
                                IF n = name THEN c.path ELSE @[n]]]
     /\ IF refused /\ ~ValueOr(c.failure, stack.engine.ignore_failure)
        THEN phase' = "failed" /\ frames' = <<>>
        ELSE Skip /\ UNCHANGED phase
     /\ UNCHANGED <<disk, args, merged, stack, scanned>>

-----------------------------------------------------------------------------
Components(v) == ToSet(v.components)

\* The schema of the whole stack, as far as it depends on the plugins.
Accepts(c, left) ==
  /\ "version" \in left
  /\ "unknown" \notin left
  /\ \A x \in ToSet(Section(c, left, "simulators")) : x.binding \in DOMAIN prototype["simulator"]
  /\ \A x \in ToSet(Section(c, left, "controllers")) : x.binding \in DOMAIN prototype["controller"]
  /\ \A v \in ToSet(Section(c, left, "vehicles")) : \A x \in Components(v) :
       x.binding \in DOMAIN prototype["component"]

\* The rest of from_conf: everything that is left, then return to the caller.
\* Back in merge_stack, the whole configuration is validated.
ApplyRest ==
  LET c == Content(Top.file)
      left == Top.left
  IN /\ At("plugins") /\ Top.todo = <<>>
     /\ \/ /\ Accepts(c, left)
           /\ stack' = [stack EXCEPT
                !.simulators = @ \o Section(c, left, "simulators"),
                !.vehicles = @ \o Section(c, left, "vehicles"),
                !.controllers = @ \o Section(c, left, "controllers"),
                !.simulation = IF "simulation" \in left THEN Overlay(@, c["simulation"]) ELSE @]
           /\ frames' = Front(frames)
           /\ phase' = IF Len(frames) = 1 THEN "validate" ELSE phase
           /\ UNCHANGED <<disk, args, merged, loaded, prototype, scanned>>
        \/ ~Accepts(c, left) /\ Throw

\* The places of a configuration where something gets its identifier: a kind of
\* model, the place in its list, and the place among the components of a vehicle.
Places(s) ==
  ({"simulator"} \X (DOMAIN s.simulators) \X {0})
  \cup ({"controller"} \X (DOMAIN s.controllers) \X {0})
  \cup UNION {{"vehicle"} \X {i} \X ({0} \cup DOMAIN s.vehicles[i].components) :
                i \in DOMAIN s.vehicles}

\* All of them are in a single namespace.
Identifiers(s) ==
  [p \in Places(s) |->
     CASE p[1] = "simulator"  -> s.simulators[p[2]].id
       [] p[1] = "controller" -> s.controllers[p[2]].id
       [] OTHER -> IF p[3] = 0 THEN s.vehicles[p[2]].name
                   ELSE s.vehicles[p[2]].components[p[3]].id]

\* A check that looks for the source of a vehicle anywhere in the list.
DefinedAnywhere(s, i) ==
  LET v == s.vehicles[i]
  IN IF v.source = "vehicle" THEN \E w \in ToSet(s.vehicles) : w.name = v.from
     ELSE \E x \in ToSet(s.simulators) : x.id = v.from

\* check_consistency enters the name of a vehicle before it looks its source
\* up: a vehicle counts as defined before itself.
Defined(s, i) ==
  LET v == s.vehicles[i]
  IN IF v.source = "vehicle" THEN \E j \in 1 .. i : s.vehicles[j].name = v.from
     ELSE \E x \in ToSet(s.simulators) : x.id = v.from

Consistent(s) ==
  /\ IsInjective(Identifiers(s))
  /\ Range(Identifiers(s)) \cap Reserved = {}
  /\ \A i \in DOMAIN s.vehicles : Defined(s, i)
  /\ \A x \in ToSet(s.controllers) : \E v \in ToSet(s.vehicles) : v.name = x.vehicle

ValidateSelf ==
  /\ phase = "validate"
  /\ phase' = IF Consistent(stack) THEN "load" ELSE "failed"
  /\ UNCHANGED <<disk, args, merged, frames, stack, loaded, prototype, scanned>>

\* main_run.cpp: after the last file, the configuration must be complete
\* unless --allow-empty is given; then the simulation connects.
Complete(s) == s.simulators # <<>> /\ s.vehicles # <<>> /\ s.controllers # <<>>

RunStack ==
  /\ phase = "load" /\ frames = <<>> /\ merged = Len(args)
  /\ \E allow_empty \in BOOLEAN :
       phase' = IF allow_empty \/ Complete(stack) THEN "simulators" ELSE "failed"
  /\ UNCHANGED <<disk, args, merged, frames, stack, loaded, prototype, scanned>>

StackNext ==
  \/ MergeNext \/ BeginConf \/ RejectVersion \/ IncludeNext \/ IncludesDone
  \/ ScanNext \/ ListPlugins \/ OpenPath \/ InsertPlugin
  \/ ApplyRest \/ ValidateSelf \/ RunStack
=============================================================================
