---------------------------- MODULE Stack_proofs ----------------------------
(***************************************************************************)
(* Theorems about Stack and Connect, for all stack files, however they     *)
(* include each other, and for all plugins.                                *)
(***************************************************************************)
EXTENDS Connect, FiniteSetTheorems, SequenceTheorems, TLAPS

-----------------------------------------------------------------------------
(* The invariant of the merge, in parts.                                   *)

\* The plugins of a scan keep their names, and are refused if these are taken.
ScanConf == {c \in PluginConf : c.name = {} /\ c.failure = {} /\ c.clobber = {FALSE}}

\* All sections of all files.
Sections == {"version"} \cup UNION {UNION {DOMAIN d[f] : f \in DOMAIN d} : d \in Disks}

FrameType ==
  [file : File \cup {"initial"}, depth : Nat, left : SUBSET Sections,
   pc : {"begin", "include", "scan", "plugins"}, todo : Seq(File) \cup Seq(PluginConf)]

\* Content(f), for any disk.
ContentOn(d, f) == IF f = "initial" THEN InitialConf ELSE d[f]

\* A call of from_conf: what is left of the file when some sections are ignored,
\* and what the call has still to go through.
Call(x, d, ignore) ==
  /\ x \in FrameType
  /\ x.file \in DOMAIN d \cup {"initial"}
  /\ x.left \subseteq DOMAIN ContentOn(d, x.file)
  /\ x.pc # "begin" => DOMAIN ContentOn(d, x.file) \ (ignore \cup {"engine", "include"}) \subseteq x.left
  /\ x.pc = "include" => x.todo \in Seq(File)
  /\ x.pc = "scan"    => x.todo \in Seq(ScanConf)
  /\ x.pc = "plugins" => x.todo \in Seq(PluginConf)

Plugged == prototype = [t \in Types |-> prototype[t]]

Files ==
  /\ disk \in Disks
  /\ args \in Seq(File \cup {"initial"}) /\ args # <<>> /\ merged \in 0 .. Len(args)
  /\ phase \in {"load", "validate", "failed", "simulators", "vehicles", "controllers",
                "connected", "aborted", "uncaught"}
  /\ Plugged

Calls == frames \in Seq(FrameType) /\ \A i \in DOMAIN frames : Call(frames[i], disk, stack.ignore)

\* The outermost call is for the file that is being merged.
Nested ==
  /\ phase # "load" => frames = <<>>
  /\ frames # <<>> => merged \in 1 .. Len(args) /\ frames[1].file = args[merged]
  /\ phase \notin {"load", "failed"} => merged \in 1 .. Len(args)
  /\ Loaded => merged = Len(args)

StackType ==
  /\ DOMAIN stack = DOMAIN EmptyStack
  /\ "plugin_path" \in DOMAIN stack.engine /\ stack.engine.plugin_path \in Seq(Path)
  /\ stack.simulators \in Seq(SimulatorConf)
  /\ stack.vehicles \in Seq(VehicleConf)
  /\ stack.controllers \in Seq(ControllerConf)

\* A file has been merged, and no other one has been begun.
Merged == phase \notin {"load", "failed"} \/ (phase = "load" /\ frames = <<>> /\ merged > 0)

\* What file f says of the simulation holds.
Own(f) ==
  "simulation" \notin stack.ignore =>
    \A k \in DOMAIN stack.simulation :
      Gives(f, "simulation", k) => stack.simulation[k] = disk[f]["simulation"][k]

Applied == Merged => Own(args[merged])
Checked == Merged /\ phase # "validate" => Consistent(stack)

MergeInv == Files /\ Calls /\ Nested /\ StackType /\ Applied /\ Checked

-----------------------------------------------------------------------------
(* Files, frames and sections.                                             *)

LEMMA ContentFormed ==
  ASSUME NEW d \in Disks, NEW f \in DOMAIN d \cup {"initial"}
  PROVE  /\ WellFormed(ContentOn(d, f)) /\ f \in File \cup {"initial"}
         /\ DOMAIN ContentOn(d, f) \subseteq Sections
<1>1. f \in DOMAIN d => f \in File /\ f # "initial" /\ WellFormed(d[f])
  BY DisksWellFormed, FilesAssumption
<1>2. WellFormed(InitialConf)
  <2>1. DOMAIN InitialConf = {"version"}
    BY DEF InitialConf
  <2>2. /\ "engine" \notin {"version"} /\ "include" \notin {"version"}
        /\ "plugins" \notin {"version"} /\ "simulators" \notin {"version"}
        /\ "vehicles" \notin {"version"} /\ "controllers" \notin {"version"}
    OBVIOUS
  <2>. QED  BY <2>1, <2>2, Zenon DEF WellFormed
<1>3. DOMAIN ContentOn(d, f) \subseteq Sections
  BY DEF ContentOn, InitialConf, Sections
<1>. QED  BY <1>1, <1>2, <1>3 DEF ContentOn

\* The sections of a file, as far as they are left, are what the schemas accept.
LEMMA SectionType ==
  ASSUME NEW c, WellFormed(c), NEW left, left \subseteq DOMAIN c
  PROVE  /\ Section(c, left, "include") \in Seq(File)
         /\ Section(c, left, "plugins") \in Seq(PluginConf)
         /\ Section(c, left, "simulators") \in Seq(SimulatorConf)
         /\ Section(c, left, "vehicles") \in Seq(VehicleConf)
         /\ Section(c, left, "controllers") \in Seq(ControllerConf)
<1>1. \A S : <<>> \in Seq(S)
  OBVIOUS
<1>. HIDE DEF PluginConf, SimulatorConf, VehicleConf, ControllerConf
<1>. QED  BY <1>1 DEF WellFormed, Section

\* To ignore more sections does no harm to a call.
LEMMA CallKept ==
  ASSUME NEW x, NEW d, NEW g, NEW h, g \subseteq h, Call(x, d, g)
  PROVE  Call(x, d, h)
BY DEF Call

\* The innermost call.
LEMMA TopCall ==
  ASSUME MergeInv, frames # <<>>
  PROVE  /\ Len(frames) \in Nat \ {0} /\ Len(frames) \in DOMAIN frames
         /\ Call(Top, disk, stack.ignore) /\ Top \in FrameType
         /\ Content(Top.file) = ContentOn(disk, Top.file)
         /\ WellFormed(Content(Top.file)) /\ DOMAIN Content(Top.file) \subseteq Sections
<1>1. Len(frames) \in Nat \ {0} /\ Len(frames) \in DOMAIN frames
  BY DEF MergeInv, Calls
<1>2. Call(Top, disk, stack.ignore)
  BY <1>1 DEF MergeInv, Calls, Top
<1>3. Top \in FrameType /\ Top.file \in DOMAIN disk \cup {"initial"}
  BY <1>2 DEF Call
<1>4. Content(Top.file) = ContentOn(disk, Top.file)
  BY DEF Content, ContentOn
<1>. QED  BY <1>1, <1>2, <1>3, <1>4, ContentFormed DEF MergeInv, Files

\* The innermost call goes on with a file of its own.
LEMMA TopReplaced ==
  ASSUME MergeInv, frames # <<>>, NEW f, frames' = Becomes(f), f.file = Top.file,
         disk' = disk, stack.ignore \subseteq stack'.ignore, Call(f, disk, stack'.ignore)
  PROVE  /\ Calls' /\ frames' # <<>> /\ Len(frames') = Len(frames)
         /\ frames'[1].file = frames[1].file /\ frames'[Len(frames')] = f
<1>1. /\ Len(frames) \in Nat \ {0} /\ DOMAIN frames = 1 .. Len(frames)
      /\ frames \in Seq(FrameType) /\ f \in FrameType
  BY DEF MergeInv, Calls, Call
<1>2. /\ frames' \in Seq(FrameType) /\ Len(frames') = Len(frames)
      /\ DOMAIN frames' = DOMAIN frames
      /\ \A i \in DOMAIN frames : frames'[i] = IF i = Len(frames) THEN f ELSE frames[i]
  BY <1>1 DEF Becomes
<1>3. ASSUME NEW i \in DOMAIN frames' PROVE Call(frames'[i], disk', stack'.ignore)
  BY <1>1, <1>2, CallKept DEF MergeInv, Calls
<1>4. frames'[1].file = frames[1].file
  BY <1>1, <1>2 DEF Top
<1>. QED  BY <1>1, <1>2, <1>3, <1>4 DEF Calls

\* A step that keeps the configuration, and the files, keeps what was said of them.
StackSame == UNCHANGED <<disk, args, stack>>

\* Nothing has been merged, or it has, while calls are in progress.
LEMMA CallsInProgress ==
  ASSUME MergeInv, frames # <<>>, frames' # <<>>, UNCHANGED <<disk, args, merged, phase>>, Plugged',
         Calls', StackType', frames'[1].file = frames[1].file
  PROVE  MergeInv'
BY DEF MergeInv, Files, Nested, Loaded, Applied, Checked, Merged

\* An exception leaves nothing to be shown.
LEMMA ThrowInv ==
  ASSUME MergeInv, phase' = "failed", frames' = <<>>, UNCHANGED <<disk, args, merged, stack>>,
         Plugged'
  PROVE  MergeInv'
<1>1. Calls'
  BY DEF Calls
<1>. QED  BY <1>1 DEF MergeInv, Files, Nested, Loaded, StackType, Applied, Checked, Merged

-----------------------------------------------------------------------------
(* The merge.                                                              *)

LEMMA InitMerge == Init => MergeInv
<1>. SUFFICES ASSUME Init PROVE MergeInv
  OBVIOUS
<1>1. PICK line \in CommandLines : args = <<"initial">> \o line
  BY DEF Init
<1>2. args \in Seq(File \cup {"initial"}) /\ args # <<>>
  <2>1. line \in Seq(File) /\ line \in Seq(File \cup {"initial"})
    BY <1>1, FilesAssumption
  <2>2. <<"initial">> \in Seq(File \cup {"initial"})
    OBVIOUS
  <2>. QED  BY <1>1, <2>1, <2>2
<1>3. Files
  BY <1>2, BuiltInAssumption DEF Init, Files, Plugged
<1>4. Calls /\ Nested /\ Applied /\ Checked
  BY DEF Init, Calls, Nested, Loaded, Applied, Checked, Merged
<1>5. StackType
  <2>1. /\ stack = EmptyStack
        /\ EmptyStack.engine = EngineConf /\ EngineConf.plugin_path = SystemPath
        /\ "plugin_path" \in DOMAIN EngineConf
        /\ EmptyStack.simulators = <<>> /\ EmptyStack.vehicles = <<>>
        /\ EmptyStack.controllers = <<>>
    BY DEF Init, EmptyStack, EngineConf
  <2>2. \A S : <<>> \in Seq(S)
    OBVIOUS
  <2>. QED  BY <2>1, <2>2, FilesAssumption DEF StackType
<1>. QED  BY <1>3, <1>4, <1>5 DEF MergeInv

\* A file of the command line is read, and merged by the outermost call.
LEMMA MergeNextInv ==
  ASSUME MergeInv, MergeNext
  PROVE  MergeInv'
<1>1. CASE Throw
  BY <1>1, ThrowInv DEF Throw, MergeInv, Files, Plugged
<1>2. CASE ~Throw
  <2>. DEFINE f == args[merged + 1]
              x == Frame(f, 0)
  <2>1. /\ f \in DOMAIN disk \cup {"initial"} /\ frames' = <<x>> /\ merged' = merged + 1
        /\ merged < Len(args) /\ phase = "load"
        /\ UNCHANGED <<disk, args, stack, phase, prototype>>
    BY <1>2 DEF MergeNext
  <2>2. f \in File \cup {"initial"}
    BY <2>1, ContentFormed DEF MergeInv, Files
  <2>3. x \in FrameType /\ x.left = {} /\ x.pc = "begin" /\ x.file = f
    <3>1. <<>> \in Seq(File)
      OBVIOUS
    <3>. QED  BY <2>2, <3>1 DEF Frame, FrameType
  <2>. HIDE DEF x
  <2>4. Call(x, disk, stack.ignore)
    BY <2>1, <2>3 DEF Call
  <2>5. Calls'
    <3>1. frames' \in Seq(FrameType) /\ DOMAIN frames' = {1} /\ frames'[1] = x
      BY <2>1, <2>3
    <3>. QED  BY <2>1, <2>4, <3>1 DEF Calls
  <2>6. Files'
    BY <2>1 DEF MergeInv, Files, Plugged
  <2>7. Nested'
    <3>1. merged' \in 1 .. Len(args) /\ frames'[1].file = args[merged']
      BY <2>1, <2>3 DEF MergeInv, Files
    <3>. QED  BY <2>1, <3>1 DEF Nested, Loaded
  <2>. QED  BY <2>1, <2>5, <2>6, <2>7 DEF MergeInv, StackType, Applied, Checked, Merged
<1>. QED  BY <1>1, <1>2

\* The engine section and the sections to ignore.
LEMMA BeginConfInv ==
  ASSUME MergeInv, BeginConf
  PROVE  MergeInv'
<1>. DEFINE c     == Content(Top.file)
            given == IF "engine" \in DOMAIN c THEN c["engine"] ELSE <<>>
            ignore == stack.ignore \cup (IF "ignore" \in DOMAIN given THEN given["ignore"] ELSE {})
            left  == Unignored(c, ignore)
            new   == Section(c, left, "include")
            x     == [Top EXCEPT !.left = left \ {"engine", "include"}, !.pc = "include", !.todo = new]
<1>1. /\ frames # <<>> /\ frames' = Becomes(x)
      /\ UNCHANGED <<disk, args, merged, phase, prototype>>
      /\ stack' = [stack EXCEPT !.ignore = ignore,
                    !.engine = IF "engine" \in left THEN Overlay(@, given) ELSE @,
                    !.include = @ \o new]
  BY DEF BeginConf, At
<1>2. /\ Call(Top, disk, stack.ignore) /\ Top \in FrameType /\ WellFormed(c)
      /\ c = ContentOn(disk, Top.file) /\ DOMAIN c \subseteq Sections
  BY <1>1, TopCall
<1>3. left = DOMAIN c \ ignore /\ new \in Seq(File)
  BY <1>2, SectionType DEF Unignored
<1>. HIDE DEF new, left
<1>4. /\ x \in FrameType /\ x.file = Top.file /\ x.pc = "include" /\ x.todo = new
      /\ x.left = left \ {"engine", "include"}
  <2>1. left \subseteq Sections
    BY <1>2, <1>3
  <2>. QED  BY <1>2, <1>3, <2>1 DEF FrameType
<1>5. stack'.ignore = ignore /\ stack.ignore \subseteq ignore
  BY <1>1 DEF MergeInv, StackType, EmptyStack
<1>. HIDE DEF x, c, ignore
<1>6. Call(x, disk, ignore)
  BY <1>2, <1>3, <1>4 DEF Call
<1>7. Calls' /\ frames' # <<>> /\ frames'[1].file = frames[1].file
  BY <1>1, <1>4, <1>5, <1>6, TopReplaced
<1>8. StackType'
  <2>1. /\ DOMAIN stack' = DOMAIN stack
        /\ stack'.simulators = stack.simulators /\ stack'.vehicles = stack.vehicles
        /\ stack'.controllers = stack.controllers
        /\ stack'.engine = IF "engine" \in left THEN Overlay(stack.engine, given) ELSE stack.engine
    BY <1>1 DEF MergeInv, StackType, EmptyStack
  <2>2. "plugin_path" \in DOMAIN given => given["plugin_path"] \in Seq(Path)
    BY <1>2 DEF WellFormed
  <2>. HIDE DEF given
  <2>3. "plugin_path" \in DOMAIN stack'.engine /\ stack'.engine.plugin_path \in Seq(Path)
    BY <2>1, <2>2 DEF Overlay, MergeInv, StackType
  <2>. QED  BY <2>1, <2>3 DEF MergeInv, StackType
<1>. QED  BY <1>1, <1>7, <1>8, CallsInProgress DEF MergeInv, Files, Plugged

\* One more included file, which must be one, or an exception.
LEMMA IncludeNextInv ==
  ASSUME MergeInv, IncludeNext
  PROVE  MergeInv'
<1>1. CASE Throw
  BY <1>1, ThrowInv DEF Throw, MergeInv, Files, Plugged
<1>2. CASE ~Throw
  <2>. DEFINE x == [Top EXCEPT !.todo = Tail(@)]
              y == Frame(Head(Top.todo), Top.depth + 1)
  <2>1. /\ frames # <<>> /\ frames' = Append(Becomes(x), y) /\ Top.pc = "include"
        /\ Top.todo # <<>> /\ Head(Top.todo) \in DOMAIN disk
        /\ UNCHANGED <<disk, args, merged, phase, prototype, stack>>
    BY <1>2 DEF IncludeNext, At
  <2>2. Call(Top, disk, stack.ignore) /\ Top \in FrameType /\ Len(frames) \in Nat \ {0}
    BY <2>1, TopCall
  <2>3. Tail(Top.todo) \in Seq(File) /\ Head(Top.todo) \in File
    BY <2>1, <2>2 DEF Call
  <2>4. /\ x \in FrameType /\ x.file = Top.file /\ x.left = Top.left /\ x.pc = "include"
        /\ x.todo = Tail(Top.todo)
    BY <2>1, <2>2, <2>3 DEF FrameType
  <2>5. y \in FrameType /\ y.left = {} /\ y.pc = "begin" /\ y.file = Head(Top.todo)
    <3>1. <<>> \in Seq(File)
      OBVIOUS
    <3>. QED  BY <2>2, <2>3, <3>1 DEF Frame, FrameType
  <2>. HIDE DEF x, y
  <2>6. Call(x, disk, stack.ignore) /\ Call(y, disk, stack.ignore)
    BY <2>1, <2>2, <2>3, <2>4, <2>5 DEF Call
  <2>7. /\ Becomes(x) \in Seq(FrameType) /\ Len(Becomes(x)) = Len(frames)
        /\ \A i \in 1 .. Len(frames) : Becomes(x)[i] = IF i = Len(frames) THEN x ELSE frames[i]
    BY <2>2, <2>4 DEF Becomes, MergeInv, Calls
  <2>8. /\ frames' \in Seq(FrameType) /\ DOMAIN frames' = 1 .. Len(frames) + 1
        /\ \A i \in 1 .. Len(frames) : frames'[i] = Becomes(x)[i]
        /\ frames'[Len(frames) + 1] = y
    BY <2>1, <2>2, <2>5, <2>7
  <2>9. ASSUME NEW i \in DOMAIN frames' PROVE Call(frames'[i], disk', stack'.ignore)
    BY <2>1, <2>2, <2>6, <2>7, <2>8 DEF MergeInv, Calls
  <2>10. frames'[1].file = frames[1].file /\ frames' # <<>>
    BY <2>2, <2>4, <2>7, <2>8 DEF Top
  <2>. QED  BY <2>1, <2>8, <2>9, <2>10, CallsInProgress DEF Calls, MergeInv, StackType, Files, Plugged
<1>. QED  BY <1>1, <1>2

LEMMA ScansArePlugins == Seq(ScanConf) \subseteq Seq(PluginConf)
<1>1. ScanConf \subseteq PluginConf
  BY DEF ScanConf
<1>. HIDE DEF ScanConf, PluginConf
<1>2. ASSUME NEW s \in Seq(ScanConf) PROVE s \in Seq(PluginConf)
  BY <1>1
<1>. QED  BY <1>2

\* A call goes on to another part of the file, or with less to go through.
LEMMA GoesOnInv ==
  ASSUME MergeInv, frames # <<>>, NEW pc, NEW todo, Top.pc # "begin",
         frames' = Becomes([Top EXCEPT !.pc = pc, !.todo = todo]),
         UNCHANGED <<disk, args, merged, phase>>, Plugged',
         stack'.ignore = stack.ignore, StackType',
         \/ pc = "scan" /\ todo \in Seq(ScanConf)
         \/ pc = "plugins" /\ todo \in Seq(PluginConf)
  PROVE  MergeInv'
<1>. DEFINE x == [Top EXCEPT !.pc = pc, !.todo = todo]
<1>1. Call(Top, disk, stack.ignore) /\ Top \in FrameType
  BY TopCall
<1>2. pc \in {"scan", "plugins"} /\ todo \in Seq(PluginConf)
  BY ScansArePlugins
<1>3. /\ x \in FrameType /\ x.file = Top.file /\ x.left = Top.left
      /\ x.pc = pc /\ x.todo = todo
  BY <1>1, <1>2 DEF FrameType
<1>4. frames' = Becomes(x)
  OBVIOUS
<1>. HIDE DEF x
<1>5. Call(x, disk, stack'.ignore)
  BY <1>1, <1>2, <1>3 DEF Call
<1>6. Calls' /\ frames' # <<>> /\ frames'[1].file = frames[1].file
  BY <1>3, <1>4, <1>5, TopReplaced
<1>. QED  BY <1>6, CallsInProgress

\* A call in which no step is new keeps its part of the file.
LEMMA TodoReplaced ==
  ASSUME NEW x \in FrameType, NEW todo
  PROVE  [x EXCEPT !.todo = todo] = [x EXCEPT !.pc = x.pc, !.todo = todo]
BY DEF FrameType

LEMMA IncludesDoneInv ==
  ASSUME MergeInv, IncludesDone
  PROVE  MergeInv'
<1>1. /\ frames # <<>> /\ Top.pc = "include" /\ Top.todo = <<>>
      /\ frames' = Becomes([Top EXCEPT !.pc = "scan"])
      /\ UNCHANGED <<disk, args, merged, phase, prototype, stack>>
  BY DEF IncludesDone, At
<1>2. Top \in FrameType
  BY <1>1, TopCall
<1>3. [Top EXCEPT !.pc = "scan"] = [Top EXCEPT !.pc = "scan", !.todo = <<>>]
  BY <1>1, <1>2 DEF FrameType
<1>4. <<>> \in Seq(ScanConf)
  OBVIOUS
<1>. QED  BY <1>1, <1>3, <1>4, GoesOnInv DEF MergeInv, StackType, Files, Plugged

LEMMA ScanNextInv ==
  ASSUME MergeInv, ScanNext
  PROVE  MergeInv'
<1>1. PICK i \in DOMAIN stack.engine.plugin_path :
        frames' = Becomes([Top EXCEPT !.todo =
          <<[path |-> stack.engine.plugin_path[i], name |-> {}, missing |-> {TRUE},
             failure |-> {}, clobber |-> {FALSE}]>>])
  BY DEF ScanNext, ScanWith
<1>. DEFINE p == stack.engine.plugin_path[i]
            c == [path |-> p, name |-> {}, missing |-> {TRUE}, failure |-> {}, clobber |-> {FALSE}]
<1>2. /\ frames # <<>> /\ Top.pc = "scan"
      /\ UNCHANGED <<disk, args, merged, phase, prototype, stack>>
  BY DEF ScanNext, ScanWith, At
<1>3. p \in Path
  BY DEF MergeInv, StackType
<1>. HIDE DEF p
<1>4. c \in ScanConf
  BY <1>3 DEF ScanConf, PluginConf
<1>. HIDE DEF c
<1>5. <<c>> \in Seq(ScanConf)
  BY <1>4
<1>6. frames' = Becomes([Top EXCEPT !.pc = "scan", !.todo = <<c>>])
  BY <1>1, <1>2, TopCall, TodoReplaced DEF c, p
<1>. QED  BY <1>2, <1>5, <1>6, GoesOnInv DEF MergeInv, StackType, Files, Plugged

LEMMA ListPluginsInv ==
  ASSUME MergeInv, ListPlugins
  PROVE  MergeInv'
<1>. DEFINE new == Section(Content(Top.file), Top.left, "plugins")
<1>1. /\ frames # <<>> /\ Top.pc = "scan"
      /\ frames' = Becomes([Top EXCEPT !.pc = "plugins", !.todo = new])
      /\ stack' = [stack EXCEPT !.plugins = @ \o new]
      /\ UNCHANGED <<disk, args, merged, phase, prototype>>
  BY DEF ListPlugins, At
<1>2. new \in Seq(PluginConf)
  BY <1>1, TopCall, SectionType DEF Call
<1>. HIDE DEF new
<1>3. stack'.ignore = stack.ignore /\ StackType'
  BY <1>1 DEF MergeInv, StackType, EmptyStack
<1>. QED  BY <1>1, <1>2, <1>3, GoesOnInv DEF MergeInv, Files, Plugged

\* What is left to load, after its first element, and with others in its place.
LEMMA TodoType ==
  ASSUME MergeInv, Loading
  PROVE  /\ frames # <<>> /\ phase = "load" /\ Top \in FrameType
         /\ \/ Top.pc = "scan" /\ Head(Top.todo) \in ScanConf /\ Tail(Top.todo) \in Seq(ScanConf)
            \/ Top.pc = "plugins" /\ Head(Top.todo) \in PluginConf /\ Tail(Top.todo) \in Seq(PluginConf)
<1>1. frames # <<>> /\ phase = "load" /\ Top.pc \in {"scan", "plugins"} /\ Top.todo # <<>>
  BY DEF Loading
<1>2. Call(Top, disk, stack.ignore) /\ Top \in FrameType
  BY <1>1, TopCall
<1>3. CASE Top.pc = "scan"
  <2>1. Top.todo \in Seq(ScanConf)
    BY <1>2, <1>3 DEF Call
  <2>. QED  BY <1>1, <1>2, <1>3, <2>1
<1>4. CASE Top.pc = "plugins"
  <2>1. Top.todo \in Seq(PluginConf)
    BY <1>2, <1>4 DEF Call
  <2>. QED  BY <1>1, <1>2, <1>4, <2>1
<1>. QED  BY <1>1, <1>3, <1>4

\* The plugins of a directory are loaded with the leave that the directory has.
LEMMA ListingType ==
  ASSUME NEW c \in PluginConf, c.path \in DOMAIN Directory, NEW files \in Listing(c)
  PROVE  files \in Seq(PluginConf) /\ (c \in ScanConf => files \in Seq(ScanConf))
<1>. DEFINE D == Directory[c.path]
<1>1. PICK order \in SetToSeqs(D) : files = [i \in DOMAIN order |-> [c EXCEPT !.path = order[i]]]
  BY DEF Listing
<1>2. /\ D \subseteq DOMAIN Library /\ Cardinality(D) \in Nat
  BY FilesAssumption, FS_CardinalityType
<1>3. order \in [1 .. Cardinality(D) -> D]
  BY DEF SetToSeqs
<1>4. ASSUME NEW p \in D
      PROVE  /\ [c EXCEPT !.path = p] \in PluginConf
             /\ c \in ScanConf => [c EXCEPT !.path = p] \in ScanConf
  BY <1>2 DEF PluginConf, ScanConf, Path
<1>. HIDE DEF D
<1>5. ASSUME NEW S, \A p \in D : [c EXCEPT !.path = p] \in S
      PROVE  files \in Seq(S)
  BY <1>1, <1>2, <1>3, <1>5
<1>. QED  BY <1>4, <1>5

LEMMA ListingPaths ==
  ASSUME NEW c \in PluginConf, c.path \in DOMAIN Directory, NEW files \in Listing(c)
  PROVE  \A i \in DOMAIN files : files[i].path \in Directory[c.path]
<1>. DEFINE D == Directory[c.path]
<1>1. PICK order \in SetToSeqs(D) : files = [i \in DOMAIN order |-> [c EXCEPT !.path = order[i]]]
  BY DEF Listing
<1>2. order \in [1 .. Cardinality(D) -> D]
  BY DEF SetToSeqs
<1>3. \A p : [c EXCEPT !.path = p].path = p
  BY DEF PluginConf
<1>. HIDE DEF D
<1>4. \A i \in DOMAIN files : files[i].path \in D
  BY <1>1, <1>2, <1>3
<1>. QED  BY <1>4 DEF D

LEMMA OpenPathInv ==
  ASSUME MergeInv, OpenPath
  PROVE  MergeInv'
<1>. DEFINE c == Head(Top.todo)
<1>1. CASE Throw
  BY <1>1, ThrowInv DEF Throw, MergeInv, Files, Plugged
<1>2. CASE ~Throw
  <2>1. Loading /\ UNCHANGED <<disk, args, merged, stack, loaded, prototype, scanned, phase>>
    BY <1>2 DEF OpenPath
  <2>2. PICK todo : /\ frames' = Becomes([Top EXCEPT !.todo = todo])
                    /\ \/ \E files \in Listing(c) : c.path \in DOMAIN Directory /\ todo = files \o Tail(Top.todo)
                       \/ todo = Tail(Top.todo)
    BY <1>2, TodoType, <2>1 DEF OpenPath, Skip, FrameType
  <2>. HIDE DEF c
  <2>3. \/ Top.pc = "scan" /\ todo \in Seq(ScanConf)
        \/ Top.pc = "plugins" /\ todo \in Seq(PluginConf)
    <3>1. CASE todo = Tail(Top.todo)
      BY <2>1, <3>1, TodoType
    <3>2. ASSUME NEW files \in Listing(c), c.path \in DOMAIN Directory, todo = files \o Tail(Top.todo)
          PROVE  \/ Top.pc = "scan" /\ todo \in Seq(ScanConf)
                 \/ Top.pc = "plugins" /\ todo \in Seq(PluginConf)
      <4>1. CASE Top.pc = "scan" /\ c \in ScanConf /\ Tail(Top.todo) \in Seq(ScanConf)
        <5>1. c \in PluginConf
          BY <4>1 DEF ScanConf
        <5>2. files \in Seq(ScanConf)
          BY <3>2, <4>1, <5>1, ListingType
        <5>. QED  BY <3>2, <4>1, <5>2, ConcatProperties
      <4>2. CASE Top.pc = "plugins" /\ c \in PluginConf /\ Tail(Top.todo) \in Seq(PluginConf)
        <5>1. files \in Seq(PluginConf)
          BY <3>2, <4>2, ListingType
        <5>. QED  BY <3>2, <4>2, <5>1, ConcatProperties
      <4>. QED  BY <2>1, <4>1, <4>2, TodoType DEF c
    <3>. QED  BY <2>2, <3>1, <3>2
  <2>4. frames' = Becomes([Top EXCEPT !.pc = Top.pc, !.todo = todo])
    BY <2>1, <2>2, TodoType, TodoReplaced
  <2>5. frames # <<>>
    BY <2>1, TodoType
  <2>. QED  BY <2>1, <2>3, <2>4, <2>5, GoesOnInv DEF MergeInv, StackType, Files, Plugged
<1>. QED  BY <1>1, <1>2

LEMMA InsertPluginInv ==
  ASSUME MergeInv, InsertPlugin
  PROVE  MergeInv'
<1>1. /\ Loading /\ UNCHANGED <<disk, args, merged, stack>>
      /\ \/ phase' = "failed" /\ frames' = <<>>
         \/ Skip /\ UNCHANGED phase
  BY DEF InsertPlugin
<1>2. Plugged'
  BY DEF InsertPlugin, MergeInv, Files, Plugged
<1>3. CASE phase' = "failed" /\ frames' = <<>>
  BY <1>1, <1>2, <1>3, ThrowInv
<1>4. CASE Skip /\ UNCHANGED phase
  <2>1. frames' = Becomes([Top EXCEPT !.pc = Top.pc, !.todo = Tail(Top.todo)])
    BY <1>1, <1>4, TodoType, TodoReplaced DEF Skip, FrameType
  <2>2. stack'.ignore = stack.ignore /\ StackType'
    BY <1>1 DEF MergeInv, StackType
  <2>. QED  BY <1>1, <1>2, <1>4, <2>1, <2>2, TodoType, ScansArePlugins, GoesOnInv
<1>. QED  BY <1>1, <1>3, <1>4

\* What is left of the calls when the innermost one returns.
LEMMA FrontMembers ==
  ASSUME NEW S, NEW s \in Seq(S), s # <<>>
  PROVE  /\ Front(s) \in Seq(S) /\ Len(Front(s)) = Len(s) - 1
         /\ DOMAIN Front(s) = 1 .. Len(s) - 1
         /\ \A i \in 1 .. Len(s) - 1 : Front(s)[i] = s[i]
<1>1. Len(s) \in Nat \ {0} /\ DOMAIN s = 1 .. Len(s)
  OBVIOUS
<1>2. Front(s) = SubSeq(s, 1, Len(s) - 1)
  BY DEF Front
<1>. QED  BY <1>1, <1>2

\* The end of a call: its own settings are applied after those of the files that
\* it includes, and all of them if the file has been merged.
LEMMA ApplyRestInv ==
  ASSUME MergeInv, ApplyRest
  PROVE  MergeInv'
<1>. DEFINE c    == Content(Top.file)
            left == Top.left
<1>1. CASE Throw
  BY <1>1, ThrowInv DEF Throw, MergeInv, Files, Plugged
<1>2. CASE ~Throw
  <2>1. /\ frames # <<>> /\ phase = "load" /\ Top.pc = "plugins" /\ frames' = Front(frames)
        /\ phase' = IF Len(frames) = 1 THEN "validate" ELSE phase
        /\ stack' = [stack EXCEPT
              !.simulators = @ \o Section(c, left, "simulators"),
              !.vehicles = @ \o Section(c, left, "vehicles"),
              !.controllers = @ \o Section(c, left, "controllers"),
              !.simulation = IF "simulation" \in left THEN Overlay(@, c["simulation"]) ELSE @]
        /\ UNCHANGED <<disk, args, merged, prototype>>
    BY <1>2 DEF ApplyRest, At
  <2>2. /\ Len(frames) \in Nat \ {0} /\ Call(Top, disk, stack.ignore) /\ WellFormed(c)
        /\ c = ContentOn(disk, Top.file)
    BY <2>1, TopCall
  <2>3. left \subseteq DOMAIN c /\ DOMAIN c \ (stack.ignore \cup {"engine", "include"}) \subseteq left
    BY <2>1, <2>2 DEF Call
  <2>. HIDE DEF c, left
  <2>4. /\ DOMAIN stack' = DOMAIN stack
        /\ stack'.engine = stack.engine /\ stack'.ignore = stack.ignore
        /\ stack'.simulators = stack.simulators \o Section(c, left, "simulators")
        /\ stack'.vehicles = stack.vehicles \o Section(c, left, "vehicles")
        /\ stack'.controllers = stack.controllers \o Section(c, left, "controllers")
        /\ stack'.simulation = IF "simulation" \in left THEN Overlay(stack.simulation, c["simulation"])
                               ELSE stack.simulation
    BY <2>1 DEF MergeInv, StackType, EmptyStack
  <2>5. StackType'
    BY <2>2, <2>3, <2>4, SectionType, ConcatProperties DEF MergeInv, StackType
  <2>6. /\ frames' \in Seq(FrameType) /\ Len(frames') = Len(frames) - 1
        /\ \A i \in 1 .. Len(frames) - 1 : frames'[i] = frames[i]
        /\ DOMAIN frames' = 1 .. Len(frames) - 1
    BY <2>1, FrontMembers DEF MergeInv, Calls
  <2>7. Calls'
    BY <2>1, <2>2, <2>4, <2>6 DEF MergeInv, Calls
  <2>8. CASE Len(frames) = 1
    <3>1. /\ frames' = <<>> /\ phase' = "validate"
          /\ merged \in 1 .. Len(args) /\ Top.file = args[merged]
      BY <2>1, <2>6, <2>8 DEF MergeInv, Nested, Top
    <3>2. Own(args[merged])'
      <4>. SUFFICES ASSUME "simulation" \notin stack.ignore, NEW k \in DOMAIN stack'.simulation,
                           Gives(Top.file, "simulation", k)
                    PROVE  stack'.simulation[k] = disk[Top.file]["simulation"][k]
        BY <2>1, <2>4, <3>1 DEF Own, Gives
      <4>1. c = disk[Top.file]
        BY <2>2, FilesAssumption, DisksWellFormed DEF ContentOn, Gives, MergeInv, Files
      <4>2. "simulation" \in left /\ k \in DOMAIN c["simulation"]
        BY <2>3, <4>1 DEF Gives
      <4>3. stack'.simulation = Overlay(stack.simulation, c["simulation"])
        BY <2>4, <4>2
      <4>. QED  BY <4>1, <4>2, <4>3 DEF Overlay
    <3>3. Files' /\ Nested'
      BY <2>1, <3>1 DEF MergeInv, Files, Plugged, Nested, Loaded
    <3>4. Applied' /\ Checked'
      BY <2>1, <3>1, <3>2 DEF Applied, Checked, Own, Gives
    <3>. QED  BY <2>5, <2>7, <3>3, <3>4 DEF MergeInv
  <2>9. CASE Len(frames) # 1
    <3>1. frames' # <<>> /\ frames'[1].file = frames[1].file /\ phase' = phase
      BY <2>1, <2>2, <2>6, <2>9
    <3>. QED  BY <2>1, <2>5, <2>7, <3>1, CallsInProgress DEF MergeInv, Files, Plugged
  <2>. QED  BY <2>8, <2>9
<1>. QED  BY <1>1, <1>2

\* The merge is validated, and the last one begins the simulation.
LEMMA ValidatedInv ==
  ASSUME MergeInv, ValidateSelf \/ RunStack
  PROVE  MergeInv'
<1>1. UNCHANGED <<disk, args, merged, frames, stack, prototype>>
  BY DEF ValidateSelf, RunStack
<1>2. CASE ValidateSelf
  BY <1>1, <1>2 DEF ValidateSelf, MergeInv, Files, Plugged, Calls, Nested, Loaded, StackType,
     Applied, Checked, Merged, Own, Gives
<1>3. CASE RunStack
  <2>1. merged = Len(args) /\ phase = "load" /\ frames = <<>> /\ phase' \in {"simulators", "failed"}
    BY <1>3 DEF RunStack
  <2>2. merged \in 1 .. Len(args)
    BY <2>1 DEF MergeInv, Files
  <2>3. Own(args[merged]) /\ Consistent(stack)
    BY <2>1, <2>2 DEF MergeInv, Applied, Checked, Merged
  <2>. QED  BY <1>1, <2>1, <2>2, <2>3 DEF MergeInv, Files, Plugged, Calls, Nested, Loaded, StackType,
     Applied, Checked, Merged, Own, Gives
<1>. QED  BY <1>2, <1>3

\* A step of the connect state keeps what was merged.
LEMMA ConnectingInv ==
  ASSUME MergeInv, Loaded, Loaded', UNCHANGED <<disk, args, merged, frames, stack, prototype>>,
         phase' \in {"simulators", "vehicles", "controllers", "connected", "aborted", "uncaught"}
  PROVE  MergeInv'
BY DEF MergeInv, Files, Plugged, Calls, Nested, Loaded, StackType, Applied, Checked, Merged, Own, Gives

\* All steps of the merge.
LEMMA StackNextInv ==
  ASSUME MergeInv, StackNext
  PROVE  MergeInv'
<1>1. ~RejectVersion => MergeInv'
  BY MergeNextInv, BeginConfInv, IncludeNextInv, IncludesDoneInv, ScanNextInv, ListPluginsInv,
     OpenPathInv, InsertPluginInv, ApplyRestInv, ValidatedInv DEF StackNext
<1>2. RejectVersion => MergeInv'
  BY ThrowInv DEF RejectVersion, Throw, MergeInv, Files, Plugged
<1>. QED  BY <1>1, <1>2

-----------------------------------------------------------------------------
(* The models of a configuration that has been checked.                    *)

SelfCopies == \E v \in ToSet(stack.vehicles) : v.source = "vehicle" /\ v.from = v.name

\* The names of the first n vehicles.
NamesTo(n) == {stack.vehicles[i].name : i \in 1 .. n}

\* A pass over the vehicles makes none but them.
Passing ==
  /\ phase = "vehicles" =>
       /\ next \in 1 .. Len(stack.vehicles) + 1
       /\ DOMAIN vehicles \subseteq NamesTo(Len(stack.vehicles))
       /\ \A b \in building : /\ next <= Len(stack.vehicles)
                              /\ "conf" \in DOMAIN b /\ b.conf = stack.vehicles[next]
  /\ phase = "controllers" => DOMAIN vehicles = NamesTo(Len(stack.vehicles))
  /\ phase # "uncaught"

\* If no vehicle is a copy of itself, a single pass creates them all, in order.
InOrder == phase = "vehicles" => before = 0 /\ DOMAIN vehicles = NamesTo(next - 1)

Connecting ==
  /\ ~Loaded => simulators = 0
  /\ phase = "simulators" => simulators \in 0 .. Len(stack.simulators)
  /\ phase \in {"vehicles", "controllers"} => simulators = Len(stack.simulators)
  /\ ~Loaded \/ phase = "simulators" => vehicles = <<>> /\ next = 1 /\ before = 0 /\ building = {}
  /\ ~Loaded \/ phase \in {"simulators", "vehicles"} => controllers = 0
  /\ phase = "controllers" => controllers \in 0 .. Len(stack.controllers)
  /\ Passing /\ (~SelfCopies => InOrder)

ConnectInv == MergeInv /\ Connecting

\* What a check that has been passed says of the vehicles.
LEMMA VehiclesDefined ==
  ASSUME StackType, Consistent(stack)
  PROVE  /\ \A i, j \in DOMAIN stack.vehicles :
              stack.vehicles[i].name = stack.vehicles[j].name => i = j
         /\ \A i \in DOMAIN stack.vehicles :
              LET v == stack.vehicles[i]
              IN IF v.source = "vehicle" THEN \E j \in 1 .. i : stack.vehicles[j].name = v.from
                 ELSE v.source = "simulator" /\ \E j \in DOMAIN stack.simulators : stack.simulators[j].id = v.from
<1>1. ASSUME NEW i \in DOMAIN stack.vehicles
      PROVE  <<"vehicle", i, 0>> \in Places(stack)
             /\ Identifiers(stack)[<<"vehicle", i, 0>>] = stack.vehicles[i].name
  <2>1. <<"vehicle", i, 0>> \in Places(stack)
    BY DEF Places
  <2>2. /\ <<"vehicle", i, 0>>[1] = "vehicle" /\ <<"vehicle", i, 0>>[2] = i
        /\ <<"vehicle", i, 0>>[3] = 0
    OBVIOUS
  <2>. QED  BY <2>1, <2>2 DEF Identifiers
<1>2. DOMAIN Identifiers(stack) = Places(stack)
  BY DEF Identifiers
<1>3. IsInjective(Identifiers(stack))
  BY DEF Consistent
<1>4. ASSUME NEW i \in DOMAIN stack.vehicles, NEW j \in DOMAIN stack.vehicles,
             stack.vehicles[i].name = stack.vehicles[j].name
      PROVE  i = j
  <2>1. <<"vehicle", i, 0>> = <<"vehicle", j, 0>>
    BY <1>1, <1>2, <1>3, <1>4 DEF IsInjective
  <2>. QED  BY <2>1
<1>5. ASSUME NEW i \in DOMAIN stack.vehicles
      PROVE  IF stack.vehicles[i].source = "vehicle"
             THEN \E j \in 1 .. i : stack.vehicles[j].name = stack.vehicles[i].from
             ELSE /\ stack.vehicles[i].source = "simulator"
                  /\ \E j \in DOMAIN stack.simulators : stack.simulators[j].id = stack.vehicles[i].from
  <2>1. Defined(stack, i)
    BY DEF Consistent
  <2>2. stack.vehicles[i] \in VehicleConf
    BY DEF StackType
  <2>3. stack.vehicles[i].source \in {"simulator", "vehicle"}
    BY <2>2 DEF VehicleConf
  <2>. QED  BY <2>1, <2>3 DEF Defined, ToSet
<1>. QED  BY <1>4, <1>5

\* As many vehicles as names.
LEMMA AllNames ==
  ASSUME StackType, Consistent(stack)
  PROVE  /\ Cardinality(NamesTo(Len(stack.vehicles))) = Len(stack.vehicles)
         /\ IsFiniteSet(NamesTo(Len(stack.vehicles)))
<1>. DEFINE n == Len(stack.vehicles)
            f == [i \in 1 .. n |-> stack.vehicles[i].name]
<1>1. n \in Nat /\ DOMAIN stack.vehicles = 1 .. n
  BY DEF StackType
<1>2. f \in Bijection(1 .. n, NamesTo(n))
  <2>. HIDE DEF n
  <2>1. \A i, j \in 1 .. n : f[i] = f[j] => i = j
    BY <1>1, VehiclesDefined
  <2>2. f \in [1 .. n -> NamesTo(n)] /\ \A y \in NamesTo(n) : \E i \in 1 .. n : f[i] = y
    BY DEF NamesTo
  <2>. QED  BY <2>1, <2>2 DEF Bijection, Injection, Surjection, IsInjective
<1>3. IsFiniteSet(1 .. n) /\ Cardinality(1 .. n) = n
  BY <1>1, FS_Interval
<1>. QED  BY <1>2, <1>3, FS_Bijection DEF ExistsBijection

-----------------------------------------------------------------------------
(* Connecting.                                                             *)

LEMMA InitConnect == ConnectInit => ConnectInv
BY InitMerge DEF ConnectInit, ConnectInv, Init, Connecting, Passing, InOrder, Loaded

\* While files are merged, no model has been created.
LEMMA MergingInv ==
  ASSUME ConnectInv, StackNext, UNCHANGED connectVars
  PROVE  ConnectInv'
<1>1. phase \in {"load", "validate"}
  BY DEF StackNext, MergeNext, BeginConf, RejectVersion, IncludeNext, IncludesDone, ScanNext,
     ScanWith, ListPlugins, OpenPath, InsertPlugin, ApplyRest, ValidateSelf, RunStack, At, Loading
<1>2. phase' \in {"load", "validate", "failed", "simulators"}
  BY <1>1 DEF StackNext, MergeNext, BeginConf, RejectVersion, IncludeNext, IncludesDone, ScanNext,
     ScanWith, ListPlugins, OpenPath, InsertPlugin, ApplyRest, ValidateSelf, RunStack, Throw
<1>3. MergeInv'
  BY StackNextInv DEF ConnectInv
<1>4. Connecting'
  <2>1. Len(stack'.simulators) \in Nat
    BY <1>3 DEF MergeInv, StackType
  <2>. QED  BY <1>1, <1>2, <2>1 DEF ConnectInv, Connecting, Loaded, Passing, InOrder, connectVars
<1>. QED  BY <1>3, <1>4 DEF ConnectInv

\* A state of the connect state, and what it relies on.
LEMMA WhileConnecting ==
  ASSUME ConnectInv, phase \in {"simulators", "vehicles", "controllers"}
  PROVE  /\ StackType /\ Consistent(stack) /\ MergeInv /\ Connecting
         /\ Len(stack.simulators) \in Nat /\ DOMAIN stack.simulators = 1 .. Len(stack.simulators)
         /\ Len(stack.vehicles) \in Nat /\ DOMAIN stack.vehicles = 1 .. Len(stack.vehicles)
         /\ Len(stack.controllers) \in Nat /\ DOMAIN stack.controllers = 1 .. Len(stack.controllers)
BY DEF ConnectInv, MergeInv, StackType, Checked, Merged

\* The merge is over, so its invariant stays.
LEMMA MergeOver ==
  ASSUME ConnectInv, phase \in {"simulators", "vehicles", "controllers"},
         UNCHANGED <<disk, args, merged, frames, stack, prototype>>,
         phase' \in {"simulators", "vehicles", "controllers", "connected", "aborted", "uncaught"},
         Connecting'
  PROVE  ConnectInv'
BY ConnectingInv DEF ConnectInv, Loaded

\* A run that leaves the connect state by a ModelError, or with all models.
LEMMA LeaveInv ==
  ASSUME ConnectInv, phase \in {"simulators", "vehicles", "controllers"},
         UNCHANGED <<disk, args, merged, frames, stack, prototype>>, UNCHANGED connectVars,
         phase' \in {"aborted", "connected"}
  PROVE  ConnectInv'
<1>1. SelfCopies' = SelfCopies
  BY DEF SelfCopies
<1>2. Connecting'
  BY <1>1 DEF ConnectInv, Connecting, Passing, InOrder, Loaded, connectVars
<1>. QED  BY <1>2, MergeOver

LEMMA SimulatorsInv ==
  ASSUME ConnectInv, NewSimulator \/ SimulatorsDone
  PROVE  ConnectInv'
<1>1. phase = "simulators"
  BY DEF NewSimulator, SimulatorsDone
<1>2. Connecting /\ Len(stack.simulators) \in Nat /\ Len(stack.vehicles) \in Nat
  BY <1>1, WhileConnecting
<1>3. CASE ModelError
  BY <1>1, <1>3, LeaveInv DEF ModelError, Leave
<1>4. CASE NewSimulator /\ ~ModelError
  <2>1. Connecting'
    BY <1>1, <1>2, <1>4 DEF NewSimulator, stackVars, Connecting, Loaded, Passing, InOrder, SelfCopies
  <2>. QED  BY <1>1, <1>4, <2>1, MergeOver DEF NewSimulator, stackVars
<1>5. CASE SimulatorsDone
  <2>1. NamesTo(0) = {} /\ DOMAIN <<>> = {}
    BY DEF NamesTo
  <2>2. Connecting'
    <3>1. /\ phase' = "vehicles" /\ simulators' = Len(stack.simulators) /\ stack' = stack
          /\ vehicles' = <<>> /\ next' = 1 /\ before' = 0 /\ building' = {} /\ controllers' = 0
      BY <1>1, <1>2, <1>5 DEF SimulatorsDone, Leave, connectVars, Connecting
    <3>2. Passing' /\ InOrder'
      <4>1. DOMAIN vehicles' = NamesTo(0)' /\ DOMAIN vehicles' = {}
        BY <2>1, <3>1 DEF NamesTo
      <4>. QED  BY <1>2, <3>1, <4>1 DEF Passing, InOrder, NamesTo
    <3>. QED  BY <3>1, <3>2 DEF Connecting, Loaded
  <2>. QED  BY <1>1, <1>5, <2>2, MergeOver DEF SimulatorsDone, Leave
<1>. QED  BY <1>3, <1>4, <1>5

\* The vehicle in turn has been checked: its source is there, unless it is its own.
LEMMA SourceThere ==
  ASSUME ConnectInv, phase = "vehicles", next \in DOMAIN stack.vehicles
  PROVE  LET v == stack.vehicles[next]
         IN /\ v.source \in {"simulator", "vehicle"}
            /\ v.source = "simulator" => v.from \in SimulatorIds
            /\ v.source = "vehicle" /\ ~SelfCopies => v.from \in DOMAIN vehicles
<1>. DEFINE v == stack.vehicles[next]
<1>1. /\ StackType /\ Consistent(stack) /\ Connecting
      /\ DOMAIN stack.vehicles = 1 .. Len(stack.vehicles) /\ Len(stack.vehicles) \in Nat
      /\ DOMAIN stack.simulators = 1 .. Len(stack.simulators)
  BY WhileConnecting
<1>2. IF v.source = "vehicle" THEN \E j \in 1 .. next : stack.vehicles[j].name = v.from
      ELSE v.source = "simulator" /\ \E j \in DOMAIN stack.simulators : stack.simulators[j].id = v.from
  BY <1>1, VehiclesDefined
<1>3. /\ simulators = Len(stack.simulators)
      /\ ~SelfCopies => DOMAIN vehicles = NamesTo(next - 1)
  BY <1>1 DEF Connecting, InOrder
<1>4. v.source = "vehicle" /\ ~SelfCopies => v.from # v.name
  BY DEF SelfCopies, ToSet
<1>. HIDE DEF v
<1>5. v.source = "simulator" => v.from \in SimulatorIds
  BY <1>1, <1>2, <1>3 DEF SimulatorIds
<1>6. v.source = "vehicle" /\ ~SelfCopies => v.from \in DOMAIN vehicles
  <2>. SUFFICES ASSUME v.source = "vehicle", ~SelfCopies PROVE v.from \in NamesTo(next - 1)
    BY <1>3
  <2>1. PICK j \in 1 .. next : stack.vehicles[j].name = v.from
    BY <1>2
  <2>2. j # next
    BY <1>4, <2>1 DEF v
  <2>. QED  BY <1>1, <2>1, <2>2 DEF NamesTo
<1>. QED  BY <1>2, <1>5, <1>6 DEF v

\* One more vehicle in the list, one more name.
LEMMA NextName ==
  ASSUME NEW n \in Nat \ {0}
  PROVE  NamesTo(n) = NamesTo(n - 1) \cup {stack.vehicles[n].name}
<1>1. 1 .. n = (1 .. n - 1) \cup {n}
  OBVIOUS
<1>. QED  BY <1>1 DEF NamesTo

\* What a step of the loops over vehicles and components has to keep.
LEMMA PassInv ==
  ASSUME ConnectInv, phase = "vehicles", UNCHANGED <<stackVars, simulators, controllers>>,
         next' \in 1 .. Len(stack.vehicles) + 1,
         DOMAIN vehicles' \subseteq NamesTo(Len(stack.vehicles)),
         \A b \in building' : /\ next' <= Len(stack.vehicles)
                              /\ "conf" \in DOMAIN b /\ b.conf = stack.vehicles[next'],
         ~SelfCopies => before' = 0 /\ DOMAIN vehicles' = NamesTo(next' - 1)
  PROVE  ConnectInv'
<1>1. SelfCopies' = SelfCopies /\ phase' = "vehicles" /\ stack' = stack
  BY DEF SelfCopies, stackVars
<1>2. \A n : NamesTo(n)' = NamesTo(n)
  BY <1>1 DEF NamesTo
<1>3. ~SelfCopies => InOrder'
  <2>. SUFFICES ASSUME ~SelfCopies PROVE InOrder'
    OBVIOUS
  <2>1. (DOMAIN vehicles = NamesTo(next - 1))'
    BY <1>1 DEF NamesTo
  <2>. QED  BY <1>1, <2>1 DEF InOrder
<1>4. Passing'
  BY <1>1, <1>2 DEF Passing
<1>5. Connecting'
  BY <1>1, <1>3, <1>4, WhileConnecting DEF Connecting, Loaded
<1>. QED  BY <1>5, MergeOver DEF stackVars

LEMMA NewVehicleInv ==
  ASSUME ConnectInv, NewVehicle
  PROVE  ConnectInv'
<1>. DEFINE v == stack.vehicles[next]
<1>1. phase = "vehicles" /\ building = {} /\ next <= Len(stack.vehicles)
  BY DEF NewVehicle
<1>2. Connecting /\ Len(stack.vehicles) \in Nat /\ DOMAIN stack.vehicles = 1 .. Len(stack.vehicles)
  BY <1>1, WhileConnecting
<1>3. /\ next \in DOMAIN stack.vehicles /\ next \in Nat \ {0}
      /\ next + 1 \in 1 .. Len(stack.vehicles) + 1
      /\ DOMAIN vehicles \subseteq NamesTo(Len(stack.vehicles))
      /\ ~SelfCopies => before = 0 /\ DOMAIN vehicles = NamesTo(next - 1)
  BY <1>1, <1>2 DEF Connecting, Passing, InOrder
<1>4. /\ ~SelfCopies => Prototype(v) # {}
      /\ v.source = "simulator" => v.from \in SimulatorIds
  BY <1>1, <1>3, SourceThere DEF Prototype
<1>6. CASE /\ v.name \in DOMAIN vehicles \/ Prototype(v) = {}
           /\ next' = next + 1
           /\ UNCHANGED <<stackVars, simulators, vehicles, controllers, before, building>>
  <2>1. ~SelfCopies => DOMAIN vehicles' = NamesTo(next' - 1)
    <3>. SUFFICES ASSUME ~SelfCopies PROVE DOMAIN vehicles' = NamesTo(next' - 1)
      OBVIOUS
    <3>1. NamesTo(next) = NamesTo(next - 1) \cup {v.name}
      BY <1>3, NextName
    <3>2. next' - 1 = next
      BY <1>3, <1>6
    <3>3. DOMAIN vehicles = NamesTo(next)
      BY <1>3, <1>4, <1>6, <3>1
    <3>. QED  BY <1>6, <3>2, <3>3
  <2>. QED  BY <1>1, <1>3, <1>6, <2>1, PassInv
<1>7. CASE /\ building' = {[conf |-> v, parts |-> p, done |-> {}, next |-> 1, before |-> 0] :
                             p \in Prototype(v)}
           /\ UNCHANGED <<stackVars, simulators, vehicles, controllers, next, before>>
  <2>1. \A b \in building' : "conf" \in DOMAIN b /\ b.conf = v
    BY <1>7
  <2>2. next \in 1 .. Len(stack.vehicles) + 1
    BY <1>2, <1>3
  <2>. QED  BY <1>1, <1>3, <1>7, <2>1, <2>2, PassInv
<1>8. CASE /\ v.source = "simulator"
           /\ Leave(IF v.from \in SimulatorIds THEN "aborted" ELSE "uncaught")
           /\ UNCHANGED connectVars
  BY <1>1, <1>4, <1>8, LeaveInv DEF Leave
<1>. QED  BY <1>6, <1>7, <1>8 DEF NewVehicle

\* The vehicle under construction.
LEMMA UnderConstruction ==
  ASSUME ConnectInv, phase = "vehicles", NEW b \in building
  PROVE  /\ next \in Nat \ {0} /\ next \in 1 .. Len(stack.vehicles) + 1
         /\ next + 1 \in 1 .. Len(stack.vehicles) + 1
         /\ next \in 1 .. Len(stack.vehicles) /\ next <= Len(stack.vehicles)
         /\ DOMAIN vehicles \subseteq NamesTo(Len(stack.vehicles))
         /\ "conf" \in DOMAIN b /\ b.conf = stack.vehicles[next]
         /\ ~SelfCopies => before = 0 /\ DOMAIN vehicles = NamesTo(next - 1)
BY WhileConnecting DEF Connecting, Passing, InOrder

LEMMA NewComponentInv ==
  ASSUME ConnectInv, NewComponent
  PROVE  ConnectInv'
<1>1. phase = "vehicles"
  BY DEF NewComponent
<1>2. CASE ModelError
  BY <1>1, <1>2, LeaveInv DEF ModelError, Leave
<1>3. CASE ~ModelError
  <2>1. PICK b \in building :
          /\ UNCHANGED <<stackVars, simulators, vehicles, controllers, next, before>>
          /\ \/ building' = {[b EXCEPT !.next = @ + 1]}
             \/ building' = {[b EXCEPT !.next = @ + 1,
                  !.done = @ \cup {b.conf.components[b.next].key},
                  !.parts = [k \in DOMAIN @ \cup {b.conf.components[b.next].key} |->
                               IF k = b.conf.components[b.next].key
                               THEN <<b.conf.name, b.conf.components[b.next].id>> ELSE @[k]]]}
    BY <1>3 DEF NewComponent
  <2>2. "conf" \in DOMAIN b => \A c \in building' : "conf" \in DOMAIN c /\ c.conf = b.conf
    BY <2>1
  <2>. QED  BY <1>1, <2>1, <2>2, UnderConstruction, PassInv
<1>. QED  BY <1>2, <1>3

LEMMA ComponentsPassedInv ==
  ASSUME ConnectInv, ComponentsPassed
  PROVE  ConnectInv'
<1>1. phase = "vehicles"
  BY DEF ComponentsPassed
<1>2. CASE ModelError
  BY <1>1, <1>2, LeaveInv DEF ModelError, Leave
<1>3. ASSUME NEW b \in building, building' = {[b EXCEPT !.next = 1, !.before = Cardinality(b.done)]},
             UNCHANGED <<stackVars, simulators, vehicles, controllers, next, before>>
      PROVE  ConnectInv'
  <2>1. "conf" \in DOMAIN b => \A c \in building' : "conf" \in DOMAIN c /\ c.conf = b.conf
    BY <1>3
  <2>. QED  BY <1>1, <1>3, <2>1, UnderConstruction, PassInv
<1>4. ASSUME NEW b \in building, building' = {}, next' = next + 1,
             DOMAIN vehicles' = DOMAIN vehicles \cup {b.conf.name},
             UNCHANGED <<stackVars, simulators, controllers, before>>
      PROVE  ConnectInv'
  <2>1. ASSUME ~SelfCopies
        PROVE  before' = 0 /\ DOMAIN vehicles' = NamesTo(next' - 1)
    <3>1. /\ next \in Nat \ {0} /\ before = 0
          /\ DOMAIN vehicles = NamesTo(next - 1) /\ b.conf = stack.vehicles[next]
      BY <1>1, <2>1, UnderConstruction
    <3>2. NamesTo(next) = NamesTo(next - 1) \cup {stack.vehicles[next].name}
      BY <3>1, NextName
    <3>3. next' - 1 = next
      BY <1>4, <3>1
    <3>. QED  BY <1>4, <3>1, <3>2, <3>3
  <2>2. /\ next' \in 1 .. Len(stack.vehicles) + 1
        /\ DOMAIN vehicles' \subseteq NamesTo(Len(stack.vehicles))
    <3>1. b.conf.name \in NamesTo(Len(stack.vehicles))
      BY <1>1, UnderConstruction DEF NamesTo
    <3>. QED  BY <1>1, <1>4, <3>1, UnderConstruction
  <2>. QED  BY <1>1, <1>4, <2>1, <2>2, PassInv
<1>. QED  BY <1>2, <1>3, <1>4 DEF ComponentsPassed

\* As many vehicles as there are names of vehicles: all of them.
LEMMA AllMade ==
  ASSUME StackType, Consistent(stack), DOMAIN vehicles \subseteq NamesTo(Len(stack.vehicles)),
         Cardinality(DOMAIN vehicles) = Len(stack.vehicles)
  PROVE  DOMAIN vehicles = NamesTo(Len(stack.vehicles))
BY AllNames, FS_Subset

\* The end of a pass: all vehicles are there, or another one follows.
LEMMA VehiclesPassedInv ==
  ASSUME ConnectInv, VehiclesPassed
  PROVE  ConnectInv'
<1>1. phase = "vehicles" /\ building = {} /\ next > Len(stack.vehicles)
  BY DEF VehiclesPassed
<1>2. /\ Connecting /\ StackType /\ Consistent(stack) /\ Len(stack.vehicles) \in Nat
      /\ Len(stack.controllers) \in Nat
      /\ DOMAIN vehicles \subseteq NamesTo(Len(stack.vehicles))
  BY <1>1, WhileConnecting DEF Connecting, Passing
<1>3. ASSUME ~SelfCopies
      PROVE  Cardinality(DOMAIN vehicles) = Len(stack.vehicles)
  <2>1. next = Len(stack.vehicles) + 1 /\ DOMAIN vehicles = NamesTo(next - 1)
    BY <1>1, <1>2, <1>3 DEF Connecting, Passing, InOrder
  <2>. QED  BY <1>2, <2>1, AllNames
<1>4. CASE /\ Cardinality(DOMAIN vehicles) = Len(stack.vehicles)
           /\ Leave("controllers") /\ UNCHANGED connectVars
  <2>1. SelfCopies' = SelfCopies /\ phase' = "controllers" /\ stack' = stack
    BY <1>4 DEF SelfCopies, Leave
  <2>2. Passing' /\ InOrder'
    <3>1. (DOMAIN vehicles = NamesTo(Len(stack.vehicles)))'
      BY <1>2, <1>4, <2>1, AllMade DEF NamesTo, connectVars
    <3>. QED  BY <2>1, <3>1 DEF Passing, InOrder
  <2>3. Connecting'
    BY <1>1, <1>2, <1>4, <2>1, <2>2 DEF Connecting, Loaded, connectVars
  <2>. QED  BY <1>1, <1>4, <2>3, MergeOver DEF Leave
<1>5. CASE /\ Cardinality(DOMAIN vehicles) # Len(stack.vehicles) /\ next' = 1
           /\ UNCHANGED <<stackVars, simulators, vehicles, controllers, building>>
  <2>1. next' \in 1 .. Len(stack.vehicles) + 1
    BY <1>2, <1>5
  <2>. QED  BY <1>1, <1>2, <1>3, <1>5, <2>1, PassInv
<1>6. CASE ModelError
  BY <1>1, <1>6, LeaveInv DEF ModelError, Leave
<1>. QED  BY <1>4, <1>5, <1>6 DEF VehiclesPassed

\* The vehicle of a controller has been checked too.
LEMMA ControllersInv ==
  ASSUME ConnectInv, NewController \/ ControllersDone
  PROVE  ConnectInv'
<1>1. phase = "controllers"
  BY DEF NewController, ControllersDone
<1>2. /\ Connecting /\ StackType /\ Consistent(stack) /\ Len(stack.controllers) \in Nat
      /\ DOMAIN stack.controllers = 1 .. Len(stack.controllers)
      /\ DOMAIN stack.vehicles = 1 .. Len(stack.vehicles)
  BY <1>1, WhileConnecting
<1>3. CASE ControllersDone
  BY <1>1, <1>3, LeaveInv DEF ControllersDone, Leave
<1>4. CASE NewController
  <2>. DEFINE x == stack.controllers[controllers + 1]
  <2>1. controllers \in Nat /\ controllers + 1 \in 1 .. Len(stack.controllers)
    BY <1>1, <1>2, <1>4 DEF Connecting, NewController
  <2>2. x.vehicle \in DOMAIN vehicles
    <3>. SUFFICES x.vehicle \in NamesTo(Len(stack.vehicles))
      BY <1>1, <1>2 DEF Connecting, Passing
    <3>1. x \in ToSet(stack.controllers)
      BY <1>2, <2>1 DEF ToSet
    <3>2. PICK v \in ToSet(stack.vehicles) : v.name = x.vehicle
      BY <1>2, <3>1 DEF Consistent
    <3>. QED  BY <1>2, <3>2 DEF ToSet, NamesTo
  <2>3. CASE /\ controllers' = controllers + 1
             /\ UNCHANGED <<stackVars, simulators, vehicles, next, before, building>>
    <3>1. SelfCopies' = SelfCopies /\ (Passing => Passing') /\ InOrder'
      BY <1>1, <2>3 DEF SelfCopies, Passing, InOrder, NamesTo, stackVars
    <3>2. Connecting'
      BY <1>1, <1>2, <2>1, <2>3, <3>1 DEF Connecting, Loaded, stackVars
    <3>. QED  BY <1>1, <2>3, <3>2, MergeOver DEF stackVars
  <2>4. CASE /\ Leave(IF x.vehicle \in DOMAIN vehicles THEN "aborted" ELSE "uncaught")
             /\ UNCHANGED connectVars
    BY <1>1, <2>2, <2>4, LeaveInv DEF Leave
  <2>. QED  BY <1>4, <2>3, <2>4 DEF NewController
<1>. QED  BY <1>3, <1>4

LEMMA StutterInv ==
  ASSUME ConnectInv, UNCHANGED vars
  PROVE  ConnectInv'
<1>1. MergeInv'
  <2>. USE DEF vars, stackVars
  <2>. QED  BY DEF ConnectInv, MergeInv, Files, Plugged, Calls, Nested, Loaded, StackType, Applied,
       Checked, Merged, Own, Gives
<1>2. Connecting'
  BY DEF ConnectInv, Connecting, Loaded, SelfCopies, Passing, InOrder, NamesTo, vars, stackVars,
         connectVars
<1>. QED  BY <1>1, <1>2 DEF ConnectInv

LEMMA NextInv ==
  ASSUME ConnectInv, [Next]_vars
  PROVE  ConnectInv'
BY MergingInv, SimulatorsInv, NewVehicleInv, NewComponentInv, ComponentsPassedInv,
   VehiclesPassedInv, ControllersInv, StutterInv DEF Next

-----------------------------------------------------------------------------
(* The theorems.                                                           *)

(* Whatever the files say, ConnectInv holds: a call of from_conf that has   *)
(* begun keeps the sections that are its own, a configuration that has      *)
(* been merged has been checked, and vehicles are created in their order.   *)
THEOREM Inductive == Spec => []ConnectInv
<1>1. ConnectInit => ConnectInv
  BY InitConnect
<1>2. ConnectInv /\ [Next]_vars => ConnectInv'
  BY NextInv
<1>. QED  BY <1>1, <1>2, PTL DEF Spec

(* Whatever the last file of the command line says of the simulation holds *)
(* in the end (ApplyRest after the includes, stack.cpp).                    *)
THEOREM OwnWinsHolds == Spec => []OwnWins
<1>1. ConnectInv => OwnWins
  <2>. SUFFICES ASSUME ConnectInv, Loaded PROVE OwnWins
    BY DEF OwnWins
  <2>1. merged = Len(args) /\ Own(args[merged])
    BY DEF ConnectInv, MergeInv, Nested, Applied, Merged, Loaded
  <2>. QED  BY <2>1 DEF OwnWins, Own, LastFile
<1>. QED  BY <1>1, Inductive, PTL

(* A configuration that has been checked never ends the run by an exception *)
(* that is no ModelError, and no pass over its vehicles is in vain unless   *)
(* one of them is a copy of itself (simulation_state_connect.cpp).          *)
THEOREM ConsistentConnectsHolds == Spec => []ConsistentConnects
<1>1. ConnectInv => ConsistentConnects
  <2>. SUFFICES ASSUME ConnectInv PROVE ConsistentConnects
    OBVIOUS
  <2>1. phase # "uncaught"
    BY DEF ConnectInv, Connecting, Passing
  <2>2. ASSUME Stuck, ~SelfCopies PROVE FALSE
    <3>1. /\ phase = "vehicles" /\ next > Len(stack.vehicles)
          /\ Cardinality(DOMAIN vehicles) = before /\ before # Len(stack.vehicles)
      BY <2>2 DEF Stuck
    <3>2. /\ Connecting /\ StackType /\ Consistent(stack) /\ Len(stack.vehicles) \in Nat
      BY <3>1, WhileConnecting
    <3>3. next = Len(stack.vehicles) + 1 /\ DOMAIN vehicles = NamesTo(next - 1)
      BY <2>2, <3>1, <3>2 DEF Connecting, Passing, InOrder
    <3>. QED  BY <3>1, <3>2, <3>3, AllNames
  <2>. QED  BY <2>1, <2>2 DEF ConsistentConnects, SelfCopies
<1>. QED  BY <1>1, Inductive, PTL

-----------------------------------------------------------------------------
(* What the plugin path holds is not hidden.                                *)

\* A list of plugins is gone through as it was read, its directories opened.
Asked ==
  \A i \in DOMAIN frames :
    frames[i].pc = "plugins" => \A j \in DOMAIN frames[i].todo : Listed(frames[i].todo[j].path)

\* A plugin that its name stands for.
Stands(p) == LET names == prototype[Library[p].type]
             IN Library[p].name \in DOMAIN names /\ names[Library[p].name] = p

Seen == phase # "failed" /\ ~LeaveGiven =>
          \A p \in loaded \ BuiltInPaths : Listed(p) \/ Stands(p)

\* Only a file gives leave to ignore failures.
Strict == "ignore_failure" \in DOMAIN stack.engine /\ (stack.engine.ignore_failure => LeaveGiven)

HiddenInv == stack.plugins \in Seq(PluginConf) /\ Asked /\ Seen /\ Strict

\* What was listed stays so.
LEMMA ListedKept ==
  ASSUME stack'.plugins = stack.plugins, NEW p
  PROVE  Listed(p)' = Listed(p)
BY DEF Listed

\* The innermost call goes on with something else to go through.
LEMMA AskedOn ==
  ASSUME MergeInv, Asked, frames # <<>>, NEW x, frames' = Becomes(x),
         \A p : Listed(p) => Listed(p)',
         \A p : x.pc = "plugins" /\ (\E j \in DOMAIN x.todo : p = x.todo[j].path) => Listed(p)'
  PROVE  Asked'
<1>1. /\ Len(frames) \in Nat \ {0} /\ DOMAIN frames = 1 .. Len(frames)
  BY DEF MergeInv, Calls
<1>2. /\ DOMAIN frames' = DOMAIN frames
      /\ \A i \in DOMAIN frames : frames'[i] = IF i = Len(frames) THEN x ELSE frames[i]
  BY <1>1 DEF Becomes
<1>3. ASSUME NEW i \in DOMAIN frames, frames'[i].pc = "plugins", NEW p,
             NEW j \in DOMAIN frames'[i].todo, p = frames'[i].todo[j].path
      PROVE  Listed(p)'
  <2>1. CASE i = Len(frames)
    BY <1>2, <1>3, <2>1
  <2>2. CASE i # Len(frames)
    BY <1>2, <1>3, <2>2 DEF Asked
  <2>. QED  BY <2>1, <2>2
<1>. QED  BY <1>2, <1>3 DEF Asked

\* A step that loads no plugin and sets nothing.
LEMMA HiddenOn ==
  ASSUME HiddenInv, UNCHANGED <<disk, loaded, prototype>>, Asked',
         stack'.engine = stack.engine, stack'.plugins = stack.plugins,
         phase = "failed" => phase' = "failed"
  PROVE  HiddenInv'
<1>1. \A p : Listed(p)' = Listed(p)
  BY ListedKept
<1>2. LeaveGiven' = LeaveGiven /\ \A p : Stands(p)' = Stands(p)
  BY DEF LeaveGiven, Gives, Stands
<1>3. Seen'
  BY <1>1, <1>2 DEF HiddenInv, Seen
<1>4. Strict'
  BY <1>2 DEF HiddenInv, Strict
<1>. QED  BY <1>3, <1>4 DEF HiddenInv

LEMMA NoCalls ==
  ASSUME frames' = <<>>
  PROVE  Asked'
BY DEF Asked

\* Files are read and calls are made, but nothing is listed or loaded.
LEMMA CallsHidden ==
  ASSUME MergeInv, HiddenInv, MergeNext \/ RejectVersion \/ IncludeNext \/ IncludesDone \/ ScanNext
  PROVE  HiddenInv'
<1>1. /\ UNCHANGED <<disk, loaded, prototype, stack>>
      /\ phase = "failed" => phase' = "failed"
  BY DEF MergeNext, RejectVersion, IncludeNext, IncludesDone, ScanNext, ScanWith, At, Throw
<1>2. \A p : Listed(p) => Listed(p)'
  BY <1>1, ListedKept
<1>3. Asked'
  <2>1. CASE frames' = <<>>
    BY <2>1, NoCalls
  <2>2. CASE MergeNext /\ frames' # <<>>
    <3>1. frames' = <<Frame(args[merged + 1], 0)>>
      BY <2>2 DEF MergeNext, Throw
    <3>. QED  BY <3>1 DEF Asked, Frame
  <2>3. CASE IncludeNext /\ frames' # <<>>
    <3>. DEFINE x == [Top EXCEPT !.todo = Tail(@)]
                y == Frame(Head(Top.todo), Top.depth + 1)
                b == Becomes(x)
    <3>1. frames # <<>> /\ Top.pc = "include" /\ frames' = Append(b, y)
      BY <2>3 DEF IncludeNext, At, Throw
    <3>2. /\ Len(frames) \in Nat \ {0} /\ DOMAIN frames = 1 .. Len(frames)
          /\ frames \in Seq(FrameType) /\ Top \in FrameType
      BY <3>1, TopCall DEF MergeInv, Calls
    <3>3. x.pc = "include" /\ y.pc = "begin"
      BY <3>1, <3>2 DEF Frame, FrameType
    <3>. HIDE DEF x, y
    <3>4. /\ DOMAIN b = DOMAIN frames /\ Len(b) = Len(frames)
          /\ \A i \in DOMAIN frames : b[i] = IF i = Len(frames) THEN x ELSE frames[i]
      BY <3>2 DEF Becomes
    <3>5. b \in Seq({x} \cup FrameType)
      BY <3>2 DEF Becomes
    <3>. HIDE DEF b
    <3>6. /\ DOMAIN frames' = 1 .. Len(frames) + 1
          /\ \A i \in DOMAIN frames' : frames'[i] = IF i = Len(frames) + 1 THEN y ELSE b[i]
      BY <3>1, <3>2, <3>4, <3>5
    <3>7. ASSUME NEW i \in DOMAIN frames', frames'[i].pc = "plugins"
          PROVE  i \in DOMAIN frames /\ frames'[i] = frames[i]
      BY <3>2, <3>3, <3>4, <3>6, <3>7
    <3>. QED  BY <1>2, <3>7 DEF HiddenInv, Asked
  <2>4. CASE IncludesDone
    <3>1. frames # <<>> /\ frames' = Becomes([Top EXCEPT !.pc = "scan"]) /\ Top \in FrameType
      BY <2>4, TopCall DEF IncludesDone, At
    <3>2. [Top EXCEPT !.pc = "scan"].pc = "scan"
      BY <3>1 DEF FrameType
    <3>. QED  BY <1>2, <3>1, <3>2, AskedOn DEF HiddenInv
  <2>5. CASE ScanNext
    <3>1. PICK todo : frames' = Becomes([Top EXCEPT !.todo = todo])
      BY <2>5 DEF ScanNext, ScanWith
    <3>2. frames # <<>> /\ Top.pc = "scan" /\ Top \in FrameType
      BY <2>5, TopCall DEF ScanNext, ScanWith, At
    <3>3. [Top EXCEPT !.todo = todo].pc = "scan"
      BY <3>2 DEF FrameType
    <3>. QED  BY <1>2, <3>1, <3>2, <3>3, AskedOn DEF HiddenInv
  <2>6. CASE RejectVersion
    BY <2>6, NoCalls DEF RejectVersion, Throw
  <2>. QED  BY <2>1, <2>2, <2>3, <2>4, <2>5, <2>6
<1>. QED  BY <1>1, <1>3, HiddenOn
\* The engine section of a file.
LEMMA BeginHidden ==
  ASSUME MergeInv, HiddenInv, BeginConf
  PROVE  HiddenInv'
<1>. DEFINE c     == Content(Top.file)
            given == IF "engine" \in DOMAIN c THEN c["engine"] ELSE <<>>
            ignore == stack.ignore \cup (IF "ignore" \in DOMAIN given THEN given["ignore"] ELSE {})
            left  == Unignored(c, ignore)
            new   == Section(c, left, "include")
            x     == [Top EXCEPT !.left = left \ {"engine", "include"}, !.pc = "include", !.todo = new]
<1>1. /\ frames # <<>> /\ frames' = Becomes(x)
      /\ UNCHANGED <<disk, loaded, prototype, phase>>
      /\ stack' = [stack EXCEPT !.ignore = ignore,
                    !.engine = IF "engine" \in left THEN Overlay(@, given) ELSE @,
                    !.include = @ \o new]
  BY DEF BeginConf, At
<1>2. Top \in FrameType /\ c = ContentOn(disk, Top.file) /\ Call(Top, disk, stack.ignore)
  BY <1>1, TopCall
<1>3. x.pc = "include"
  BY <1>2 DEF FrameType
<1>4. /\ stack'.plugins = stack.plugins
      /\ stack'.engine = IF "engine" \in left THEN Overlay(stack.engine, given) ELSE stack.engine
  BY <1>1 DEF MergeInv, StackType, EmptyStack
<1>. HIDE DEF x, left, new, ignore
<1>5. \A p : Listed(p)' = Listed(p)
  BY <1>4, ListedKept
<1>6. Asked'
  BY <1>1, <1>3, <1>5, AskedOn DEF HiddenInv
<1>7. LeaveGiven' = LeaveGiven /\ \A p : Stands(p)' = Stands(p)
  BY <1>1 DEF LeaveGiven, Gives, Stands
<1>8. Seen'
  BY <1>1, <1>5, <1>7 DEF HiddenInv, Seen
<1>9. ASSUME "ignore_failure" \in DOMAIN given, given["ignore_failure"]
      PROVE  LeaveGiven
  <2>1. "engine" \in DOMAIN c /\ given = c["engine"]
    BY <1>9
  <2>2. Top.file \in DOMAIN disk /\ c = disk[Top.file]
    BY <1>2, <2>1 DEF ContentOn, InitialConf, Call
  <2>3. Top.file \in File
    BY <2>2, DisksWellFormed DEF MergeInv, Files
  <2>4. /\ Gives(Top.file, "engine", "ignore_failure")
        /\ disk[Top.file]["engine"]["ignore_failure"]
    BY <1>9, <2>1, <2>2 DEF Gives
  <2>. QED  BY <2>3, <2>4 DEF LeaveGiven
<1>. HIDE DEF given
<1>10. Strict'
  <2>1. "ignore_failure" \in DOMAIN stack'.engine
    BY <1>4 DEF HiddenInv, Strict, Overlay
  <2>2. \/ stack'.engine.ignore_failure = stack.engine.ignore_failure
        \/ /\ "ignore_failure" \in DOMAIN given
           /\ stack'.engine.ignore_failure = given["ignore_failure"]
    BY <1>4 DEF HiddenInv, Strict, Overlay
  <2>3. stack.engine.ignore_failure => LeaveGiven
    BY DEF HiddenInv, Strict
  <2>. QED  BY <1>7, <1>9, <2>1, <2>2, <2>3 DEF Strict
<1>. QED  BY <1>4, <1>6, <1>8, <1>10 DEF HiddenInv

\* The plugins that a file lists.
LEMMA ListHidden ==
  ASSUME MergeInv, HiddenInv, ListPlugins
  PROVE  HiddenInv'
<1>. DEFINE new == Section(Content(Top.file), Top.left, "plugins")
            x == [Top EXCEPT !.pc = "plugins", !.todo = new]
<1>1. /\ frames # <<>> /\ frames' = Becomes(x)
      /\ stack' = [stack EXCEPT !.plugins = @ \o new]
      /\ UNCHANGED <<disk, loaded, prototype, phase>>
  BY DEF ListPlugins, At
<1>2. Top \in FrameType /\ new \in Seq(PluginConf)
  BY <1>1, TopCall, SectionType DEF Call
<1>3. x.todo = new
  BY <1>2 DEF FrameType
<1>. HIDE DEF new, x
<1>4. stack'.plugins = stack.plugins \o new /\ stack'.engine = stack.engine
  BY <1>1 DEF MergeInv, StackType, EmptyStack
<1>5. /\ stack'.plugins \in Seq(PluginConf)
      /\ ToSet(stack'.plugins) = ToSet(stack.plugins) \cup ToSet(new)
  <2>1. stack.plugins \in Seq(PluginConf)
    BY DEF HiddenInv
  <2>. HIDE DEF PluginConf
  <2>2. \A i \in DOMAIN new : new[i] = stack'.plugins[i + Len(stack.plugins)]
                             /\ i + Len(stack.plugins) \in DOMAIN stack'.plugins
    BY <1>2, <1>4, <2>1
  <2>3. \A i \in DOMAIN stack.plugins : /\ stack.plugins[i] = stack'.plugins[i]
                                       /\ i \in DOMAIN stack'.plugins
    BY <1>2, <1>4, <2>1
  <2>4. \A i \in DOMAIN stack'.plugins :
           \/ i \in DOMAIN stack.plugins /\ stack'.plugins[i] = stack.plugins[i]
           \/ i - Len(stack.plugins) \in DOMAIN new
              /\ stack'.plugins[i] = new[i - Len(stack.plugins)]
    BY <1>2, <1>4, <2>1
  <2>5. stack'.plugins \in Seq(PluginConf)
    BY <1>2, <1>4, <2>1
  <2>6. /\ \A p \in ToSet(new) : p \in ToSet(stack'.plugins)
        /\ \A p \in ToSet(stack.plugins) : p \in ToSet(stack'.plugins)
    BY <2>2, <2>3 DEF ToSet
  <2>7. \A p \in ToSet(stack'.plugins) : p \in ToSet(stack.plugins) \cup ToSet(new)
    BY <2>4 DEF ToSet
  <2>. QED  BY <2>5, <2>6, <2>7
<1>6. \A p : Listed(p) => Listed(p)'
  BY <1>5 DEF Listed
<1>7. ASSUME NEW p, \E j \in DOMAIN new : p = new[j].path
      PROVE  Listed(p)'
  BY <1>5, <1>7 DEF Listed, ToSet
<1>8. Asked'
  BY <1>1, <1>3, <1>6, <1>7, AskedOn DEF HiddenInv
<1>9. LeaveGiven' = LeaveGiven /\ \A p : Stands(p)' = Stands(p)
  BY <1>1 DEF LeaveGiven, Gives, Stands
<1>10. Seen' /\ Strict'
  BY <1>1, <1>4, <1>6, <1>9 DEF HiddenInv, Seen, Strict
<1>. QED  BY <1>5, <1>8, <1>10 DEF HiddenInv

\* The plugins of a directory that is listed are listed.
LEMMA OpenHidden ==
  ASSUME MergeInv, HiddenInv, OpenPath
  PROVE  HiddenInv'
<1>. DEFINE c == Head(Top.todo)
<1>1. /\ UNCHANGED <<disk, loaded, prototype, stack>> /\ Loading
      /\ phase = "failed" => phase' = "failed"
  BY DEF OpenPath, Throw
<1>2. CASE Throw
  BY <1>1, <1>2, NoCalls, HiddenOn DEF Throw
<1>3. CASE ~Throw
  <2>1. PICK todo : /\ frames' = Becomes([Top EXCEPT !.todo = todo])
                    /\ c.path \notin DOMAIN Library
                    /\ \/ \E files \in Listing(c) : c.path \in DOMAIN Directory /\ todo = files \o Tail(Top.todo)
                       \/ todo = Tail(Top.todo)
    BY <1>1, <1>3, TodoType DEF OpenPath, Skip, FrameType
  <2>2. /\ frames # <<>> /\ Top \in FrameType /\ Top.todo # <<>> /\ Len(frames) \in DOMAIN frames
        /\ Call(Top, disk, stack.ignore)
    BY <1>1, TodoType, TopCall DEF Loading
  <2>3. [Top EXCEPT !.todo = todo].pc = Top.pc /\ [Top EXCEPT !.todo = todo].todo = todo
    BY <2>2 DEF FrameType
  <2>4. ASSUME Top.pc = "plugins", NEW j \in DOMAIN todo
        PROVE  Listed(todo[j].path)
    <3>1. /\ Top.todo \in Seq(PluginConf) /\ c \in PluginConf
          /\ \A l \in DOMAIN Top.todo : Listed(Top.todo[l].path)
      BY <2>2, <2>4 DEF Call, HiddenInv, Asked, Top
    <3>. HIDE DEF PluginConf
    <3>2. /\ c = Top.todo[1] /\ 1 \in DOMAIN Top.todo
          /\ Tail(Top.todo) \in Seq(PluginConf)
          /\ \A l \in DOMAIN Tail(Top.todo) : /\ Tail(Top.todo)[l] = Top.todo[l + 1]
                                             /\ l + 1 \in DOMAIN Top.todo
      BY <2>2, <3>1
    <3>3. \A l \in DOMAIN Tail(Top.todo) : Listed(Tail(Top.todo)[l].path)
      BY <3>1, <3>2
    <3>4. ASSUME NEW files \in Listing(c), c.path \in DOMAIN Directory, todo = files \o Tail(Top.todo)
          PROVE  Listed(todo[j].path)
      <4>1. files \in Seq(PluginConf) /\ \A l \in DOMAIN files : files[l].path \in Directory[c.path]
        BY <3>1, <3>4, ListingType, ListingPaths
      <4>2. Listed(c.path)
        BY <3>1, <3>2
      <4>3. \A p \in Directory[c.path] : Listed(p)
        BY <2>1, <3>4, <4>2, FilesAssumption DEF Listed
      <4>4. \/ j \in DOMAIN files /\ todo[j] = files[j]
            \/ /\ j - Len(files) \in DOMAIN Tail(Top.todo)
               /\ todo[j] = Tail(Top.todo)[j - Len(files)]
        BY <2>4, <3>2, <3>4, <4>1
      <4>. QED  BY <3>3, <4>1, <4>3, <4>4
    <3>. QED  BY <2>1, <2>4, <3>3, <3>4
  <2>5. \A p : Listed(p)' = Listed(p)
    BY <1>1, ListedKept
  <2>6. Asked'
    BY <2>1, <2>2, <2>3, <2>4, <2>5, AskedOn DEF HiddenInv
  <2>. QED  BY <1>1, <2>6, HiddenOn
<1>. QED  BY <1>2, <1>3
\* A plugin is loaded: under its name, as one that is listed, or the run fails.
LEMMA InsertHidden ==
  ASSUME MergeInv, HiddenInv, InsertPlugin
  PROVE  HiddenInv'
<1>. DEFINE c == Head(Top.todo)
            lib == Library[c.path]
            name == ValueOr(c.name, lib.name)
            taken == name \in DOMAIN prototype[lib.type]
            refused == ~lib.good \/ (c.path \notin loaded /\ taken /\ ~Clobbers(c))
            ignored == ValueOr(c.failure, stack.engine.ignore_failure)
            keeps == refused \/ taken \/ c.path \in loaded
<1>1. /\ Loading /\ c.path \in DOMAIN Library /\ UNCHANGED <<disk, stack>>
      /\ loaded' = IF lib.good THEN loaded \cup {c.path} ELSE loaded
      /\ prototype' = IF keeps THEN prototype
                      ELSE [prototype EXCEPT ![lib.type] =
                              [n \in DOMAIN @ \cup {name} |-> IF n = name THEN c.path ELSE @[n]]]
      /\ IF refused /\ ~ignored THEN phase' = "failed" /\ frames' = <<>>
         ELSE Skip /\ UNCHANGED phase
  BY DEF InsertPlugin
<1>2. /\ frames # <<>> /\ phase = "load" /\ Top \in FrameType /\ Top.todo # <<>>
      /\ Top.pc \in {"scan", "plugins"} /\ Call(Top, disk, stack.ignore)
      /\ Len(frames) \in DOMAIN frames
  BY <1>1, TodoType, TopCall DEF Loading
<1>3. /\ \A p : Listed(p)' = Listed(p)
      /\ LeaveGiven' = LeaveGiven
  BY <1>1, ListedKept DEF LeaveGiven, Gives
<1>4. Top.pc = "scan" => c.name = {} /\ c.failure = {} /\ c.clobber = {FALSE}
  BY <1>1, TodoType DEF ScanConf
<1>5. Top.pc = "plugins" => /\ \A j \in DOMAIN Top.todo : Listed(Top.todo[j].path)
                            /\ Top.todo \in Seq(PluginConf)
  BY <1>2 DEF HiddenInv, Asked, Top, Call
<1>6. Top.pc = "plugins" => Listed(c.path)
  BY <1>2, <1>5
<1>7. Asked'
  <2>1. CASE Skip
    <3>1. /\ [Top EXCEPT !.todo = Tail(@)].pc = Top.pc
          /\ [Top EXCEPT !.todo = Tail(@)].todo = Tail(Top.todo)
      BY <1>2 DEF FrameType
    <3>2. Top.pc = "plugins" =>
            \A j \in DOMAIN Tail(Top.todo) : Listed(Tail(Top.todo)[j].path)
      <4>. HIDE DEF PluginConf
      <4>. QED  BY <1>2, <1>5
    <3>. QED  BY <1>2, <1>3, <2>1, <3>1, <3>2, AskedOn DEF Skip, HiddenInv
  <2>2. CASE frames' = <<>>
    BY <2>2, NoCalls
  <2>. QED  BY <1>1, <2>1, <2>2
<1>. HIDE DEF c, lib, name, taken, refused, ignored, keeps
<1>8. prototype = [t \in Types |-> prototype[t]]
  BY DEF MergeInv, Files, Plugged
<1>9. \A p : Stands(p) => Stands(p)'
  <2>1. ASSUME NEW t, NEW n \in DOMAIN prototype[t], ~keeps
        PROVE  n \in DOMAIN prototype'[t] /\ prototype'[t][n] = prototype[t][n]
    <3>1. name \notin DOMAIN prototype[lib.type]
      BY <2>1 DEF keeps, taken
    <3>2. CASE t \in Types
      BY <1>1, <1>8, <2>1, <3>1, <3>2
    <3>3. CASE t \notin Types
      <4>1. prototype'[t] = prototype[t]
        BY <1>1, <1>8, <2>1, <3>1, <3>3
      <4>. QED  BY <4>1
    <3>. QED  BY <3>2, <3>3
  <2>. QED  BY <1>1, <2>1 DEF Stands
<1>10. ASSUME phase' # "failed", ~LeaveGiven, lib.good, c.path \notin loaded, Top.pc = "scan",
              NEW p, p = c.path
       PROVE  Stands(p)'
  <2>1. ignored => LeaveGiven
    BY <1>4, <1>10 DEF ignored, ValueOr, HiddenInv, Strict
  <2>2. ~refused
    BY <1>1, <1>10, <2>1
  <2>3. name = lib.name /\ ~Clobbers(c)
    BY <1>4, <1>10 DEF name, ValueOr, Clobbers
  <2>4. ~taken /\ ~keeps
    BY <1>10, <2>2, <2>3 DEF refused, keeps
  <2>5. lib.type \in Types /\ lib = Library[p]
    BY <1>1, <1>10, FilesAssumption DEF lib
  <2>6. prototype'[lib.type] = [n \in DOMAIN prototype[lib.type] \cup {name} |->
                                  IF n = name THEN c.path ELSE prototype[lib.type][n]]
    BY <1>1, <1>8, <2>4, <2>5
  <2>7. /\ name \in DOMAIN prototype'[lib.type] /\ prototype'[lib.type][name] = p
    BY <1>10, <2>6
  <2>. QED  BY <2>3, <2>5, <2>7 DEF Stands
<1>11. Seen'
  <2>. SUFFICES ASSUME phase' # "failed", ~LeaveGiven, NEW p \in loaded' \ BuiltInPaths, ~Listed(p)
                PROVE  Stands(p)'
    BY <1>3 DEF Seen, BuiltInPaths
  <2>1. CASE p \in loaded
    BY <1>2, <1>9, <2>1 DEF HiddenInv, Seen
  <2>2. CASE p \notin loaded
    BY <1>1, <1>2, <1>6, <1>10, <2>2
  <2>. QED  BY <2>1, <2>2
<1>12. Strict'
  BY <1>1, <1>3 DEF HiddenInv, Strict
<1>. QED  BY <1>1, <1>7, <1>11, <1>12 DEF HiddenInv

\* The end of a call, of a merge, and of all of them.
LEMMA ReturnHidden ==
  ASSUME MergeInv, HiddenInv, ApplyRest \/ ValidateSelf \/ RunStack
  PROVE  HiddenInv'
<1>1. CASE Throw
  BY <1>1, NoCalls, HiddenOn DEF Throw, HiddenInv
<1>2. CASE ApplyRest /\ ~Throw
  <2>1. /\ frames # <<>> /\ phase = "load" /\ frames' = Front(frames)
        /\ UNCHANGED <<disk, loaded, prototype>>
    BY <1>2 DEF ApplyRest, At
  <2>2. stack'.engine = stack.engine /\ stack'.plugins = stack.plugins
    <3>. DEFINE c    == Content(Top.file)
                left == Top.left
    <3>1. stack' = [stack EXCEPT
            !.simulators = @ \o Section(c, left, "simulators"),
            !.vehicles = @ \o Section(c, left, "vehicles"),
            !.controllers = @ \o Section(c, left, "controllers"),
            !.simulation = IF "simulation" \in left THEN Overlay(@, c["simulation"]) ELSE @]
      BY <1>2 DEF ApplyRest
    <3>. HIDE DEF c, left
    <3>. QED  BY <3>1 DEF MergeInv, StackType, EmptyStack
  <2>3. \A i \in DOMAIN frames' : i \in DOMAIN frames /\ frames'[i] = frames[i]
    BY <2>1, FrontMembers DEF MergeInv, Calls
  <2>4. Asked'
    <3>1. \A p : Listed(p)' = Listed(p)
      BY <2>2, ListedKept
    <3>. QED  BY <2>3, <3>1 DEF HiddenInv, Asked
  <2>. QED  BY <2>1, <2>2, <2>4, HiddenOn
<1>3. CASE ValidateSelf \/ RunStack
  <2>1. UNCHANGED <<disk, loaded, prototype, stack, frames>> /\ phase # "failed"
    BY <1>3 DEF ValidateSelf, RunStack
  <2>2. Asked'
    BY <2>1, ListedKept DEF HiddenInv, Asked
  <2>. QED  BY <2>1, <2>2, HiddenOn
<1>. QED  BY <1>1, <1>2, <1>3

\* The connect state leaves the plugins alone.
LEMMA NextHidden ==
  ASSUME ConnectInv, HiddenInv, [Next]_vars
  PROVE  HiddenInv'
<1>1. CASE StackNext
  BY <1>1, CallsHidden, BeginHidden, ListHidden, OpenHidden, InsertHidden, ReturnHidden
     DEF StackNext, ConnectInv
<1>2. CASE ~StackNext
  <2>1. /\ UNCHANGED <<disk, frames, loaded, prototype, stack>>
        /\ phase = "failed" => phase' = "failed"
    BY <1>2 DEF Next, Leave, ModelError, NewSimulator, SimulatorsDone, NewVehicle, NewComponent,
       ComponentsPassed, VehiclesPassed, NewController, ControllersDone, stackVars, vars
  <2>2. Asked'
    BY <2>1, ListedKept DEF HiddenInv, Asked
  <2>. QED  BY <2>1, <2>2, HiddenOn
<1>. QED  BY <1>1, <1>2

(* As long as nobody gives leave to ignore a failure, every plugin that has *)
(* come from the plugin path alone is the one that its name stands for      *)
(* (stack.cpp, insert_plugin with the allow_clobber of the scan).           *)
THEOREM NoneHiddenHolds == Spec => []NoneHidden
<1>1. ConnectInit => HiddenInv
  <2>1. <<>> \in Seq(PluginConf)
    OBVIOUS
  <2>2. "ignore_failure" \in DOMAIN EngineConf /\ ~EngineConf.ignore_failure
    BY DEF EngineConf
  <2>. QED  BY <2>1, <2>2 DEF ConnectInit, Init, HiddenInv, Asked, Seen, Strict, EmptyStack
<1>2. ConnectInv /\ HiddenInv /\ [Next]_vars => HiddenInv'
  BY NextHidden
<1>3. HiddenInv => NoneHidden
  BY DEF HiddenInv, Seen, NoneHidden, Stands
<1>. QED  BY <1>1, <1>2, <1>3, Inductive, PTL DEF Spec

=============================================================================
