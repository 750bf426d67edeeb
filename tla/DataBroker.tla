----------------------------- MODULE DataBroker -----------------------------
(***************************************************************************)
(* The data broker: signals that models declare while they are connected,  *)
(* names and aliases of them, containers that hold the value of a signal   *)
(* and move about in memory, and the signals that Lua scripts ask for.     *)
(* Scripts extend the lists of aliases and of required signals before the  *)
(* simulation; Connect works them off at its end; Lua reads and writes     *)
(* signals while the simulation runs.                                      *)
(*                                                                         *)
(* A signal is known by the name it was declared under: every declaration  *)
(* that does not throw makes a new signal.                                 *)
(***************************************************************************)
EXTENDS Naturals, Sequences, FiniteSets

CONSTANTS
  Names,         \* names of signals, patterns among them
  Declarable,    \* the names under which models declare signals
  Slots,         \* addresses at which a container may live
  Values,        \* values of signals
  Matching,      \* the names that a name, read as a regular expression, matches
  Scripts,       \* the lists that scripts may hand over: [aliases, requires]
  Initial,       \* the value a container is constructed with
  NoSignal,      \* a null pointer to a signal
  Malformed,     \* an entry of a list that is not of the expected form
  MaxScripts,    \* bound: how many lists are handed over
  MaxWrites,     \* bound: how many values are written
  MaxSubscribed  \* bound: how many handlers models add to a signal

ASSUME NoneAssumption     == NoSignal \notin Names /\ Malformed \notin Names
ASSUME InitialAssumption  == Initial \in Values
ASSUME DeclarableAssumption == Declarable \subseteq Names
ASSUME MatchingAssumption == Matching \in [Names -> SUBSET Names]
ASSUME SlotsAssumption    == "memory" \notin Slots /\ "none" \notin Slots
ASSUME ScriptsAssumption  == \A list \in Scripts :
  /\ list.aliases \in Seq([old : Names, new : Names] \cup {Malformed})
  /\ list.requires \in Seq(Names \cup {Malformed})

VARIABLES
  phase,     \* what the engine does: scripts, connecting, aliasing, binding, running
  scripts,   \* lists handed over so far
  aliases,   \* cloe.initial_input.signal_aliases: [old, new] by position
  requires,  \* cloe.initial_input.signal_requires, by position
  next,      \* the position of the entry that Connect looks at
  failure,   \* aliasing_failure, binding_failure
  signals,   \* signals_: the signal of each known name
  names,     \* names_ of each signal
  access,    \* where getter and setter of each signal lead: a slot, "memory" or "none"
  memory,    \* what a model keeps by itself and has declared a pointer to
  box,       \* the containers by address
  subscribed, \* how many handlers each signal has: who computes it may ask
  last,      \* the value that was last written to each signal
  accessors, \* the signal that Lua reaches by a name
  writes     \* how many values have been written

lists   == <<scripts, aliases, requires, next>>
broker  == <<signals, names, access>>
storage == <<memory, box, subscribed, last>>
vars    == <<phase, lists, failure, broker, storage, accessors, writes>>

Declared == DOMAIN names
Free     == [live |-> FALSE, signal |-> NoSignal, value |-> Initial]

Init ==
  /\ phase = "script" /\ scripts = 0 /\ aliases = <<>> /\ requires = <<>> /\ next = 1
  /\ failure = FALSE
  /\ signals = [n \in {} |-> n] /\ names = [n \in {} |-> <<>>] /\ access = [n \in {} |-> "none"]
  /\ memory = [n \in {} |-> Initial] /\ last = [n \in {} |-> Initial]
  /\ subscribed = [n \in {} |-> 0]
  /\ box = [c \in Slots |-> Free]
  /\ accessors = [n \in {} |-> n] /\ writes = 0

-----------------------------------------------------------------------------
(* Lua scripts, before the simulation.                                     *)

\* tbl_extend("force", old, new): a position of new replaces the same position of old.
Extend(old, new) ==
  [i \in DOMAIN old \cup DOMAIN new |-> IF i \in DOMAIN new THEN new[i] ELSE old[i]]

\* alias_signals and require_signals, as a script calls them.
Script(list) ==
  /\ phase = "script" /\ scripts < MaxScripts
  /\ scripts' = scripts + 1
  /\ aliases' = Extend(aliases, list.aliases)
  /\ requires' = Extend(requires, list.requires)
  /\ UNCHANGED <<phase, next, failure, broker, storage, accessors, writes>>

Run ==
  /\ phase = "script" /\ phase' = "connect"
  /\ UNCHANGED <<lists, failure, broker, storage, accessors, writes>>

-----------------------------------------------------------------------------
(* Names.                                                                  *)

\* An exception in Connect ends it.
Throw ==
  /\ phase' = "failed"
  /\ UNCHANGED <<lists, failure, broker, storage, accessors, writes>>

\* Mutant: a signal keeps the name it was declared under, and no alias.
FirstNameOnly(s, n, list) == [list EXCEPT ![s] = <<s>>]

\* alias(signal, name) throws unless the name is free, and else adds it to the signal.
CanAlias(n) == n \notin DOMAIN signals
AddName(s, n, list) == [list EXCEPT ![s] = Append(@, n)]

\* declare(name): a signal without value.
New(n, how) ==
  /\ signals' = [m \in DOMAIN signals \cup {n} |-> IF m = n THEN n ELSE signals[m]]
  /\ names' = AddName(n, n, [s \in Declared \cup {n} |-> IF s = n THEN <<>> ELSE names[s]])
  /\ access' = [s \in Declared \cup {n} |-> IF s = n THEN how ELSE access[s]]
  /\ subscribed' = [s \in Declared \cup {n} |-> IF s = n THEN 0 ELSE subscribed[s]]
  /\ memory' = [s \in Declared \cup {n} |-> IF s = n THEN Initial ELSE memory[s]]
  /\ last' = [s \in Declared \cup {n} |-> IF s = n THEN Initial ELSE last[s]]
  /\ UNCHANGED <<phase, lists, failure, accessors, writes>>

\* declare, and declare with a pointer.
Declare(n, how) ==
  /\ phase = "connect" /\ how \in {"none", "memory"}
  /\ IF CanAlias(n) THEN New(n, how) /\ UNCHANGED box ELSE Throw

\* implement: declare, and make a container that lives where the caller puts it.
Implement(n, c) ==
  /\ phase = "connect" /\ ~box[c].live
  /\ IF CanAlias(n)
     THEN /\ New(n, c)
          /\ box' = [box EXCEPT ![c] = [live |-> TRUE, signal |-> n, value |-> Initial]]
     ELSE Throw

\* All models are connected.
Connected ==
  /\ phase = "connect" /\ phase' = "alias"
  /\ UNCHANGED <<lists, failure, broker, storage, accessors, writes>>

-----------------------------------------------------------------------------
(* Containers.                                                             *)

Alive == phase \in {"connect", "alias", "bind", "run"}

\* Mutant: getter and setter stay with the old address.
KeepAccessors(s, how) == IF how \in Slots THEN access ELSE [access EXCEPT ![s] = how]

\* update_accessor_functions
UpdateAccessors(s, how) == IF s = NoSignal THEN access ELSE [access EXCEPT ![s] = how]

\* Move construction, and assignment to a container that has no signal (none of the
\* callers moves into one that has).
Move(c, d) ==
  /\ Alive /\ c # d /\ box[c].live
  /\ box[d].signal = NoSignal
  /\ access' = UpdateAccessors(box[c].signal, d)
  /\ box' = [box EXCEPT ![d] = [box[c] EXCEPT !.live = TRUE],
                        ![c].signal = NoSignal]
  /\ UNCHANGED <<phase, lists, failure, signals, names, memory, subscribed, last, accessors,
                 writes>>

\* ~BasicContainer
Destroy(c) ==
  /\ Alive /\ box[c].live
  /\ access' = UpdateAccessors(box[c].signal, "none")
  /\ box' = [box EXCEPT ![c] = Free]
  /\ UNCHANGED <<phase, lists, failure, signals, names, memory, subscribed, last, accessors,
                 writes>>

\* container = value: it is stored first, so that a handler of the event that throws
\* changes nothing here.
Store(c, v) ==
  /\ box' = [box EXCEPT ![c].value = v]
  /\ last' = IF box[c].signal = NoSignal THEN last ELSE [last EXCEPT ![box[c].signal] = v]

Assign(c, v) ==
  /\ Alive /\ box[c].live /\ writes < MaxWrites
  /\ Store(c, v) /\ writes' = writes + 1
  /\ UNCHANGED <<phase, lists, failure, broker, memory, subscribed, accessors>>

\* Signal::subscribe
Subscribe(s) ==
  /\ Alive /\ s \in Declared /\ subscribed[s] < MaxSubscribed
  /\ subscribed' = [subscribed EXCEPT ![s] = @ + 1]
  /\ UNCHANGED <<phase, lists, failure, broker, memory, box, last, accessors, writes>>

-----------------------------------------------------------------------------
(* The last part of Connect.                                               *)

Matched(old) == Matching[old] \cap DOMAIN signals

\* alias(regex, name): exactly one name has to match, and the new one has to be free.
Aliasable(entry) ==
  /\ entry # Malformed
  /\ Cardinality(Matched(entry.old)) = 1
  /\ CanAlias(entry.new)

\* Each entry is tried; the failures are reported after the last one.
Alias ==
  /\ phase = "alias" /\ next \in DOMAIN aliases
  /\ LET entry == aliases[next] IN
       IF Aliasable(entry)
       THEN \E m \in Matched(entry.old) :
              /\ signals' = [n \in DOMAIN signals \cup {entry.new} |->
                               IF n = entry.new THEN signals[m] ELSE signals[n]]
              /\ names' = AddName(signals[m], entry.new, names)
              /\ UNCHANGED failure
       ELSE failure' = TRUE /\ UNCHANGED <<signals, names>>
  /\ next' = next + 1
  /\ UNCHANGED <<phase, scripts, aliases, requires, access, storage, accessors, writes>>

AliasesDone ==
  /\ phase = "alias" /\ next \notin DOMAIN aliases
  /\ phase' = IF failure THEN "failed" ELSE "bind"
  /\ next' = 1
  /\ UNCHANGED <<scripts, aliases, requires, failure, broker, storage, accessors, writes>>

\* Mutant: that a required signal does not exist is only logged.
LogMissing(n) == FALSE

Missing(n) == n \notin DOMAIN signals

\* One required signal.  bind_signal subscribes before it finds the name bound
\* already, which is only logged.
Bind ==
  /\ phase = "bind" /\ next \in DOMAIN requires
  /\ LET n == requires[next] IN
       IF n \in DOMAIN signals
       THEN /\ subscribed' = [subscribed EXCEPT ![signals[n]] = @ + 1]
            /\ accessors' = [m \in DOMAIN accessors \cup {n} |->
                               IF m \in DOMAIN accessors THEN accessors[m] ELSE signals[n]]
       ELSE UNCHANGED <<subscribed, accessors>>
  /\ failure' = (failure \/ Missing(requires[next]))
  /\ next' = next + 1
  /\ UNCHANGED <<phase, scripts, aliases, requires, broker, memory, box, last, writes>>

BindDone ==
  /\ phase = "bind" /\ next \notin DOMAIN requires
  /\ phase' = IF failure THEN "failed" ELSE "run"
  /\ UNCHANGED <<lists, failure, broker, storage, accessors, writes>>

-----------------------------------------------------------------------------
(* Lua, while the simulation runs.  A read changes nothing; to write a      *)
(* signal that has no setter throws and changes nothing.                    *)

LuaSet(n, v) ==
  /\ phase = "run" /\ n \in DOMAIN accessors /\ writes < MaxWrites
  /\ access[accessors[n]] # "none"
  /\ IF access[accessors[n]] = "memory"
     THEN /\ memory' = [memory EXCEPT ![accessors[n]] = v]
          /\ last' = [last EXCEPT ![accessors[n]] = v]
          /\ UNCHANGED box
     ELSE Store(access[accessors[n]], v) /\ UNCHANGED memory
  /\ writes' = writes + 1
  /\ UNCHANGED <<phase, lists, failure, broker, subscribed, accessors>>

Next ==
  \/ \E list \in Scripts : Script(list)
  \/ Run \/ Connected
  \/ \E n \in Declarable : (\E how \in {"none", "memory"} : Declare(n, how))
                           \/ (\E c \in Slots : Implement(n, c)) \/ Subscribe(n)
  \/ \E c, d \in Slots : Move(c, d)
  \/ \E c \in Slots : Destroy(c) \/ \E v \in Values : Assign(c, v)
  \/ Alias \/ AliasesDone \/ Bind \/ BindDone
  \/ \E n \in Names, v \in Values : LuaSet(n, v)

Spec == Init /\ [][Next]_vars

-----------------------------------------------------------------------------
(* Properties.                                                             *)

\* The map from names to signals and the names that each signal keeps agree, also
\* after aliases and declarations that have failed: an alias leads to one signal
\* for good ("fulfill exception guarantee" of DataBroker::alias).
NamesAgree ==
  /\ \A s \in Declared : \A i \in DOMAIN names[s] : signals[names[s][i]] = s
  /\ \A n \in DOMAIN signals :
       Cardinality({i \in DOMAIN names[signals[n]] : names[signals[n]][i] = n}) = 1

\* Whoever reads a signal gets what was last written to it by its setter, by Lua or
\* by the model that owns it: wherever its container has been moved to, getter and
\* setter lead there, and to no address at which no container lives any more.
ReadsWritten ==
  \A s \in Declared :
    /\ access[s] \in Slots =>
         box[access[s]].live /\ box[access[s]].signal = s /\ box[access[s]].value = last[s]
    /\ access[s] = "memory" => memory[s] = last[s]

\* When the simulation starts, Lua reaches each of the signals that are required
\* by its name, and whoever computes it knows that it is used; each alias stands for
\* a signal that its pattern matches.
RequiredBound ==
  phase = "run" =>
    /\ \A i \in DOMAIN requires :
         /\ requires[i] \in DOMAIN accessors
         /\ accessors[requires[i]] = signals[requires[i]]
         /\ subscribed[signals[requires[i]]] > 0
    /\ \A i \in DOMAIN aliases :
         signals[aliases[i].new] \in {signals[n] : n \in Matched(aliases[i].old)}

=============================================================================
