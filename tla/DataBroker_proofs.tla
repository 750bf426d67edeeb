-------------------------- MODULE DataBroker_proofs --------------------------
(***************************************************************************)
(* Theorems about DataBroker, for all names, patterns, containers, values   *)
(* and lists, however many are handed over.                                 *)
(***************************************************************************)
EXTENDS DataBroker, FiniteSetTheorems, TLAPS

-----------------------------------------------------------------------------
(* The invariant, in parts.                                                *)

Entries  == [old : Names, new : Names] \cup {Malformed}
Required == Names \cup {Malformed}

TypeOK ==
  /\ aliases \in Seq(Entries) /\ requires \in Seq(Required)
  /\ next \in Nat \ {0} /\ failure \in BOOLEAN
  /\ Declared \subseteq DOMAIN signals /\ DOMAIN signals \subseteq Names
  /\ signals \in [DOMAIN signals -> Declared]
  /\ names \in [Declared -> Seq(Names)]
  /\ access \in [Declared -> Slots \cup {"memory", "none"}]
  /\ memory \in [Declared -> Values] /\ last \in [Declared -> Values]
  /\ subscribed \in [Declared -> Nat]
  /\ box \in [Slots -> [live : BOOLEAN, signal : Names \cup {NoSignal}, value : Values]]

\* Each name of a signal leads to it, each name that leads to it is one of its names,
\* and no name is there twice.
Named ==
  /\ \A s \in Declared : \A i \in DOMAIN names[s] :
       names[s][i] \in DOMAIN signals /\ signals[names[s][i]] = s
  /\ \A n \in DOMAIN signals : \E i \in DOMAIN names[signals[n]] : names[signals[n]][i] = n
  /\ \A s \in Declared : \A i, j \in DOMAIN names[s] : names[s][i] = names[s][j] => i = j

\* A container that has a signal lives, and getter and setter of the signal lead to it.
Backed ==
  \A c \in Slots : box[c].signal # NoSignal =>
    /\ box[c].live /\ box[c].signal \in Declared
    /\ access[box[c].signal] = c

\* The name that Lua uses is one of the signal's for good.
Bound ==
  /\ DOMAIN accessors \subseteq DOMAIN signals
  /\ \A n \in DOMAIN accessors : accessors[n] = signals[n]

\* The entries of the lists that have been worked off.
Aliased(i) == aliases[i].new \in DOMAIN signals
              /\ \E m \in Matched(aliases[i].old) : signals[aliases[i].new] = signals[m]

Supplied(i) == requires[i] \in DOMAIN accessors /\ subscribed[signals[requires[i]]] > 0

Worked ==
  /\ phase \in {"script", "connect"} => next = 1
  /\ phase = "alias" => failure \/ \A i \in DOMAIN aliases : i < next => Aliased(i)
  /\ phase \in {"bind", "run"} => \A i \in DOMAIN aliases : Aliased(i)
  /\ phase = "bind" => failure \/ \A i \in DOMAIN requires : i < next => Supplied(i)
  /\ phase = "run" => \A i \in DOMAIN requires : Supplied(i)

BrokerInv == TypeOK /\ Named /\ Backed /\ ReadsWritten /\ Bound /\ Worked

-----------------------------------------------------------------------------
(* The parts that most steps leave alone.                                  *)

\* A list that has been extended is a list.
LEMMA ExtendType ==
  ASSUME NEW S, NEW old \in Seq(S), NEW new \in Seq(S)
  PROVE  Extend(old, new) \in Seq(S)
<1>. DEFINE n == IF Len(old) >= Len(new) THEN Len(old) ELSE Len(new)
<1>1. n \in Nat /\ DOMAIN old \cup DOMAIN new = 1 .. n
  OBVIOUS
<1>2. \A i \in 1 .. n : (IF i \in DOMAIN new THEN new[i] ELSE old[i]) \in S
  BY <1>1
<1>. HIDE DEF n
<1>3. Extend(old, new) = [i \in 1 .. n |-> IF i \in DOMAIN new THEN new[i] ELSE old[i]]
  BY <1>1 DEF Extend
<1>. QED  BY <1>1, <1>2, <1>3

LEMMA NamedSame == ASSUME Named, UNCHANGED <<signals, names>> PROVE Named'
BY DEF Named, Declared

LEMMA StorageSame ==
  ASSUME Backed, ReadsWritten, UNCHANGED <<names, access, memory, box, last>>
  PROVE  (Backed /\ ReadsWritten)'
BY DEF Backed, ReadsWritten, Declared

\* Signals are declared and get new names, never lose one.
SignalsGrow ==
  /\ DOMAIN signals \subseteq DOMAIN signals'
  /\ \A n \in DOMAIN signals : signals'[n] = signals[n]

LEMMA AliasedStays ==
  ASSUME SignalsGrow, aliases' = aliases, NEW i, Aliased(i)
  PROVE  Aliased(i)'
BY DEF SignalsGrow, Aliased, Matched

\* A step of a model, or of Lua.
LEMMA ListsSame ==
  ASSUME BrokerInv, SignalsGrow, UNCHANGED <<phase, lists, failure, accessors>>,
         \/ phase \in {"script", "connect"}
         \/ \A s \in Declared : subscribed'[s] \in Nat /\ subscribed'[s] >= subscribed[s]
  PROVE  (Bound /\ Worked)'
<1>1. Bound'
  BY DEF BrokerInv, Bound, SignalsGrow
<1>2. Worked'
  <2>1. \A i : Aliased(i) => Aliased(i)'
    BY AliasedStays DEF lists
  <2>2. ASSUME phase \notin {"script", "connect"}, NEW i \in DOMAIN requires, Supplied(i)
        PROVE  Supplied(i)'
    <3>1. requires[i] \in DOMAIN signals /\ signals[requires[i]] \in Declared
      BY <2>2 DEF BrokerInv, Bound, Supplied, TypeOK
    <3>2. /\ subscribed'[signals[requires[i]]] >= subscribed[signals[requires[i]]]
          /\ signals'[requires[i]] = signals[requires[i]] /\ requires' = requires
          /\ subscribed[signals[requires[i]]] \in Nat /\ subscribed'[signals[requires[i]]] \in Nat
      BY <2>2, <3>1 DEF SignalsGrow, lists, BrokerInv, TypeOK
    <3>3. subscribed[signals[requires[i]]] > 0
      BY <2>2 DEF Supplied
    <3>4. subscribed'[signals[requires[i]]] > 0
      BY <3>2, <3>3
    <3>. QED  BY <2>2, <3>2, <3>4 DEF Supplied
  <2>. QED  BY <2>1, <2>2 DEF BrokerInv, Worked, lists
<1>. QED  BY <1>1, <1>2

-----------------------------------------------------------------------------
(* The phases of the engine.                                               *)

LEMMA ScriptInv ==
  ASSUME BrokerInv, NEW list \in Scripts, Script(list)
  PROVE  BrokerInv'
<1>1. /\ phase = "script"
      /\ aliases' = Extend(aliases, list.aliases) /\ requires' = Extend(requires, list.requires)
      /\ UNCHANGED <<phase, next, failure, broker, storage, accessors>>
  BY DEF Script
<1>2. list.aliases \in Seq(Entries) /\ list.requires \in Seq(Required)
  BY ScriptsAssumption DEF Entries, Required
<1>3. aliases' \in Seq(Entries) /\ requires' \in Seq(Required)
  BY <1>1, <1>2, ExtendType DEF BrokerInv, TypeOK
<1>4. TypeOK'
  BY <1>1, <1>3 DEF BrokerInv, TypeOK, broker, storage, Declared
<1>5. (Named /\ Backed /\ ReadsWritten)'
  BY <1>1, NamedSame, StorageSame DEF BrokerInv, broker, storage
<1>6. (Bound /\ Worked)'
  BY <1>1 DEF BrokerInv, Bound, Worked, broker
<1>. QED  BY <1>4, <1>5, <1>6 DEF BrokerInv

LEMMA PhaseInv ==
  ASSUME BrokerInv, Run \/ Connected \/ AliasesDone \/ BindDone \/ Throw
  PROVE  BrokerInv'
<1>1. UNCHANGED <<aliases, requires, failure, broker, storage, accessors>> /\ next' \in {next, 1}
  BY DEF Run, Connected, AliasesDone, BindDone, Throw, lists
<1>2. TypeOK'
  BY <1>1 DEF BrokerInv, TypeOK, broker, storage, Declared
<1>3. (Named /\ Backed /\ ReadsWritten)'
  BY <1>1, NamedSame, StorageSame DEF BrokerInv, broker, storage
<1>4. Bound'
  BY <1>1 DEF BrokerInv, Bound, broker
<1>5. /\ \A i : (Aliased(i) => Aliased(i)') /\ (Supplied(i) => Supplied(i)')
      /\ aliases' = aliases /\ requires' = requires
  BY <1>1 DEF Aliased, Supplied, Matched, broker, storage
<1>6. next \in Nat \ {0} /\ DOMAIN aliases = 1 .. Len(aliases) /\ DOMAIN requires = 1 .. Len(requires)
      /\ Len(aliases) \in Nat /\ Len(requires) \in Nat
  BY DEF BrokerInv, TypeOK
<1>7. Worked'
  <2>1. CASE Run \/ Throw
    BY <2>1 DEF Run, Throw, BrokerInv, Worked, lists
  <2>2. CASE Connected
    <3>1. phase' = "alias" /\ next' = 1 /\ \A i \in DOMAIN aliases : ~(i < 1)
      BY <1>6, <2>2 DEF Connected, BrokerInv, Worked, lists
    <3>. QED  BY <1>5, <3>1 DEF Worked
  <2>3. CASE AliasesDone
    <3>1. CASE failure
      BY <2>3, <3>1 DEF AliasesDone, Worked
    <3>2. CASE ~failure
      <4>1. \A i \in DOMAIN aliases : i < next
        BY <1>6, <2>3 DEF AliasesDone
      <4>2. \A i \in DOMAIN aliases : Aliased(i)
        BY <2>3, <3>2, <4>1 DEF AliasesDone, BrokerInv, Worked
      <4>3. phase' = "bind" /\ next' = 1 /\ \A i \in DOMAIN requires : ~(i < 1)
        BY <1>6, <2>3, <3>2 DEF AliasesDone
      <4>. QED  BY <1>5, <4>2, <4>3 DEF Worked
    <3>. QED  BY <3>1, <3>2
  <2>4. CASE BindDone
    <3>1. CASE failure
      BY <2>4, <3>1 DEF BindDone, Worked
    <3>2. CASE ~failure
      <4>1. \A i \in DOMAIN requires : i < next
        BY <1>6, <2>4 DEF BindDone
      <4>2. /\ \A i \in DOMAIN aliases : Aliased(i)
            /\ \A i \in DOMAIN requires : Supplied(i)
        BY <2>4, <3>2, <4>1 DEF BindDone, BrokerInv, Worked
      <4>3. phase' = "run"
        BY <2>4, <3>2 DEF BindDone
      <4>. QED  BY <1>5, <4>2, <4>3 DEF Worked
    <3>. QED  BY <3>1, <3>2
  <2>. QED  BY <2>1, <2>2, <2>3, <2>4
<1>. QED  BY <1>2, <1>3, <1>4, <1>7 DEF BrokerInv

-----------------------------------------------------------------------------
(* Signals.                                                                *)

\* A new signal has the name it was declared under, and nobody else had it.
LEMMA NewSignal ==
  ASSUME BrokerInv, NEW n \in Declarable, NEW how \in Slots \cup {"memory", "none"},
         CanAlias(n), New(n, how)
  PROVE  /\ n \notin Declared /\ n \in Names /\ Declared' = Declared \cup {n}
         /\ SignalsGrow /\ DOMAIN signals' = DOMAIN signals \cup {n} /\ signals'[n] = n
         /\ names'[n] = <<n>> /\ access'[n] = how /\ memory'[n] = last'[n]
         /\ \A s \in Declared : /\ names'[s] = names[s] /\ access'[s] = access[s]
                               /\ memory'[s] = memory[s] /\ last'[s] = last[s]
         /\ names' \in [Declared' -> Seq(Names)]
         /\ access' \in [Declared' -> Slots \cup {"memory", "none"}]
         /\ memory' \in [Declared' -> Values] /\ last' \in [Declared' -> Values]
         /\ subscribed' \in [Declared' -> Nat]
         /\ Named'
<1>1. TypeOK /\ n \notin Declared /\ n \in Names
  BY DeclarableAssumption DEF BrokerInv, TypeOK, CanAlias
<1>. DEFINE D == Declared \cup {n}
            old == [s \in D |-> IF s = n THEN <<>> ELSE names[s]]
<1>2. names' = [old EXCEPT ![n] = Append(@, n)]
  BY DEF New, AddName
<1>3. old \in [D -> Seq(Names)] /\ old[n] = <<>> /\ \A s \in Declared : old[s] = names[s]
  BY <1>1 DEF TypeOK
<1>4. Append(<<>>, n) = <<n>> /\ <<n>> \in Seq(Names)
  BY <1>1
<1>. HIDE DEF old
<1>5. /\ names' \in [D -> Seq(Names)] /\ names'[n] = <<n>>
      /\ \A s \in Declared : names'[s] = names[s]
  BY <1>1, <1>2, <1>3, <1>4
<1>6. Declared' = D
  BY <1>5 DEF Declared
<1>7. SignalsGrow /\ DOMAIN signals' = DOMAIN signals \cup {n} /\ signals'[n] = n
  BY DEF New, SignalsGrow, CanAlias
<1>8. /\ access' \in [D -> Slots \cup {"memory", "none"}]
      /\ memory' \in [D -> Values] /\ last' \in [D -> Values]
      /\ subscribed' \in [D -> Nat]
      /\ access'[n] = how /\ memory'[n] = last'[n]
      /\ \A s \in Declared : access'[s] = access[s] /\ memory'[s] = memory[s] /\ last'[s] = last[s]
  BY <1>1, InitialAssumption DEF New, TypeOK
<1>9. Named'
  <2>1. DOMAIN <<n>> = {1} /\ <<n>>[1] = n
    OBVIOUS
  <2>2. ASSUME NEW s \in D, NEW i \in DOMAIN names'[s]
        PROVE  names'[s][i] \in DOMAIN signals' /\ signals'[names'[s][i]] = s
    BY <1>5, <1>7, <2>1, <2>2 DEF BrokerInv, Named, SignalsGrow
  <2>3. ASSUME NEW m \in DOMAIN signals'
        PROVE  \E i \in DOMAIN names'[signals'[m]] : names'[signals'[m]][i] = m
    <3>1. CASE m = n
      BY <1>5, <1>7, <2>1, <3>1
    <3>2. CASE m # n
      BY <1>1, <1>5, <1>7, <2>3, <3>2 DEF BrokerInv, Named, SignalsGrow, TypeOK
    <3>. QED  BY <3>1, <3>2
  <2>4. ASSUME NEW s \in D, NEW i \in DOMAIN names'[s], NEW j \in DOMAIN names'[s],
               names'[s][i] = names'[s][j]
        PROVE  i = j
    BY <1>5, <2>1, <2>4 DEF BrokerInv, Named
  <2>. QED  BY <1>6, <2>2, <2>3, <2>4 DEF Named
<1>. QED  BY <1>1, <1>5, <1>6, <1>7, <1>8, <1>9

LEMMA DeclareInv ==
  ASSUME BrokerInv, NEW n \in Declarable,
         (\E how \in {"none", "memory"} : Declare(n, how)) \/ (\E c \in Slots : Implement(n, c))
  PROVE  BrokerInv'
<1>1. CASE ~CanAlias(n)
  BY <1>1, PhaseInv DEF Declare, Implement
<1>2. CASE CanAlias(n)
  <2>1. PICK how \in Slots \cup {"none", "memory"} :
          /\ New(n, how) /\ phase = "connect"
          /\ \/ how \notin Slots /\ box' = box
             \/ how \in Slots /\ ~box[how].live
                /\ box' = [box EXCEPT ![how] = [live |-> TRUE, signal |-> n, value |-> Initial]]
    BY <1>2, SlotsAssumption DEF Declare, Implement
  <2>2. /\ n \notin Declared /\ n \in Names /\ Declared' = Declared \cup {n}
        /\ SignalsGrow /\ DOMAIN signals' = DOMAIN signals \cup {n} /\ signals'[n] = n
        /\ access'[n] = how /\ memory'[n] = last'[n]
        /\ \A s \in Declared : access'[s] = access[s] /\ memory'[s] = memory[s] /\ last'[s] = last[s]
        /\ names' \in [Declared' -> Seq(Names)]
        /\ access' \in [Declared' -> Slots \cup {"memory", "none"}]
        /\ memory' \in [Declared' -> Values] /\ last' \in [Declared' -> Values]
        /\ subscribed' \in [Declared' -> Nat]
        /\ Named'
    BY <1>2, <2>1, NewSignal
  <2>3. UNCHANGED <<phase, lists, failure, accessors>>
    BY <2>1 DEF New
  <2>4. last'[n] = Initial
    BY <2>1 DEF New
  <2>5. TypeOK'
    <3>1. signals' \in [DOMAIN signals' -> Declared']
      <4>1. signals' = [m \in DOMAIN signals \cup {n} |-> IF m = n THEN n ELSE signals[m]]
        BY <2>1 DEF New
      <4>. QED  BY <2>2, <4>1 DEF BrokerInv, TypeOK
    <3>2. box' \in [Slots -> [live : BOOLEAN, signal : Names \cup {NoSignal}, value : Values]]
      <4>1. [live |-> TRUE, signal |-> n, value |-> Initial]
              \in [live : BOOLEAN, signal : Names \cup {NoSignal}, value : Values]
        BY <2>2, InitialAssumption
      <4>. QED  BY <2>1, <4>1 DEF BrokerInv, TypeOK
    <3>. QED  BY <2>2, <2>3, <3>1, <3>2 DEF BrokerInv, TypeOK, lists
  <2>6. Backed'
    <3>1. ASSUME NEW c \in Slots, box'[c].signal # NoSignal, c # how
          PROVE  box'[c].live /\ box'[c].signal \in Declared' /\ access'[box'[c].signal] = c
      <4>1. box'[c] = box[c]
        BY <2>1, <3>1 DEF BrokerInv, TypeOK
      <4>. QED  BY <2>2, <3>1, <4>1 DEF BrokerInv, Backed
    <3>2. ASSUME NEW c \in Slots, c = how
          PROVE  box'[c].live /\ box'[c].signal \in Declared' /\ access'[box'[c].signal] = c
      BY <2>1, <2>2, <3>2 DEF BrokerInv, TypeOK
    <3>. QED  BY <3>1, <3>2 DEF Backed
  <2>7. ReadsWritten'
    <3>1. ASSUME NEW s \in Declared, access'[s] \in Slots
          PROVE  box'[access'[s]].live /\ box'[access'[s]].signal = s /\ box'[access'[s]].value = last'[s]
      <4>1. access'[s] = access[s] /\ last'[s] = last[s] /\ box[access[s]].live
            /\ box[access[s]].signal = s /\ box[access[s]].value = last[s]
        BY <2>2, <3>1 DEF BrokerInv, ReadsWritten
      <4>2. box'[access[s]] = box[access[s]]
        BY <2>1, <3>1, <4>1 DEF BrokerInv, TypeOK
      <4>. QED  BY <4>1, <4>2
    <3>2. how \in Slots => box'[how].live /\ box'[how].signal = n /\ box'[how].value = last'[n]
      BY <2>1, <2>4 DEF BrokerInv, TypeOK
    <3>3. \A s \in Declared : access'[s] = "memory" => memory'[s] = last'[s]
      BY <2>2 DEF BrokerInv, ReadsWritten
    <3>. QED  BY <2>2, <3>1, <3>2, <3>3 DEF ReadsWritten
  <2>8. (Bound /\ Worked)'
    BY <2>1, <2>2, <2>3, ListsSame
  <2>. QED  BY <2>2, <2>5, <2>6, <2>7, <2>8 DEF BrokerInv
<1>. QED  BY <1>1, <1>2

LEMMA SubscribeInv ==
  ASSUME BrokerInv, NEW s, Subscribe(s)
  PROVE  BrokerInv'
<1>1. /\ s \in Declared /\ subscribed' = [subscribed EXCEPT ![s] = @ + 1]
      /\ UNCHANGED <<phase, lists, failure, broker, memory, box, last, accessors>>
  BY DEF Subscribe
<1>2. TypeOK'
  BY <1>1 DEF BrokerInv, TypeOK, lists, broker, Declared
<1>3. (Named /\ Backed /\ ReadsWritten)'
  BY <1>1, NamedSame, StorageSame DEF BrokerInv, broker
<1>4. subscribed \in [Declared -> Nat]
  BY DEF BrokerInv, TypeOK
<1>. HIDE DEF Declared
<1>5. \A u \in Declared : subscribed'[u] \in Nat /\ subscribed'[u] >= subscribed[u]
  <2>1. ASSUME NEW u \in Declared
        PROVE  subscribed[u] \in Nat /\ subscribed'[u] = IF u = s THEN subscribed[u] + 1 ELSE subscribed[u]
    BY <1>1, <1>4
  <2>. QED  BY <2>1
<1>6. (Bound /\ Worked)'
  BY <1>1, <1>5, ListsSame DEF SignalsGrow, broker
<1>. QED  BY <1>2, <1>3, <1>6 DEF BrokerInv

-----------------------------------------------------------------------------
(* Containers.                                                             *)

Boxes == [live : BOOLEAN, signal : Names \cup {NoSignal}, value : Values]

\* Members of a container that are assigned one by one.
LEMMA BoxFields ==
  ASSUME NEW b \in Boxes
  PROVE  [b EXCEPT !.live = TRUE] \in Boxes /\ [b EXCEPT !.signal = NoSignal] \in Boxes
BY DEF Boxes

LEMMA BoxValue ==
  ASSUME NEW b \in Boxes, NEW v \in Values
  PROVE  /\ [b EXCEPT !.value = v] \in Boxes
         /\ [b EXCEPT !.value = v].value = v
         /\ [b EXCEPT !.value = v].live = b.live
         /\ [b EXCEPT !.value = v].signal = b.signal
BY DEF Boxes

LEMMA MoveInv ==
  ASSUME BrokerInv, NEW c \in Slots, NEW d \in Slots, Move(c, d)
  PROVE  BrokerInv'
<1>. DEFINE s == box[c].signal
<1>1. /\ c # d /\ box[c].live /\ box[d].signal = NoSignal
      /\ access' = IF s = NoSignal THEN access ELSE [access EXCEPT ![s] = d]
      /\ box' = [box EXCEPT ![d] = [box[c] EXCEPT !.live = TRUE], ![c].signal = NoSignal]
      /\ UNCHANGED <<phase, lists, failure, signals, names, memory, subscribed, last, accessors>>
  BY DEF Move, UpdateAccessors
<1>2. box \in [Slots -> [live : BOOLEAN, signal : Names \cup {NoSignal}, value : Values]]
  BY DEF BrokerInv, TypeOK
<1>3. /\ box'[d].live /\ box'[d].signal = s /\ box'[d].value = box[c].value
      /\ box'[c].live = box[c].live /\ box'[c].signal = NoSignal
      /\ \A e \in Slots \ {c, d} : box'[e] = box[e]
  BY <1>1, <1>2
<1>4. box' \in [Slots -> [live : BOOLEAN, signal : Names \cup {NoSignal}, value : Values]]
  <2>. DEFINE p == [box[c] EXCEPT !.live = TRUE]
              q == [box[c] EXCEPT !.signal = NoSignal]
  <2>1. box \in [Slots -> Boxes]
    BY <1>2 DEF Boxes
  <2>2. p \in Boxes /\ q \in Boxes
    BY <2>1, BoxFields
  <2>3. box' = [[box EXCEPT ![d] = p] EXCEPT ![c] = q]
    BY <1>1, <2>1
  <2>. HIDE DEF p, q
  <2>4. box' \in [Slots -> Boxes]
    BY <2>1, <2>2, <2>3
  <2>. QED  BY <2>4 DEF Boxes
<1>. HIDE DEF s
<1>5. s # NoSignal => s \in Declared /\ access[s] = c
  BY DEF BrokerInv, Backed, s
<1>6. access \in [Declared -> Slots \cup {"memory", "none"}] /\ Declared' = Declared
  BY <1>1 DEF BrokerInv, TypeOK, Declared
<1>7. TypeOK'
  BY <1>1, <1>4, <1>5, <1>6 DEF BrokerInv, TypeOK, lists
<1>8. Backed'
  <2>1. ASSUME NEW e \in Slots \ {c, d}, box[e].signal # NoSignal
        PROVE  box'[e].live /\ box'[e].signal \in Declared /\ access'[box'[e].signal] = e
    <3>1. box[e].live /\ box[e].signal \in Declared /\ access[box[e].signal] = e
      BY <2>1 DEF BrokerInv, Backed
    <3>2. box'[e] = box[e] /\ (s # NoSignal => box[e].signal # s)
      BY <1>3, <1>5, <2>1, <3>1
    <3>3. access'[box[e].signal] = access[box[e].signal]
      BY <1>1, <1>6, <3>1, <3>2
    <3>. QED  BY <3>1, <3>2, <3>3
  <2>2. s # NoSignal => access'[s] = d
    BY <1>1, <1>5, <1>6
  <2>. QED  BY <1>3, <1>5, <1>6, <2>1, <2>2 DEF Backed
<1>9. ReadsWritten'
  <2>1. ASSUME NEW u \in Declared, access'[u] \in Slots, u # s
        PROVE  /\ box'[access'[u]].live /\ box'[access'[u]].signal = u
               /\ box'[access'[u]].value = last[u]
    <3>1. access'[u] = access[u]
      BY <1>1, <1>6, <2>1
    <3>2. box[access[u]].live /\ box[access[u]].signal = u /\ box[access[u]].value = last[u]
      BY <2>1, <3>1 DEF BrokerInv, ReadsWritten
    <3>3. u # NoSignal
      BY NoneAssumption DEF BrokerInv, TypeOK
    <3>4. access[u] \in Slots \ {c, d}
      BY <1>1, <2>1, <3>1, <3>2, <3>3 DEF s
    <3>. QED  BY <1>3, <3>1, <3>2, <3>4
  <2>2. ASSUME NEW u \in Declared, u = s
        PROVE  /\ access'[u] = d /\ box'[access'[u]].live /\ box'[access'[u]].signal = u
               /\ box'[access'[u]].value = last[u]
    <3>1. u # NoSignal
      BY NoneAssumption DEF BrokerInv, TypeOK
    <3>2. access'[u] = d
      BY <1>1, <1>6, <2>2, <3>1
    <3>3. box[c].value = last[u]
      BY <1>5, <2>2, <3>1 DEF BrokerInv, ReadsWritten
    <3>. QED  BY <1>3, <2>2, <3>2, <3>3
  <2>3. \A u \in Declared : access'[u] = "memory" => memory[u] = last[u]
    <3>1. ASSUME NEW u \in Declared, access'[u] = "memory" PROVE access[u] = "memory"
      BY <1>1, <1>6, <3>1, SlotsAssumption
    <3>. QED  BY <3>1 DEF BrokerInv, ReadsWritten
  <2>. QED  BY <1>1, <1>6, <2>1, <2>2, <2>3 DEF ReadsWritten
<1>10. Named'
  BY <1>1, NamedSame DEF BrokerInv
<1>11. (Bound /\ Worked)'
  <2>1. \A u \in Declared : subscribed'[u] \in Nat /\ subscribed'[u] >= subscribed[u]
    BY <1>1 DEF BrokerInv, TypeOK
  <2>. QED  BY <1>1, <2>1, ListsSame DEF SignalsGrow
<1>. QED  BY <1>7, <1>8, <1>9, <1>10, <1>11 DEF BrokerInv

LEMMA DestroyInv ==
  ASSUME BrokerInv, NEW c \in Slots, Destroy(c)
  PROVE  BrokerInv'
<1>. DEFINE s == box[c].signal
<1>1. /\ access' = IF s = NoSignal THEN access ELSE [access EXCEPT ![s] = "none"]
      /\ box' = [box EXCEPT ![c] = Free]
      /\ UNCHANGED <<phase, lists, failure, signals, names, memory, subscribed, last, accessors>>
  BY DEF Destroy, UpdateAccessors
<1>2. Free \in [live : BOOLEAN, signal : Names \cup {NoSignal}, value : Values]
      /\ Free.signal = NoSignal
  BY InitialAssumption DEF Free
<1>3. /\ box' \in [Slots -> [live : BOOLEAN, signal : Names \cup {NoSignal}, value : Values]]
      /\ box'[c].signal = NoSignal
      /\ \A e \in Slots \ {c} : box'[e] = box[e]
  BY <1>1, <1>2 DEF BrokerInv, TypeOK
<1>. HIDE DEF s
<1>4. s # NoSignal => s \in Declared /\ access[s] = c
  BY DEF BrokerInv, Backed, s
<1>5. access \in [Declared -> Slots \cup {"memory", "none"}] /\ Declared' = Declared
  BY <1>1 DEF BrokerInv, TypeOK, Declared
<1>6. TypeOK'
  BY <1>1, <1>3, <1>4, <1>5 DEF BrokerInv, TypeOK, lists
<1>7. Backed'
  <2>1. ASSUME NEW e \in Slots \ {c}, box[e].signal # NoSignal
        PROVE  box'[e].live /\ box'[e].signal \in Declared /\ access'[box'[e].signal] = e
    <3>1. box[e].live /\ box[e].signal \in Declared /\ access[box[e].signal] = e
      BY <2>1 DEF BrokerInv, Backed
    <3>. QED  BY <1>1, <1>3, <1>4, <1>5, <3>1
  <2>. QED  BY <1>3, <1>5, <2>1 DEF Backed
<1>8. ReadsWritten'
  <2>1. ASSUME NEW u \in Declared, access'[u] # "none"
        PROVE  access'[u] = access[u] /\ access[u] # c
    <3>1. u # NoSignal
      BY NoneAssumption DEF BrokerInv, TypeOK
    <3>2. access[u] = c => u = s
      BY DEF BrokerInv, ReadsWritten, s
    <3>. QED  BY <1>1, <1>5, <2>1, <3>1, <3>2
  <2>. QED  BY <1>1, <1>3, <1>5, <2>1, SlotsAssumption DEF BrokerInv, ReadsWritten
<1>9. Named'
  BY <1>1, NamedSame DEF BrokerInv
<1>10. (Bound /\ Worked)'
  <2>1. \A u \in Declared : subscribed'[u] \in Nat /\ subscribed'[u] >= subscribed[u]
    BY <1>1 DEF BrokerInv, TypeOK
  <2>. QED  BY <1>1, <2>1, ListsSame DEF SignalsGrow
<1>. QED  BY <1>6, <1>7, <1>8, <1>9, <1>10 DEF BrokerInv

\* A value is stored where getter and setter of the signal lead.
LEMMA WriteInv ==
  ASSUME BrokerInv, NEW v \in Values,
         UNCHANGED <<phase, lists, failure, broker, subscribed, accessors>>,
         \/ (\E c \in Slots : Store(c, v)) /\ memory' = memory
         \/ \E s \in Declared : /\ access[s] = "memory" /\ box' = box
                              /\ memory' = [memory EXCEPT ![s] = v]
                              /\ last' = [last EXCEPT ![s] = v]
  PROVE  BrokerInv'
<1>1. TypeOK /\ Backed /\ ReadsWritten
  BY DEF BrokerInv
<1>2. ASSUME (\E c \in Slots : Store(c, v)) /\ memory' = memory
      PROVE  (TypeOK /\ Backed /\ ReadsWritten)'
  <2>1. PICK c \in Slots : Store(c, v)
    BY <1>2
  <2>. DEFINE s == box[c].signal
  <2>2. /\ box' = [box EXCEPT ![c].value = v]
        /\ last' = IF s = NoSignal THEN last ELSE [last EXCEPT ![s] = v]
    BY <2>1 DEF Store
  <2>3. /\ box' \in [Slots -> [live : BOOLEAN, signal : Names \cup {NoSignal}, value : Values]]
        /\ box'[c].value = v
        /\ \A e \in Slots : box'[e].live = box[e].live /\ box'[e].signal = box[e].signal
        /\ \A e \in Slots \ {c} : box'[e] = box[e]
    <3>. DEFINE p == [box[c] EXCEPT !.value = v]
    <3>1. box \in [Slots -> Boxes]
      BY <1>1 DEF TypeOK, Boxes
    <3>2. p \in Boxes /\ p.value = v /\ p.live = box[c].live /\ p.signal = box[c].signal
      BY <3>1, BoxValue
    <3>3. box' = [box EXCEPT ![c] = p]
      BY <2>2
    <3>. HIDE DEF p
    <3>4. box' \in [Slots -> Boxes] /\ box'[c] = p /\ \A e \in Slots \ {c} : box'[e] = box[e]
      BY <3>1, <3>2, <3>3
    <3>. QED  BY <3>2, <3>4 DEF Boxes
  <2>. HIDE DEF s
  <2>4. s # NoSignal => s \in Declared /\ access[s] = c
    BY <1>1 DEF Backed, s
  <2>5. TypeOK'
    BY <1>1, <1>2, <2>2, <2>3, <2>4 DEF TypeOK, lists, broker, Declared
  <2>6. Backed'
    BY <1>1, <2>3 DEF Backed, broker, Declared
  <2>7. ReadsWritten'
    <3>1. ASSUME NEW u \in Declared, access[u] = c
          PROVE  box'[c].live /\ box'[c].signal = u /\ box'[c].value = last'[u]
      <4>1. u = s /\ u # NoSignal
        BY <1>1, <3>1, NoneAssumption DEF ReadsWritten, TypeOK, s
      <4>. QED  BY <1>1, <2>2, <2>3, <3>1, <4>1 DEF ReadsWritten, TypeOK
    <3>2. \A u \in Declared : access[u] # c => last'[u] = last[u]
      BY <1>1, <2>2, <2>4 DEF TypeOK
    <3>. QED  BY <1>1, <1>2, <2>3, <3>1, <3>2, SlotsAssumption DEF ReadsWritten, broker, Declared
  <2>. QED  BY <2>5, <2>6, <2>7
<1>3. ASSUME \E s \in Declared : /\ access[s] = "memory" /\ box' = box
                               /\ memory' = [memory EXCEPT ![s] = v]
                               /\ last' = [last EXCEPT ![s] = v]
      PROVE  (TypeOK /\ Backed /\ ReadsWritten)'
  <2>1. TypeOK'
    BY <1>1, <1>3 DEF TypeOK, lists, broker, Declared
  <2>2. Backed'
    BY <1>1, <1>3 DEF Backed, broker, Declared
  <2>3. ReadsWritten'
    <3>1. PICK s \in Declared : /\ access[s] = "memory" /\ box' = box
                               /\ memory' = [memory EXCEPT ![s] = v]
                               /\ last' = [last EXCEPT ![s] = v]
      BY <1>3
    <3>2. memory \in [Declared -> Values] /\ last \in [Declared -> Values]
      BY <1>1 DEF TypeOK
    <3>3. Declared' = Declared /\ access' = access
      BY DEF broker, Declared
    <3>. HIDE DEF Declared
    <3>4. /\ memory'[s] = v /\ last'[s] = v
          /\ \A u \in Declared : u # s => memory'[u] = memory[u] /\ last'[u] = last[u]
      BY <3>1, <3>2
    <3>5. \A u \in Declared : access[u] \in Slots => u # s
      BY <3>1, SlotsAssumption
    <3>. QED  BY <1>1, <3>1, <3>3, <3>4, <3>5 DEF ReadsWritten
  <2>. QED  BY <2>1, <2>2, <2>3
<1>4. Named'
  BY NamedSame DEF BrokerInv, broker
<1>5. (Bound /\ Worked)'
  <2>1. subscribed \in [Declared -> Nat] /\ subscribed' = subscribed
    BY <1>1 DEF TypeOK
  <2>2. \A u \in Declared : subscribed'[u] \in Nat /\ subscribed'[u] >= subscribed[u]
    BY <2>1
  <2>. QED  BY <2>2, ListsSame DEF SignalsGrow, broker
<1>. QED  BY <1>2, <1>3, <1>4, <1>5 DEF BrokerInv

-----------------------------------------------------------------------------
(* The end of Connect.                                                     *)

LEMMA AliasInv ==
  ASSUME BrokerInv, Alias
  PROVE  BrokerInv'
<1>. DEFINE entry == aliases[next]
<1>1. /\ phase = "alias" /\ next \in DOMAIN aliases /\ next' = next + 1
      /\ UNCHANGED <<phase, scripts, aliases, requires, access, storage, accessors>>
  BY DEF Alias
<1>2. /\ aliases \in Seq(Entries) /\ next \in Nat \ {0} /\ DOMAIN aliases \subseteq Nat
      /\ entry \in Entries /\ TypeOK
  BY <1>1 DEF BrokerInv, TypeOK
<1>3. (Backed /\ ReadsWritten)' /\ Bound' /\ TypeOK' /\ Named' /\ SignalsGrow
      /\ (failure' \/ (failure' = failure /\ \A i : i = next => Aliased(i)'))
  <2>1. CASE ~Aliasable(entry)
    <3>1. UNCHANGED <<signals, names>> /\ failure' = TRUE
      BY <2>1 DEF Alias
    <3>2. (Backed /\ ReadsWritten)' /\ Named'
      BY <1>1, <3>1, StorageSame, NamedSame DEF BrokerInv, storage
    <3>3. Bound' /\ SignalsGrow
      BY <1>1, <3>1 DEF BrokerInv, Bound, SignalsGrow
    <3>4. TypeOK'
      BY <1>1, <1>2, <3>1 DEF TypeOK, storage, Declared
    <3>. QED  BY <3>1, <3>2, <3>3, <3>4
  <2>2. CASE Aliasable(entry)
    <3>. DEFINE n == entry.new
    <3>1. PICK m \in Matched(entry.old) :
            /\ signals' = [x \in DOMAIN signals \cup {n} |-> IF x = n THEN signals[m] ELSE signals[x]]
            /\ names' = AddName(signals[m], n, names)
            /\ failure' = failure
      BY <2>2 DEF Alias
    <3>. DEFINE s == signals[m]
    <3>2. n \in Names /\ n \notin DOMAIN signals /\ m \in DOMAIN signals /\ s \in Declared
      BY <1>2, <2>2 DEF Aliasable, CanAlias, Matched, Entries, TypeOK
    <3>3. /\ SignalsGrow /\ DOMAIN signals' = DOMAIN signals \cup {n} /\ signals'[n] = s
          /\ signals'[m] = s
      BY <3>1, <3>2 DEF SignalsGrow
    <3>4. /\ names' = [names EXCEPT ![s] = Append(names[s], n)] /\ names[s] \in Seq(Names)
      BY <1>2, <3>1, <3>2 DEF AddName, TypeOK
    <3>. HIDE DEF n, s
    <3>5. /\ Append(names[s], n) \in Seq(Names)
          /\ DOMAIN names[s] = 1 .. Len(names[s]) /\ Len(names[s]) \in Nat
          /\ DOMAIN Append(names[s], n) = 1 .. Len(names[s]) + 1
          /\ \A i \in DOMAIN names[s] : Append(names[s], n)[i] = names[s][i]
          /\ Append(names[s], n)[Len(names[s]) + 1] = n
      BY <3>2, <3>4
    <3>6. /\ names' \in [Declared -> Seq(Names)] /\ Declared' = Declared
          /\ DOMAIN names'[s] = DOMAIN names[s] \cup {Len(names[s]) + 1}
          /\ \A i \in DOMAIN names[s] : names'[s][i] = names[s][i]
          /\ names'[s][Len(names[s]) + 1] = n
          /\ \A u \in Declared \ {s} : names'[u] = names[u]
      <4>1. names \in [Declared -> Seq(Names)]
        BY <1>2 DEF TypeOK
      <4>2. Append(names[s], n) \in Seq(Names) /\ s \in Declared
        BY <3>2, <3>5
      <4>3. names' \in [Declared -> Seq(Names)] /\ names'[s] = Append(names[s], n)
            /\ \A u \in Declared \ {s} : names'[u] = names[u]
        BY <3>4, <4>1, <4>2
      <4>4. Declared' = Declared
        BY <4>1, <4>3 DEF Declared
      <4>. QED  BY <3>5, <4>3, <4>4
    <3>7. (Backed /\ ReadsWritten)'
      <4>1. UNCHANGED <<access, box, memory, last>>
        BY <1>1 DEF storage
      <4>2. Backed /\ ReadsWritten
        BY DEF BrokerInv
      <4>3. Backed'
        BY <3>6, <4>1, <4>2 DEF Backed
      <4>4. ReadsWritten'
        BY <3>6, <4>1, <4>2 DEF ReadsWritten
      <4>. QED  BY <4>3, <4>4
    <3>8. Bound'
      BY <1>1, <3>3 DEF BrokerInv, Bound, SignalsGrow
    <3>9. signals' \in [DOMAIN signals' -> Declared]
      BY <1>2, <3>1, <3>2 DEF TypeOK, s
    <3>10. TypeOK'
      <4>1. Declared' \subseteq DOMAIN signals' /\ DOMAIN signals' \subseteq Names
        BY <1>2, <3>2, <3>3, <3>6 DEF TypeOK
      <4>2. next' \in Nat \ {0} /\ failure' \in BOOLEAN
        BY <1>1, <1>2, <3>1 DEF TypeOK
      <4>. QED  BY <1>1, <1>2, <3>6, <3>9, <4>1, <4>2 DEF TypeOK, storage
    <3>11. Named'
      <4>1. \A u \in Declared : \A i \in DOMAIN names[u] : names[u][i] # n
        BY <3>2 DEF BrokerInv, Named
      <4>2. ASSUME NEW u \in Declared, NEW i \in DOMAIN names'[u]
            PROVE  names'[u][i] \in DOMAIN signals' /\ signals'[names'[u][i]] = u
        <5>1. CASE u = s /\ i = Len(names[s]) + 1
          BY <3>3, <3>6, <5>1
        <5>2. CASE ~(u = s /\ i = Len(names[s]) + 1)
          <6>1. i \in DOMAIN names[u] /\ names'[u][i] = names[u][i]
            BY <3>6, <4>2, <5>2
          <6>. QED  BY <3>3, <6>1 DEF BrokerInv, Named, SignalsGrow
        <5>. QED  BY <5>1, <5>2
      <4>3. ASSUME NEW x \in DOMAIN signals'
            PROVE  \E i \in DOMAIN names'[signals'[x]] : names'[signals'[x]][i] = x
        <5>1. CASE x = n
          BY <3>3, <3>6, <5>1
        <5>2. CASE x # n
          <6>1. x \in DOMAIN signals /\ signals'[x] = signals[x] /\ signals[x] \in Declared
            BY <1>2, <3>3, <5>2 DEF SignalsGrow, TypeOK
          <6>2. PICK i \in DOMAIN names[signals[x]] : names[signals[x]][i] = x
            BY <6>1 DEF BrokerInv, Named
          <6>. QED  BY <3>6, <6>1, <6>2
        <5>. QED  BY <5>1, <5>2
      <4>4. ASSUME NEW u \in Declared, NEW i \in DOMAIN names'[u], NEW j \in DOMAIN names'[u],
                   names'[u][i] = names'[u][j]
            PROVE  i = j
        BY <3>6, <4>1, <4>4 DEF BrokerInv, Named
      <4>. QED  BY <3>6, <4>2, <4>3, <4>4 DEF Named
    <3>12. ASSUME NEW i, i = next PROVE Aliased(i)'
      <4>1. aliases'[i] = entry
        BY <1>1, <3>12
      <4>2. n \in DOMAIN signals' /\ signals'[n] = signals'[m]
            /\ m \in Matching[entry.old] \cap DOMAIN signals'
        BY <3>3 DEF Matched
      <4>. QED  BY <4>1, <4>2 DEF Aliased, Matched, n
    <3>. QED  BY <3>1, <3>3, <3>7, <3>8, <3>10, <3>11, <3>12
  <2>. QED  BY <2>1, <2>2
<1>4. Worked'
  <2>1. \A i : Aliased(i) => Aliased(i)'
    BY <1>1, <1>3, AliasedStays
  <2>2. \A i \in DOMAIN aliases : i < next + 1 => i < next \/ i = next
    BY <1>2
  <2>. QED  BY <1>1, <1>3, <2>1, <2>2 DEF BrokerInv, Worked
<1>. QED  BY <1>3, <1>4 DEF BrokerInv

LEMMA BindInv ==
  ASSUME BrokerInv, Bind
  PROVE  BrokerInv'
<1>. DEFINE n == requires[next]
<1>1. /\ phase = "bind" /\ next \in DOMAIN requires /\ next' = next + 1
      /\ failure' = (failure \/ Missing(n))
      /\ UNCHANGED <<phase, scripts, aliases, requires, broker, memory, box, last>>
  BY DEF Bind
<1>2. TypeOK /\ next \in Nat \ {0} /\ DOMAIN requires \subseteq Nat /\ failure \in BOOLEAN
  BY DEF BrokerInv, TypeOK
<1>3. IF n \in DOMAIN signals
      THEN /\ subscribed' = [subscribed EXCEPT ![signals[n]] = @ + 1]
           /\ accessors' = [m \in DOMAIN accessors \cup {n} |->
                              IF m \in DOMAIN accessors THEN accessors[m] ELSE signals[n]]
      ELSE UNCHANGED <<subscribed, accessors>>
  BY DEF Bind
<1>. HIDE DEF n
<1>4. /\ subscribed' \in [Declared -> Nat]
      /\ \A s \in Declared : subscribed'[s] >= subscribed[s] /\ subscribed[s] \in Nat
      /\ n \in DOMAIN signals => signals[n] \in Declared /\ subscribed'[signals[n]] > 0
  <2>1. CASE n \in DOMAIN signals
    <3>1. signals[n] \in Declared /\ subscribed \in [Declared -> Nat]
      BY <1>2, <2>1 DEF TypeOK
    <3>2. subscribed' = [subscribed EXCEPT ![signals[n]] = @ + 1]
      BY <1>3, <2>1
    <3>. QED  BY <3>1, <3>2
  <2>2. CASE n \notin DOMAIN signals
    BY <1>2, <1>3, <2>2 DEF TypeOK
  <2>. QED  BY <2>1, <2>2
<1>5. Bound'
  BY <1>1, <1>3 DEF BrokerInv, Bound, broker
<1>6. TypeOK'
  <2>1. next' \in Nat \ {0} /\ failure' \in BOOLEAN
    BY <1>1, <1>2 DEF Missing
  <2>. QED  BY <1>1, <1>2, <1>4, <2>1 DEF TypeOK, broker, Declared
<1>7. (Named /\ Backed /\ ReadsWritten)'
  BY <1>1, NamedSame, StorageSame DEF BrokerInv, broker
<1>8. Worked'
  <2>1. \A i : Aliased(i) => Aliased(i)'
    BY <1>1 DEF Aliased, Matched, broker
  <2>2. ASSUME NEW i \in DOMAIN requires, Supplied(i)
        PROVE  Supplied(i)'
    <3>1. requires[i] \in DOMAIN accessors' /\ requires[i] \in DOMAIN signals
          /\ signals[requires[i]] \in Declared /\ subscribed[signals[requires[i]]] > 0
      BY <1>2, <1>3, <2>2 DEF BrokerInv, Bound, Supplied, TypeOK
    <3>2. subscribed'[signals[requires[i]]] \in Nat /\ subscribed[signals[requires[i]]] \in Nat
          /\ subscribed'[signals[requires[i]]] >= subscribed[signals[requires[i]]]
      BY <1>4, <3>1
    <3>3. subscribed'[signals[requires[i]]] > 0
      BY <3>1, <3>2
    <3>. QED  BY <1>1, <3>1, <3>3 DEF Supplied, broker
  <2>3. ASSUME NEW i, i = next PROVE failure' \/ Supplied(i)'
    <3>1. CASE n \notin DOMAIN signals
      BY <1>1, <3>1 DEF Missing
    <3>2. CASE n \in DOMAIN signals
      <4>1. requires'[i] = n /\ signals'[n] = signals[n]
        BY <1>1, <2>3 DEF n, broker
      <4>2. n \in DOMAIN accessors'
        BY <1>3, <3>2
      <4>. QED  BY <1>4, <3>2, <4>1, <4>2 DEF Supplied
    <3>. QED  BY <3>1, <3>2
  <2>4. \A i \in DOMAIN requires : i < next + 1 => i < next \/ i = next
    BY <1>2
  <2>. QED  BY <1>1, <2>1, <2>2, <2>3, <2>4 DEF BrokerInv, Worked
<1>. QED  BY <1>5, <1>6, <1>7, <1>8 DEF BrokerInv

-----------------------------------------------------------------------------
(* The theorems.                                                           *)

LEMMA InitInv == Init => BrokerInv
<1>. SUFFICES ASSUME Init PROVE BrokerInv
  OBVIOUS
<1>1. DOMAIN signals = {} /\ Declared = {} /\ DOMAIN accessors = {}
  BY DEF Init, Declared
<1>2. TypeOK
  <2>1. /\ signals \in [{} -> {}] /\ names \in [{} -> Seq(Names)]
        /\ access \in [{} -> Slots \cup {"memory", "none"}]
        /\ memory \in [{} -> Values] /\ last \in [{} -> Values] /\ subscribed \in [{} -> Nat]
    BY DEF Init
  <2>2. box \in [Slots -> [live : BOOLEAN, signal : Names \cup {NoSignal}, value : Values]]
    BY InitialAssumption DEF Init, Free
  <2>3. /\ aliases \in Seq(Entries) /\ requires \in Seq(Required)
        /\ next \in Nat \ {0} /\ failure \in BOOLEAN
    <3>1. aliases = <<>> /\ requires = <<>> /\ next = 1
      BY DEF Init
    <3>2. failure \in BOOLEAN
      BY DEF Init
    <3>. QED  BY <3>1, <3>2
  <2>4. /\ signals \in [DOMAIN signals -> Declared] /\ names \in [Declared -> Seq(Names)]
        /\ access \in [Declared -> Slots \cup {"memory", "none"}]
        /\ memory \in [Declared -> Values] /\ last \in [Declared -> Values]
        /\ subscribed \in [Declared -> Nat]
    BY <1>1, <2>1
  <2>5. Declared \subseteq DOMAIN signals /\ DOMAIN signals \subseteq Names
    BY <1>1
  <2>. QED  BY <2>2, <2>3, <2>4, <2>5 DEF TypeOK
<1>3. Named /\ ReadsWritten /\ Bound
  BY <1>1 DEF Named, ReadsWritten, Bound
<1>4. Backed
  BY DEF Init, Backed, Free
<1>5. Worked
  BY DEF Init, Worked
<1>. QED  BY <1>2, <1>3, <1>4, <1>5 DEF BrokerInv

LEMMA StepInv ==
  ASSUME BrokerInv, [Next]_vars
  PROVE  BrokerInv'
<1>1. ASSUME NEW list \in Scripts, Script(list) PROVE BrokerInv'
  BY <1>1, ScriptInv
<1>2. CASE Run \/ Connected \/ AliasesDone \/ BindDone
  BY <1>2, PhaseInv
<1>3. ASSUME NEW n \in Declarable,
             (\E how \in {"none", "memory"} : Declare(n, how)) \/ (\E c \in Slots : Implement(n, c))
      PROVE  BrokerInv'
  BY <1>3, DeclareInv
<1>4. ASSUME NEW n, Subscribe(n) PROVE BrokerInv'
  BY <1>4, SubscribeInv
<1>5. ASSUME NEW c \in Slots, (\E d \in Slots : Move(c, d)) \/ Destroy(c) PROVE BrokerInv'
  BY <1>5, MoveInv, DestroyInv
<1>6. ASSUME NEW c \in Slots, NEW v \in Values, Assign(c, v) PROVE BrokerInv'
  BY <1>6, WriteInv DEF Assign
<1>7. CASE Alias \/ Bind
  BY <1>7, AliasInv, BindInv
<1>8. ASSUME NEW n \in Names, NEW v \in Values, LuaSet(n, v) PROVE BrokerInv'
  <2>. DEFINE s == accessors[n]
  <2>1. s \in Declared /\ access[s] \in Slots \cup {"memory", "none"}
    BY <1>8 DEF LuaSet, BrokerInv, Bound, TypeOK
  <2>2. /\ UNCHANGED <<phase, lists, failure, broker, subscribed, accessors>>
        /\ \/ access[s] \in Slots /\ Store(access[s], v) /\ memory' = memory
           \/ /\ access[s] = "memory" /\ box' = box
              /\ memory' = [memory EXCEPT ![s] = v] /\ last' = [last EXCEPT ![s] = v]
    BY <1>8, <2>1, SlotsAssumption DEF LuaSet
  <2>. HIDE DEF s
  <2>. QED  BY <2>1, <2>2, WriteInv
<1>9. CASE UNCHANGED vars
  <2>1. UNCHANGED <<phase, lists, failure, broker, storage, accessors>>
    BY <1>9 DEF vars
  <2>2. TypeOK'
    BY <2>1 DEF BrokerInv, TypeOK, lists, broker, storage, Declared
  <2>3. (Named /\ Backed /\ ReadsWritten)'
    BY <2>1, NamedSame, StorageSame DEF BrokerInv, broker, storage
  <2>4. \A u \in Declared : subscribed'[u] \in Nat /\ subscribed'[u] >= subscribed[u]
    BY <2>1 DEF BrokerInv, TypeOK, storage
  <2>5. (Bound /\ Worked)'
    BY <2>1, <2>4, ListsSame DEF SignalsGrow, broker
  <2>. QED  BY <2>2, <2>3, <2>5 DEF BrokerInv
<1>. QED  BY <1>1, <1>2, <1>3, <1>4, <1>5, <1>6, <1>7, <1>8, <1>9 DEF Next

LEMMA BrokerInvariant == Spec => []BrokerInv
BY InitInv, StepInv, PTL DEF Spec

THEOREM TypeCorrect == Spec => []TypeOK
BY BrokerInvariant, PTL DEF BrokerInv

\* A name leads to one signal for good, and each signal knows its names, whatever
\* declarations and aliases have failed.
THEOREM NamesAgreeHolds == Spec => []NamesAgree
<1>1. BrokerInv => NamesAgree
  <2>. SUFFICES ASSUME BrokerInv, NEW n \in DOMAIN signals
                PROVE  Cardinality({i \in DOMAIN names[signals[n]] : names[signals[n]][i] = n}) = 1
    BY DEF BrokerInv, Named, NamesAgree
  <2>1. signals[n] \in Declared
    BY DEF BrokerInv, TypeOK
  <2>2. PICK i \in DOMAIN names[signals[n]] : names[signals[n]][i] = n
    BY DEF BrokerInv, Named
  <2>3. {j \in DOMAIN names[signals[n]] : names[signals[n]][j] = n} = {i}
    BY <2>1, <2>2 DEF BrokerInv, Named
  <2>. QED  BY <2>3, FS_Singleton
<1>. QED  BY <1>1, BrokerInvariant, PTL

\* Wherever its container has been moved to, a signal is read as it was last written.
THEOREM ReadsWrittenHolds == Spec => []ReadsWritten
BY BrokerInvariant, PTL DEF BrokerInv

\* No simulation starts without a signal that a script requires, or with an alias that
\* leads elsewhere than to a signal its pattern matches.
THEOREM RequiredBoundHolds == Spec => []RequiredBound
<1>1. BrokerInv => RequiredBound
  <2>. SUFFICES ASSUME BrokerInv, phase = "run" PROVE RequiredBound
    BY DEF RequiredBound
  <2>1. \A i \in DOMAIN requires : Supplied(i) /\ accessors[requires[i]] = signals[requires[i]]
    BY DEF BrokerInv, Worked, Bound, Supplied
  <2>2. \A i \in DOMAIN aliases :
          signals[aliases[i].new] \in {signals[n] : n \in Matched(aliases[i].old)}
    BY DEF BrokerInv, Worked, Aliased
  <2>. QED  BY <2>1, <2>2 DEF RequiredBound, Supplied
<1>. QED  BY <1>1, BrokerInvariant, PTL
=============================================================================
