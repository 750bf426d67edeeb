-------------------------------- MODULE Fable --------------------------------
(***************************************************************************)
(* Reading configurations with fable's schemas (fable/include/fable).      *)
(*                                                                         *)
(* A Conf is JSON data; a schema describes it, validates it, reads it into *)
(* the variables it points to and writes them out again.  A Confable is an *)
(* object with a schema for its own members; from_conf() validates its     *)
(* input and then reads it, member by member.  Objects are read more than  *)
(* once: files of the command line, files they include, defaults and       *)
(* requests of the server all go into the same object.                     *)
(*                                                                         *)
(* A schema is a record: its kind, ptr, the member it points to, of, its   *)
(* prototype, and what else its kind needs.  Patterns and lengths are the  *)
(* set of values they accept.  Variants match the first alternative that   *)
(* fits.  A Confable clears the members named by cleared before it reads.  *)
(* Schemas for properties that a struct does not name are left out.        *)
(***************************************************************************)
EXTENDS Integers, FiniteSets, SequencesExt

CONSTANTS
    Types,       \* Confable types by name: schemas of kind "confable"
    Inputs,      \* Inputs[t]: what may be read into an object of type t
    KeyOrder,    \* every key, in the order of JSON objects
    MaxReads     \* bound on the reads of one object

VARIABLES
    type,        \* name of the type of the object
    object,      \* the members of the object
    input,       \* what was read last
    thrown,      \* from_conf() has thrown
    reads        \* number of reads so far

vars == <<type, object, input, thrown, reads>>

\* JSON values, told apart by their only field.
Null   == [null |-> TRUE]
Num(n) == [int |-> n]
Str(s) == [str |-> s]
Arr(q) == [arr |-> q]
Obj(f) == [obj |-> f]

TypeOf(c) == CHOOSE t \in {"null", "int", "str", "arr", "obj"} : t \in DOMAIN c
NoItems   == [k \in {} |-> Null]

\* items(): the keys of an object, in their order.
Keys(c) == SelectSeq(KeyOrder, LAMBDA k : k \in DOMAIN c.obj)

----------------------------------------------------------------------------
(* Validation: what validate() returns, and whether it has thrown instead. *)

Valid   == [ok |-> TRUE,  thrown |-> FALSE]
Invalid == [ok |-> FALSE, thrown |-> FALSE]
Throws  == [ok |-> FALSE, thrown |-> TRUE]
Check(accepted) == IF accepted THEN Valid ELSE Invalid

\* Checks of which only the first is made, and a sequence of checks that ends
\* with the first that is not passed.
FirstOf(checks) == IF checks = <<>> THEN Valid ELSE Head(checks)

RECURSIVE AllOf(_)
AllOf(checks) ==
    IF checks = <<>> THEN Valid
    ELSE IF Head(checks).ok THEN AllOf(Tail(checks)) ELSE Head(checks)

\* The type_ of a schema.
RECURSIVE SchemaType(_)
SchemaType(s) ==
    CASE s.kind = "number"                      -> "int"
      [] s.kind \in {"string", "enum", "const"} -> "str"
      [] s.kind = "vector"                      -> "arr"
      [] s.kind = "array"                       -> IF s.require_all THEN "arr" ELSE "null"
      [] s.kind \in {"map", "struct", "factory"} -> "obj"
      [] s.kind \in {"optional", "passthru"} -> SchemaType(s.of)
      [] s.kind = "confable"                    -> SchemaType(s.schema)
      [] s.kind = "variant" ->
           IF \A i \in DOMAIN s.alternatives :
                 /\ s.alternatives[i].kind \notin {"variant", "optional"}
                 /\ SchemaType(s.alternatives[i]) = SchemaType(s.alternatives[1])
           THEN SchemaType(s.alternatives[1]) ELSE "null"

\* factory_schemas(): one struct for each factory, told apart by a constant.
FactorySchemas(s) ==
    [kind |-> "variant",
     alternatives |->
        [i \in DOMAIN s.makes |->
            [kind |-> "struct", required |-> {s.key}, additional |-> FALSE,
             properties |-> (s.key :> [kind |-> "const", of |-> s.makes[i].name]
                             @@ "args" :> s.makes[i].args @@ s.transform)]]]

RECURSIVE Validate(_, _)

\* Exceptions come before the bounds, of which an exclusive one is the next number.
InBounds(s, n) == n \in s.whitelist \/ (n \notin s.blacklist /\ s.min <= n /\ n <= s.max)

ValidateNumber(s, c)   == Check(TypeOf(c) = "int" /\ InBounds(s, c.int))
ValidateString(s, c)   == Check(TypeOf(c) = "str" /\ c.str \in s.accepts)
ValidateEnum(s, c)     == IF TypeOf(c) = "str" THEN Check(c.str \in s.accepts) ELSE Throws
ValidateConst(s, c)    == IF TypeOf(c) = "str" THEN Check(c.str = s.of) ELSE Throws
ValidatePassthru(s, c) == Validate(s.of, c)
ValidateConfable(s, c) == Validate(s.schema, c)

ValidateOptional(s, c) ==
    IF c = Null THEN Valid
    ELSE IF TypeOf(c) = SchemaType(s.of) THEN Validate(s.of, c) ELSE Invalid

ValidateItems(s, c) == AllOf([i \in DOMAIN c.arr |-> Validate(s.of, c.arr[i])])

ValidateVector(s, c) ==
    IF TypeOf(c) = "arr" /\ Len(c.arr) \in s.sizes THEN ValidateItems(s, c) ELSE Invalid

\* The elements of an array by their index: one that is valid ends the validation
\* with FALSE, one that is not lets it go on.
ValidateElements(s, c) ==
    LET Element(k) == CASE k \notin DOMAIN s.index -> Invalid
                        [] OTHER -> LET v == Validate(s.of, c.obj[k])
                                    IN  IF v = Throws THEN Throws ELSE Check(v # Valid)
    IN  AllOf([i \in DOMAIN Keys(c) |-> Element(Keys(c)[i])])

\* index is parse_index: the keys it accepts, and the positions they stand for.
ValidateArray(s, c) ==
    CASE TypeOf(c) = "arr" -> IF Len(c.arr) = Cardinality(DOMAIN s.index)
                              THEN ValidateItems(s, c) ELSE Invalid
      [] TypeOf(c) = "obj" /\ ~s.require_all -> ValidateElements(s, c)
      [] OTHER -> Invalid

ValidateMap(s, c) ==
    LET Entry(k) == AllOf(<<Validate(s.of, c.obj[k]), Check(k \in s.names)>>)
    IN  IF TypeOf(c) = "obj" /\ s.required \subseteq DOMAIN c.obj
        THEN AllOf([i \in DOMAIN Keys(c) |-> Entry(Keys(c)[i])]) ELSE Invalid

ValidateStruct(s, c) ==
    LET Property(k) == IF k \in DOMAIN s.properties THEN Validate(s.properties[k], c.obj[k])
                                                    ELSE Check(s.additional)
    IN  IF TypeOf(c) = "obj" /\ s.required \subseteq DOMAIN c.obj
        THEN AllOf([i \in DOMAIN Keys(c) |-> Property(Keys(c)[i])]) ELSE Invalid

\* validate_index, which tries every alternative.
ValidateVariant(s, c) ==
    LET tried == {Validate(s.alternatives[i], c) : i \in DOMAIN s.alternatives}
    IN  IF Throws \in tried THEN Throws ELSE Check(Valid \in tried)

ValidateFactory(s, c) ==
    CASE TypeOf(c) # "obj" \/ s.key \notin DOMAIN c.obj -> Throws
      [] OTHER -> IF TypeOf(c.obj[s.key]) # "str" THEN Throws
                  ELSE IF \A i \in DOMAIN s.makes : s.makes[i].name # c.obj[s.key].str THEN Invalid
                  ELSE Validate(FactorySchemas(s), c)

Validate(s, c) ==
    CASE s.kind = "number"   -> ValidateNumber(s, c)
      [] s.kind = "string"   -> ValidateString(s, c)
      [] s.kind = "enum"     -> ValidateEnum(s, c)
      [] s.kind = "const"    -> ValidateConst(s, c)
      [] s.kind = "optional" -> ValidateOptional(s, c)
      [] s.kind = "vector"   -> ValidateVector(s, c)
      [] s.kind = "array"    -> ValidateArray(s, c)
      [] s.kind = "map"      -> ValidateMap(s, c)
      [] s.kind = "struct"   -> ValidateStruct(s, c)
      [] s.kind = "variant"  -> ValidateVariant(s, c)
      [] s.kind = "factory"  -> ValidateFactory(s, c)
      [] s.kind = "passthru" -> ValidatePassthru(s, c)
      [] s.kind = "confable" -> ValidateConfable(s, c)

----------------------------------------------------------------------------
(* Reading: the value of a variable after it, and whether it has thrown.   *)

Read(v)    == [value |-> v, thrown |-> FALSE]
Refused(v) == [value |-> v, thrown |-> TRUE]

\* A value that a prototype reads into.
RECURSIVE New(_)
New(s) ==
    CASE s.kind = "number"             -> 0
      [] s.kind = "string"             -> ""
      [] s.kind \in {"enum", "const"}  -> s.of
      [] s.kind \in {"optional", "vector"} -> <<>>
      [] s.kind = "array"              -> [i \in 1 .. Cardinality(DOMAIN s.index) |-> New(s.of)]
      [] s.kind \in {"map", "factory"} -> NoItems
      [] s.kind = "passthru"           -> Null
      [] s.kind = "confable"           -> s.initial

\* Read one item after the other with Step, until one throws.
Each(Step(_, _), v, items) ==
    FoldLeft(LAMBDA r, x : IF r.thrown THEN r ELSE Step(r.value, x), Read(v), items)

\* Into(s, v, c): deserialize c into a variable that holds v; FromConf(s, obj, c):
\* from_conf of a schema that points into obj.  Neither validates.
RECURSIVE Into(_, _, _), FromConf(_, _, _)

Fresh(s, c) == Into(s, New(s), c)

IntoNumber(s, v, c) == IF TypeOf(c) = "int" THEN Read(c.int) ELSE Refused(v)
IntoString(s, v, c) == IF TypeOf(c) = "str" THEN Read(c.str) ELSE Refused(v)
IntoEnum(s, v, c)   == IF ValidateEnum(s, c) = Valid THEN Read(c.str) ELSE Refused(v)
IntoConst(s, v, c)  == IF ValidateConst(s, c) = Valid THEN Read(v) ELSE Refused(v)

IntoOptional(s, v, c) ==
    IF c = Null THEN Read(<<>>)
    ELSE LET d == Fresh(s.of, c) IN IF d.thrown THEN Refused(v) ELSE Read(<<d.value>>)

\* Deserialize the items of an array after those of q.
Items(s, q, c) ==
    LET Item(p, x) == LET d == Fresh(s.of, x)
                      IN  IF d.thrown THEN Refused(p) ELSE Read(Append(p, d.value))
    IN  Each(Item, q, c.arr)

\* What a vector keeps of its items: all of them, or none unless it is to be
\* extended.
KeptAlways(s, v) == v
Kept(s, v)       == IF s.extend THEN v ELSE <<>>

IntoVector(s, v, c) == IF TypeOf(c) = "arr" THEN Items(s, Kept(s, v), c) ELSE Refused(Kept(s, v))

\* An array is a member that exists: other elements than those of the input stay.
IntoArray(s, v, c) ==
    LET Set(q, i, d) == [value |-> [q EXCEPT ![i] = d.value], thrown |-> d.thrown]
        Item(q, i)   == LET d == Fresh(s.of, c.arr[i]) IN IF d.thrown THEN Refused(q) ELSE Set(q, i, d)
        Element(q, k) == IF k \notin DOMAIN s.index THEN Refused(q)
                         ELSE Set(q, s.index[k], Into(s.of, q[s.index[k]], c.obj[k]))
    IN  CASE TypeOf(c) = "arr" /\ Len(c.arr) = Len(v) -> Each(Item, v, [i \in DOMAIN v |-> i])
          [] TypeOf(c) = "obj"                        -> Each(Element, v, Keys(c))
          [] OTHER                                    -> Refused(v)

\* insert() leaves entries alone that are there already; from_conf of a map with
\* unique properties stops at such an entry.
Insert(s, v, c, unique) ==
    LET Entry(f, k) == LET d == Fresh(s.of, c.obj[k])
                       IN  IF d.thrown \/ (unique /\ k \in DOMAIN f)
                           THEN Refused(f) ELSE Read(f @@ k :> d.value)
    IN  IF TypeOf(c) = "obj" THEN Each(Entry, v, Keys(c)) ELSE Refused(v)

IntoMap(s, v, c) == Insert(s, v, c, FALSE)

\* The function of a factory makes a Confable and reads the whole input.
IntoFactory(s, v, c) ==
    LET made == SelectSeq(s.makes, LAMBDA f : Str(f.name) = c.obj[s.key])
        d    == Fresh(made[1].makes, c)
    IN  IF made = <<>> \/ d.thrown THEN Refused(v)
        ELSE Read([of |-> made[1].makes, is |-> d.value])

\* from_conf of a Confable; those that keep more than one origin clear() it first,
\* before the input is validated.
Cleared(s, v) == [m \in DOMAIN v |-> IF m \in s.cleared THEN s.initial[m] ELSE v[m]]

IntoConfable(s, v, c) ==
    IF Validate(s.schema, c).ok THEN FromConf(s.schema, Cleared(s, v), c)
                                ELSE Refused(Cleared(s, v))

Into(s, v, c) ==
    CASE s.kind = "number"   -> IntoNumber(s, v, c)
      [] s.kind = "string"   -> IntoString(s, v, c)
      [] s.kind = "enum"     -> IntoEnum(s, v, c)
      [] s.kind = "const"    -> IntoConst(s, v, c)
      [] s.kind = "optional" -> IntoOptional(s, v, c)
      [] s.kind = "vector"   -> IntoVector(s, v, c)
      [] s.kind = "array"    -> IntoArray(s, v, c)
      [] s.kind = "map"      -> IntoMap(s, v, c)
      [] s.kind = "factory"  -> IntoFactory(s, v, c)
      [] s.kind = "passthru" -> Read(c)
      [] s.kind = "confable" -> IntoConfable(s, v, c)

FromStruct(s, obj, c) ==
    LET Property(o, k) ==
            CASE k \in DOMAIN s.properties -> FromConf(s.properties[k], o, c.obj[k])
              [] OTHER                     -> IF s.additional THEN Read(o) ELSE Refused(o)
    IN  IF s.required \subseteq DOMAIN c.obj THEN Each(Property, obj, Keys(c)) ELSE Refused(obj)

\* variant_index: the first alternative that fits.
FromVariant(s, obj, c) ==
    LET Fits(i) == Validate(s.alternatives[i], c).ok
        first   == CHOOSE i \in DOMAIN s.alternatives : Fits(i) /\ \A j \in 1 .. i - 1 : ~Fits(j)
    IN  IF ValidateVariant(s, c).ok THEN FromConf(s.alternatives[first], obj, c) ELSE Refused(obj)

FromConf(s, obj, c) ==
    CASE s.kind = "struct"  -> FromStruct(s, obj, c)
      [] s.kind = "variant" -> FromVariant(s, obj, c)
      [] s.kind = "const"   -> IntoConst(s, obj, c)
      [] OTHER ->
           LET d == IF s.kind = "map" THEN Insert(s, obj[s.ptr], c, s.unique)
                                      ELSE Into(s, obj[s.ptr], c)
           IN  [value |-> [obj EXCEPT ![s.ptr] = d.value], thrown |-> d.thrown]

----------------------------------------------------------------------------
(* Writing.                                                                *)

RECURSIVE Serialize(_, _), ToJson(_, _)

SerializeItems(s, v)   == Arr([i \in DOMAIN v |-> Serialize(s.of, v[i])])
SerializeMap(s, v)     == IF v = NoItems THEN Null ELSE Obj([k \in DOMAIN v |-> Serialize(s.of, v[k])])
SerializeFactory(s, v) == Serialize(v.of, v.is)

Serialize(s, v) ==
    CASE s.kind = "number"              -> Num(v)
      [] s.kind \in {"string", "enum"}  -> Str(v)
      [] s.kind = "optional"            -> IF v = <<>> THEN Null ELSE Serialize(s.of, v[1])
      [] s.kind \in {"vector", "array"} -> SerializeItems(s, v)
      [] s.kind = "map"                 -> SerializeMap(s, v)
      [] s.kind = "factory"             -> SerializeFactory(s, v)
      [] s.kind = "passthru"            -> v
      [] s.kind = "confable"            -> ToJson(s.schema, v)

\* A struct leaves out what is null.
StructToJson(s, obj) ==
    LET all     == [k \in DOMAIN s.properties |-> ToJson(s.properties[k], obj)]
        written == {k \in DOMAIN all : all[k] # Null \/ k \in s.required}
    IN  Obj([k \in written |-> all[k]])

\* is_by_name(), is_from_vehicle(): the object holds what only the second alternative
\* sets.  A variant in itself writes the first one.
Second(s, obj) == "second" \in DOMAIN s /\ obj[s.second] # ""

ToJson(s, obj) ==
    CASE s.kind = "struct"  -> StructToJson(s, obj)
      [] s.kind = "variant" -> ToJson(s.alternatives[IF Second(s, obj) THEN 2 ELSE 1], obj)
      [] s.kind = "const"   -> Str(s.of)
      [] OTHER              -> Serialize(s, obj[s.ptr])

----------------------------------------------------------------------------

Init ==
    /\ type \in DOMAIN Types
    /\ object = Types[type].initial
    /\ input = Obj(NoItems) /\ thrown = FALSE /\ reads = 0

\* Confable::from_conf.
ReadConf ==
    /\ reads < MaxReads /\ reads' = reads + 1
    /\ input' \in Inputs[type]
    /\ \E r \in {Into(Types[type], object, input')} : object' = r.value /\ thrown' = r.thrown
    /\ UNCHANGED type

Next == ReadConf
Spec == Init /\ [][Next]_vars
----------------------------------------------------------------------------
(* Correctness.                                                            *)

\* What a schema's from_conf may stop at half-way although it is valid: entries that a
\* map with unique properties holds already, and the object notation of arrays.
RECURSIVE HalfWay(_, _, _)
HalfWay(s, obj, c) ==
    CASE s.kind = "confable" -> HalfWay(s.schema, obj, c)
      [] s.kind = "struct"   -> /\ TypeOf(c) = "obj"
                                /\ \E k \in DOMAIN c.obj \cap DOMAIN s.properties :
                                      HalfWay(s.properties[k], obj, c.obj[k])
      [] s.kind = "map"      -> /\ s.unique /\ TypeOf(c) = "obj"
                                /\ DOMAIN c.obj \cap DOMAIN obj[s.ptr] # {}
      [] s.kind = "array"    -> TypeOf(c) = "obj"
      [] OTHER               -> FALSE

\* An input is read as a whole or not at all: when from_conf() throws, the object has
\* lost what its type clears before it reads, and is otherwise as it was; whatever is
\* nested in it, what the validation has let pass is read without an exception.  This
\* is so unless a map with unique properties meets an entry again, or the input sets
\* the elements of an array by their index: only there are objects left half-read.
AllOrNothing ==
    [][thrown' => \/ object' = Cleared(Types[type], object)
                  \/ HalfWay(Types[type].schema, object, input')]_vars

Member(j, k) == IF k \in DOMAIN j.obj THEN j.obj[k] ELSE Null

\* Data that is written out agrees with data that was read into new objects.
RECURSIVE Agrees(_, _)
Agrees(c, out) ==
    CASE TypeOf(c) = "obj" -> \A k \in DOMAIN c.obj : Agrees(c.obj[k], Member(out, k))
      [] TypeOf(c) = "arr" -> /\ Len(out.arr) = Len(c.arr)
                              /\ \A i \in DOMAIN c.arr : Agrees(c.arr[i], out.arr[i])
      [] OTHER             -> out = c

\* The entries of a map, which is written as null when it is empty.
Entries(j) == IF j = Null THEN NoItems ELSE j.obj

RECURSIVE Shows(_, _, _, _)
Shows(s, before, after, c) ==
    CASE s.kind = "confable" -> Shows(s.schema, before, after, c)
      [] s.kind = "struct"   ->
           \A k \in DOMAIN s.properties :
               IF k \in DOMAIN c.obj
               THEN Shows(s.properties[k], Member(before, k), Member(after, k), c.obj[k])
               ELSE Member(after, k) = Member(before, k)
      [] s.kind = "vector" /\ s.extend ->
           \E new \in {SubSeq(after.arr, Len(before.arr) + 1, Len(after.arr))} :
               after.arr = before.arr \o new /\ Agrees(c, Arr(new))
      [] s.kind = "map" ->
           /\ DOMAIN Entries(after) = DOMAIN Entries(before) \cup DOMAIN c.obj
           /\ \A k \in DOMAIN Entries(after) :
                 IF k \in DOMAIN Entries(before) THEN Entries(after)[k] = Entries(before)[k]
                                                 ELSE Agrees(c.obj[k], Entries(after)[k])
      [] s.kind = "array" /\ TypeOf(c) = "obj" ->
           \A k \in DOMAIN s.index :
               IF k \in DOMAIN c.obj THEN Agrees(c.obj[k], after.arr[s.index[k]])
                                     ELSE after.arr[s.index[k]] = before.arr[s.index[k]]
      [] OTHER -> Agrees(c, after)

\* After a read, the object writes out what the input said of the members it named, and
\* all other members as before: appended to what was there where a list is to be
\* extended; of a map only the entries that were not there yet, for those that were
\* keep their value; of an array the elements that were named.  What an object was read
\* from before, by another alternative of its schema, does not show.
ReadsWhatItNames ==
    [][(reads' # reads /\ ~thrown')
       => Shows(Types[type], ToJson(Types[type].schema, object),
                ToJson(Types[type].schema, object'), input')]_vars

=============================================================================
