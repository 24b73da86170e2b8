---------------------------- MODULE EntitiesQuery ----------------------------
(***************************************************************************)
(* The resolver of `entities` in the GraphQL catalog module: it maps an     *)
(* argument of the generated input types to the keys of the catalog's own   *)
(* query.  A key is the path of a source field in the entity.               *)
(*                                                                         *)
(* `order`, `match` and `search` go through three functions, over one map   *)
(* from the paths of GraphQL fields to their source fields.  An argument is *)
(* the input type cut down to the fields that it gives a value.  The values *)
(* are left out, as a raw field's own key is: they are handed on.           *)
(***************************************************************************)
EXTENDS EntityFilterTypes

CONSTANT RawKey \* the key of a raw field

VARIABLES
    fieldMap, \* the map of the resolver, made by its first call
    answer    \* the last call, with the keys that it asks the catalog for

vars == <<schema, inputTypes, fieldMap, answer>>

-----------------------------------------------------------------------------
(* traverseFieldDirectives.                                                *)

Source(f)         == IF f.at # <<>> THEN f.at ELSE <<f.name>>
FieldsAt(m, path) == IF path \in DOMAIN m THEN m[path].fields ELSE {}
IsLeaf(m, path)   == IF path \in DOMAIN m THEN m[path].isLeaf ELSE FALSE
Below(sources)    == {Append(s, RawKey) : s \in sources}

\* What the subtypes map is put together; none of it stays a leaf.
Merged(maps) ==
    [path \in UNION {DOMAIN m : m \in maps} |->
        [isLeaf |-> FALSE, fields |-> UNION {FieldsAt(m, path) : m \in maps}]]

RECURSIVE traverseFieldDirectives(_, _)

\* Faulty: the sources of the parent are those of this field only.
UnderOwnSource(m, f, sub) ==
    [path \in {<<f.name>> \o p : p \in DOMAIN sub} |->
        [isLeaf |-> IsLeaf(m, Tail(path)),
         fields |-> {Source(f) \o s : s \in sub[Tail(path)].fields}]]

\* The fields of a composite field, under its name and its sources.  Whether
\* one is a leaf is looked up under its name at the top.
Under(m, f, sub) ==
    [path \in {<<f.name>> \o p : p \in DOMAIN sub} |->
        [isLeaf |-> IsLeaf(m, Tail(path)),
         fields |-> FieldsAt(m, path) \cup
                    {p \o s : p \in FieldsAt(m, <<f.name>>), s \in sub[Tail(path)].fields}]]

MapField(m, f) ==
    LET composite == KindOf(FieldType(f)) = "composite"
        own == <<f.name>> :> [isLeaf |-> ~composite,
                              fields |-> FieldsAt(m, <<f.name>>) \cup {Source(f)}] @@ m
    IN  IF composite
        THEN Under(own, f, traverseFieldDirectives(FieldType(f), TRUE)) @@ own
        ELSE own

traverseFieldDirectives(t, isNested) ==
    FoldLeft(MapField,
             Merged({traverseFieldDirectives(sub, isNested) : sub \in ToSet(schema[t].subtypes)}),
             SelectSeq(schema[t].fields, LAMBDA f : Considered(f, isNested)))

-----------------------------------------------------------------------------
(* The three functions.                                                    *)

\* An entry of `order` that names two fields, at any depth, is an error.
RECURSIVE Ambiguous(_)
Ambiguous(entry) ==
    \/ Cardinality(DOMAIN entry) > 1
    \/ \E n \in DOMAIN entry : Ambiguous(entry[n].fields)

RECURSIVE mapOrderFieldsToQueryOrder(_, _, _)
mapOrderFieldsToQueryOrder(entry, m, parent) ==
    LET n    == CHOOSE n \in DOMAIN entry : TRUE
        key  == Append(parent, n)
        v    == entry[n]
        \* The value of a mixed field has one key as well.
        part == CHOOSE k \in DOMAIN v.fields : TRUE
    IN  CASE v.kind = "leaf"      -> FieldsAt(m, key)
          [] v.kind = "raw"       -> Below(FieldsAt(m, key))
          [] v.kind = "composite" -> mapOrderFieldsToQueryOrder(v.fields, m, key)
          [] part = "value"       -> FieldsAt(m, key)
          [] part = "rawFields"   -> Below(FieldsAt(m, key))
          [] OTHER -> mapOrderFieldsToQueryOrder(v.fields["fields"].fields, m, key)

\* A set of clauses, all of which must hold: any of a clause's keys may have the
\* value.  An object is taken for a mixed one by the map.
Clause(keys) == [anyOf |-> keys]

RECURSIVE mapMatchFilterToQueryFilter(_, _, _)

Part(object, key, keys) == IF key \in DOMAIN object THEN keys ELSE {}

MatchLeaf(match, m, parent) ==
    Part(match, "value", {Clause(FieldsAt(m, parent))})
    \cup Part(match, "rawFields", {Clause(Below(FieldsAt(m, parent)))})
    \cup IF "fields" \in DOMAIN match
         THEN mapMatchFilterToQueryFilter(match["fields"].fields, m, parent) ELSE {}

MatchField(v, m, key) ==
    CASE v.kind = "leaf" -> {Clause(FieldsAt(m, key))}
      [] v.kind = "raw"  -> {Clause(Below(FieldsAt(m, key)))}
      [] OTHER           -> mapMatchFilterToQueryFilter(v.fields, m, key)

mapMatchFilterToQueryFilter(match, m, parent) ==
    IF IsLeaf(m, parent) THEN MatchLeaf(match, m, parent)
    ELSE UNION {MatchField(match[n], m, Append(parent, n)) : n \in DOMAIN match}

\* A set of keys.
RECURSIVE mapSearchFilterToTextSearch(_, _, _)

SearchLeaf(search, m, parent) ==
    Part(search, "value", FieldsAt(m, parent))
    \cup Part(search, "rawFields", Below(FieldsAt(m, parent)))
    \cup IF "fields" \in DOMAIN search
         THEN mapSearchFilterToTextSearch(search["fields"].fields, m, parent) ELSE {}

\* The sources are looked up under the field's own name.
SearchField(n, v, m, key) ==
    CASE v.kind = "leaf" -> FieldsAt(m, <<n>>)
      [] v.kind = "raw"  -> Below(FieldsAt(m, <<n>>))
      [] OTHER           -> mapSearchFilterToTextSearch(v.fields, m, key)

mapSearchFilterToTextSearch(search, m, parent) ==
    IF IsLeaf(m, parent) THEN SearchLeaf(search, m, parent)
    ELSE UNION {SearchField(n, search[n], m, Append(parent, n)) : n \in DOMAIN search}
-----------------------------------------------------------------------------
(* The arguments that the input types accept: those that name one field,   *)
(* and those that name two at the top.                                     *)

RECURSIVE OneField(_)
OneField(config) ==
    UNION {{n :> [config[n] EXCEPT !.fields = given] :
               given \in IF config[n].fields = NoFields THEN {NoFields}
                         ELSE OneField(config[n].fields)} : n \in DOMAIN config}

Arguments == {one @@ other : one, other \in OneField(inputTypes)}

NoAnswer == [to |-> "none", argument |-> NoFields, keys |-> {}]

\* An answer of `order` has no keys when the argument was an error.
Init ==
    /\ schema \in Schemas
    /\ inputTypes = NoFields
    /\ fieldMap = NoFields
    /\ answer = NoAnswer

\* The schema is transformed when the server starts.
postTransform ==
    /\ inputTypes = NoFields
    /\ inputTypes' = generateEntitiesQueryInputTypes
    /\ UNCHANGED <<schema, fieldMap, answer>>

EnsureFieldMap ==
    fieldMap' = IF fieldMap = NoFields THEN traverseFieldDirectives("Entity", FALSE)
                ELSE fieldMap

entities ==
    /\ inputTypes \notin {NoFields, Broken}
    /\ EnsureFieldMap
    /\ \E a \in Arguments :
         \/ answer' = [to |-> "order", argument |-> a,
                       keys |-> IF Ambiguous(a) THEN {}
                                ELSE mapOrderFieldsToQueryOrder(a, fieldMap', <<>>)]
         \/ answer' = [to |-> "match", argument |-> a,
                       keys |-> mapMatchFilterToQueryFilter(a, fieldMap', <<>>)]
         \/ answer' = [to |-> "search", argument |-> a,
                       keys |-> mapSearchFilterToTextSearch(a, fieldMap', <<>>)]
    /\ UNCHANGED <<schema, inputTypes>>

Next == postTransform \/ entities

Spec == Init /\ [][Next]_vars

-----------------------------------------------------------------------------
(* What a schema declares, field by field, apart from how the code goes     *)
(* through it.                                                             *)

\* The types that an object of type t may be of, t included.
Reach(t) == {t} \cup ToSet(schema[t].subtypes)

Declared(t, isNested) ==
    {f \in UNION {ToSet(schema[u].fields) : u \in Reach(t)} : Considered(f, isNested)}

\* The leaves and raw fields below t.
RECURSIVE Ends(_, _)
Ends(t, isNested) ==
    UNION {LET kind == KindOf(FieldType(f)) IN
           IF kind = "composite"
           THEN {[e EXCEPT !.path = <<f.name>> \o @] : e \in Ends(FieldType(f), TRUE)}
           ELSE {[path |-> <<f.name>>, kind |-> kind]} : f \in Declared(t, isNested)}

\* The source fields of a path.
RECURSIVE Sources(_, _, _)
Sources(t, path, isNested) ==
    UNION {IF Len(path) = 1 THEN {Source(f)}
           ELSE IF KindOf(FieldType(f)) # "composite" THEN {}
           ELSE {Source(f) \o s : s \in Sources(FieldType(f), Tail(path), TRUE)} :
           f \in {g \in Declared(t, isNested) : g.name = Head(path)}}

Keys(e) ==
    IF e.kind = "raw" THEN Below(Sources("Entity", e.path, FALSE))
    ELSE Sources("Entity", e.path, FALSE)

\* The leaves and raw fields that an argument names.  The key of a part of a
\* mixed field is not a name of its own.
RECURSIVE Named(_)
Named(argument) ==
    UNION {LET v == argument[n] IN
           IF v.fields = NoFields THEN {[path |-> <<n>>, kind |-> v.kind]}
           ELSE {[e EXCEPT !.path = <<n>> \o (IF v.kind = "mixed" THEN Tail(@) ELSE @)] :
                    e \in Named(v.fields)} : n \in DOMAIN argument}

\* The kinds that a name stands for in the types of Entity, in their order.
KindsInOrder(n) ==
    LET At(t) == SelectSeq(schema[t].fields, LAMBDA f : f.name = n /\ Considered(f, FALSE))
    IN  FoldLeft(LAMBDA kinds, t : kinds \o [i \in DOMAIN At(t) |-> KindOf(FieldType(At(t)[i]))],
                 <<>>, schema["Entity"].subtypes)

\* A name stands for objects and for raw fields, and is met again as something else
\* than a raw field: the code then takes the input type of both for that of the objects.
MetAroundRaw(n) ==
    LET kinds == KindsInOrder(n) IN
    \E i \in 1..(Len(kinds) - 1) :
        ToSet(SubSeq(kinds, 1, i)) = {"raw", "composite"} /\ kinds[i + 1] # "raw"

\* An object in one interface, a name is a leaf or raw in the implementations of a
\* later one, which put their input type in the object's place.
Overwritten(n) ==
    LET types == schema["Entity"].subtypes
        Has(t, kinds) == \E f \in Declared(t, FALSE) : f.name = n /\ KindOf(FieldType(f)) \in kinds
    IN  \E i, j \in DOMAIN types :
            i < j /\ Has(types[i], {"composite"}) /\ schema[types[j]].subtypes # <<>>
                  /\ Has(types[j], {"leaf", "raw"})

Names == {f.name : f \in Declared("Entity", FALSE)}

RECURSIVE HasMixed(_)
HasMixed(argument) ==
    \E n \in DOMAIN argument :
        argument[n].kind = "mixed" \/ HasMixed(argument[n].fields)

\* An object within a field of Entity goes by the name of a leaf of Entity.
IsLeafOfEntity(n) ==
    \E f \in ToSet(schema["Entity"].fields) : f.name = n /\ KindOf(FieldType(f)) # "composite"
Shadowed(argument) ==
    \E n \in {f.name : f \in ToSet(schema["Entity"].fields)} \cap DOMAIN argument :
        \E x \in DOMAIN argument[n].fields :
            argument[n].fields[x].kind = "composite" /\ IsLeafOfEntity(x)

\* What a match asks for one field that it gives values: its source fields, but for the
\* two forms that are taken for something else.
MatchFor(one) ==
    CASE Shadowed(one) -> {}
      [] HasMixed(one) -> {Clause({})}
      [] OTHER         -> {Clause(Keys(e)) : e \in Named(one)}

\* What a search asks for one field: the source fields of that name at the top.
SearchFor(one) ==
    UNION {IF HasMixed(one) /\ Len(e.path) = 1 THEN {}
           ELSE Keys([e EXCEPT !.path = <<Last(@)>>]) : e \in Named(one)}

Each(argument) == {n :> argument[n] : n \in DOMAIN argument}

-----------------------------------------------------------------------------
(* Safety.                                                                 *)

\* The server starts, and its input types accept each leaf and each raw field that the
\* schema declares, and nothing else, whatever the types have under the same names; but
\* for a name that one interface overwrites in another, with which it does not start, and
\* for what goes by a name that is met around a raw field.
InputsAreDeclared ==
    LET declared == Ends("Entity", FALSE)
        accepted == UNION {Named(a) : a \in OneField(inputTypes)}
    IN  /\ inputTypes = Broken => \E n \in Names : Overwritten(n)
        /\ inputTypes \notin {NoFields, Broken} =>
              IF declared = {} THEN inputTypes = Dummy
              ELSE \A e \in (declared \ accepted) \cup (accepted \ declared) :
                      MetAroundRaw(Head(e.path))

\* The catalog is asked for exactly the source fields that the schema declares for what
\* an order or a match names, and a search for those of the same name at the top.  Two
\* forms of match are not: of a field that is a leaf in one type and an object in another
\* (the form that common.graphql documents) the clause has no key, and of an object with
\* the name of a leaf of Entity there is no clause.
AnsweredAsDeclared ==
    inputTypes # Dummy =>
        /\ answer.to = "order" /\ ~Ambiguous(answer.argument) =>
              answer.keys = UNION {Keys(e) : e \in Named(answer.argument)}
        /\ answer.to = "match" =>
              answer.keys = UNION {MatchFor(one) : one \in Each(answer.argument)}
        /\ answer.to = "search" =>
              answer.keys = UNION {SearchFor(one) : one \in Each(answer.argument)}
=============================================================================
