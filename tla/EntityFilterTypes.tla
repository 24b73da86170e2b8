-------------------------- MODULE EntityFilterTypes --------------------------
(***************************************************************************)
(* generateInputTypes of the GraphQL catalog module: the input types that   *)
(* `entities` takes, made from the fields of Entity and of the types that   *)
(* implement it.                                                           *)
(*                                                                         *)
(* The code makes three input types in parallel (EntityOrderField,         *)
(* EntityTextFilterFields and EntityFilterExpression), which differ in the *)
(* names of the leaf key (order, include, values: "value" here) and in list *)
(* wrappers.  They are one here, and a type's name is its place in it.     *)
(*                                                                         *)
(* A schema gives each type its kind, its fields in order, and its subtypes *)
(* (the members of a union, the implementations of an interface, interfaces *)
(* first).  No type is nested in itself: the code would not return.        *)
(***************************************************************************)
EXTENDS Sequences, FiniteSets, SequencesExt

CONSTANTS
    Schemas, \* the schemas that are checked
    NoType   \* a field without @sourceType

TypeKinds == {"leaf", "json", "object", "interface", "union"}

\* A schema has Entity, and a field's type is one of its types.
ASSUME SchemasAssumption ==
    \A s \in Schemas :
        /\ "Entity" \in DOMAIN s
        /\ \A t \in DOMAIN s :
             /\ s[t].kind \in TypeKinds
             /\ \A f \in ToSet(s[t].fields) :
                  {f.type, f.sourceType} \subseteq DOMAIN s \cup {NoType}

VARIABLES
    schema,     \* the schema after its transformation
    inputTypes  \* the fields of the input types; none before they are made, Broken when that threw

-----------------------------------------------------------------------------
FieldType(f) == IF f.sourceType # NoType THEN f.sourceType ELSE f.type

\* @field marks the fields at the top; @resolve takes them from elsewhere.
Considered(f, isNested) == (f.field \/ isNested) /\ ~f.resolve

KindOf(t) ==
    CASE schema[t].kind = "leaf" -> "leaf"
      [] schema[t].kind = "json" -> "raw"
      [] OTHER                   -> "composite"

\* The input types: a config maps the names of fields to these.
NoFields          == <<>>
Leaf              == [kind |-> "leaf", fields |-> NoFields]
Raw               == [kind |-> "raw", fields |-> NoFields]
Composite(config) == [kind |-> "composite", fields |-> config]

\* The kinds that go by a name, each under a key of its own.
KeyOf(kind) ==
    CASE kind = "leaf" -> "value"
      [] kind = "raw"  -> "rawFields"
      [] OTHER         -> "fields"
OfKind(kind, config) ==
    CASE kind = "leaf" -> Leaf
      [] kind = "raw"  -> Raw
      [] OTHER         -> Composite(config)
Mixed(kinds, config) ==
    [kind |-> "mixed",
     fields |-> [key \in {KeyOf(k) : k \in kinds} |->
                    OfKind(CHOOSE k \in kinds : KeyOf(k) = key, config)]]

\* The type of a name that stands for these kinds, the last one added.
\* Faulty: the last kind takes the place of the others.
LastKind(kinds, last, config) == OfKind(last, config)
InputType(kinds, last, config) ==
    IF kinds = {last} THEN OfKind(last, config) ELSE Mixed(kinds, config)

-----------------------------------------------------------------------------
(* What processTypes keeps while it goes through types: the config, and    *)
(* fieldTypes, the kinds of each name it has seen among these types.       *)

KindsOf(acc, n) == IF n \in DOMAIN acc.fieldTypes THEN acc.fieldTypes[n] ELSE {}

\* Stands for the config of an enum or a scalar, where that of an input object is
\* wanted: an input object made of it throws as soon as its fields are asked for.
Broken == [_broken |-> Leaf]

ConfigOf(type) == IF type.kind \in {"leaf", "raw"} THEN Broken ELSE type.fields

\* The config of a name that is composite already.
getTypeConfigs(acc, n) ==
    CASE "composite" \notin KindsOf(acc, n) -> NoFields
      [] {"composite", "leaf"} \subseteq KindsOf(acc, n) ->
            ConfigOf(acc.config[n].fields["fields"])
      [] OTHER -> ConfigOf(acc.config[n])

RECURSIVE processTypes(_, _, _)

\* A leaf or a raw field of a name that has its kind already adds nothing.
AddField(acc, f) ==
    LET kind  == KindOf(FieldType(f))
        kinds == KindsOf(acc, f.name) \cup {kind}
        config == IF kind = "composite"
                  THEN processTypes(<<FieldType(f)>>, TRUE, getTypeConfigs(acc, f.name))
                  ELSE getTypeConfigs(acc, f.name)
    IN  IF kind # "composite" /\ kind \in KindsOf(acc, f.name) THEN acc
        ELSE [config     |-> f.name :> InputType(kinds, kind, config) @@ acc.config,
              fieldTypes |-> f.name :> kinds @@ acc.fieldTypes]

AddFields(acc, t, isNested) ==
    FoldLeft(AddField, acc,
             SelectSeq(schema[t].fields, LAMBDA f : Considered(f, isNested)))

\* A union is its members; an interface is its implementations, with its own
\* fields after them.  Neither hands on what it knows of the kinds.
ProcessType(acc, t, isNested) ==
    LET inner == [acc EXCEPT !.config = processTypes(schema[t].subtypes, isNested, @)] IN
    CASE schema[t].kind = "union"     -> inner
      [] schema[t].kind = "interface" -> AddFields(inner, t, isNested)
      [] OTHER                        -> AddFields(acc, t, isNested)

processTypes(types, isNested, config) ==
    FoldLeft(LAMBDA acc, t : ProcessType(acc, t, isNested),
             [config |-> config, fieldTypes |-> NoFields], types).config

\* When nothing is marked with @field, the input types get a field to be valid.
Dummy == [_dummy |-> Leaf]

RECURSIVE Throws(_)
Throws(config) ==
    \/ "_broken" \in DOMAIN config
    \/ \E n \in DOMAIN config : Throws(config[n].fields)

\* The server does not start when the new types throw.
generateEntitiesQueryInputTypes ==
    LET config == processTypes(<<"Entity">>, FALSE, NoFields)
    IN  IF config = NoFields THEN Dummy ELSE IF Throws(config) THEN Broken ELSE config
=============================================================================
