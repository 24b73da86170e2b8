--------------------------- MODULE MCEntitiesQuery ---------------------------
(* Small schemas.  Entity may have the fields d and a; the interface Comp   *)
(* with its implementation Svc, the interface Res with Db, and the object   *)
(* Loc may each have a field b.  Svc has a field h without @field, which    *)
(* `entities` must not take.                                               *)
EXTENDS EntitiesQuery

CONSTANT None \* no such field

Field(name, type, at) ==
    [name |-> name, type |-> type, at |-> at, field |-> TRUE, resolve |-> FALSE,
     sourceType |-> NoType]
Nested(name, type) == [Field(name, type, <<>>) EXCEPT !.field = FALSE]
Optional(name, type, at) == IF type = None THEN <<>> ELSE <<Field(name, type, at)>>

Type(kind, fields, subtypes) == [kind |-> kind, fields |-> fields, subtypes |-> subtypes]

Shared ==
    [String |-> Type("leaf", <<>>, <<>>),
     JSONObject |-> Type("json", <<>>, <<>>),
     T |-> Type("object", <<Nested("a", "String"), Nested("d", "V")>>, <<>>),
     U |-> Type("object", <<Field("c", "String", <<"x", "c">>), Nested("e", "JSONObject")>>, <<>>),
     V |-> Type("object", <<Nested("f", "String"),
                            [Nested("g", "String") EXCEPT !.resolve = TRUE]>>, <<>>),
     W |-> Type("union", <<>>, <<"T", "U">>),
     X |-> Type("object", <<Nested("d", "V"), Nested("e", "U")>>, <<>>),
     I |-> Type("interface", <<Nested("d", "V")>>, <<"O">>),
     \* The implementation has a source of its own.
     O |-> Type("object", <<Field("d", "V", <<"o", "d">>)>>, <<>>)]

SchemaOf(d, a, b, res, loc) ==
    LET base   == Optional("d", d, <<"meta", "d">>) \o Optional("a", a, <<"meta", "a">>)
        comp   == base \o Optional("b", b, <<"spec", "b">>)
        svc    == base \o Optional("b", b, <<"spec", "svc">>)
        \* Like the labels of the catalog's own schema.
        labels == IF loc = None THEN <<>>
                  ELSE <<[Field("l", "T", <<>>) EXCEPT !.sourceType = "JSONObject"]>>
    IN  [Entity |-> Type("interface", base, <<"Comp", "Res", "Svc", "Db", "Loc">>),
         Comp |-> Type("interface", comp, <<"Svc">>),
         Svc |-> Type("object", Append(svc, Nested("h", "String")), <<>>),
         Res |-> Type("interface", base \o Optional("b", res, <<"spec", "res">>), <<"Db">>),
         Db |-> Type("object", base \o Optional("b", res, <<"spec", "db">>), <<>>),
         Loc |-> Type("object", base \o Optional("b", loc, <<"spec", "loc">>) \o labels, <<>>)]
        @@ Shared

\* Two types beside each other with every pair of kinds; a second interface with an
\* implementation, which overwrites what the first has and meets names once more; and
\* a leaf of Entity whose name objects have within a.
Kinds == {None, "String", "JSONObject", "T", "U", "W", "I"}
Plain == {None, "String", "JSONObject", "T"}
MCSchemas ==
    {SchemaOf(None, a, b, None, loc) : a \in Plain, b \in Kinds, loc \in Kinds}
    \cup {SchemaOf(None, None, b, res, loc) :
             b \in Kinds, res \in {"String", "JSONObject", "T", "U"}, loc \in Kinds}
    \cup {SchemaOf("String", a, b, None, None) : a \in {"String", "T", "X"}, b \in Plain \cup {"X"}}
=============================================================================
