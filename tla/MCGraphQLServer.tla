--------------------------- MODULE MCGraphQLServer ---------------------------
(* Instances of GraphQLServer for TLC.                                      *)
EXTENDS GraphQLServer

Feature(ids, names, keys, awaits) ==
    [modules |-> ids, loaders |-> names, context |-> keys, awaits |-> awaits]

\* The two modules of this repository, which share a loader, and one of the form
\* that the README of the backend shows, which brings a module of its own and one
\* with the id of the catalog's, and sets a context that the catalog sets, too.
SomeFeatures ==
    [catalog |-> Feature(<<"catalog-entities">>, {"Catalog"}, {"catalog"}, FALSE),
     relation |-> Feature(<<"catalog-relation">>, {"Catalog"}, {"catalog"}, FALSE),
     own |-> Feature(<<"own", "more">>, {"Own"}, {"catalog", "own"}, TRUE),
     again |-> Feature(<<"more", "catalog-entities", "again">>, {}, {"request"}, FALSE),
     late |-> Feature(<<"late", "catalog-entities">>, {"Late"}, {}, TRUE)]

SomeInstallations ==
    {{"catalog"}, {"catalog", "own"}, {"catalog", "relation"}, {"catalog", "own", "again"},
     {"catalog", "late"}}

ThreeUids == 1 .. 3

\* Like B, a and b: a capital sorts before the small letters.
ThreeValues == 1 .. 3
InLowerCase == [value \in ThreeValues |-> IF value = 1 THEN 3 ELSE value]

EntityStarts ==
    {[catalog |-> c, relations |-> <<>>] : c \in [ThreeUids -> ThreeValues \cup {None}]}

Walked(u) == [type |-> "walked", target |-> u]
Other(u) == [type |-> "other", target |-> u]

RelationStarts ==
    {[catalog |-> [u \in ThreeUids |-> IF u = 3 THEN None ELSE 1], relations |-> r] :
        r \in {<<Walked(1), Walked(2), Walked(3), Walked(1), Walked(2)>>,
               <<Walked(2), Other(1), Walked(3), Other(2), Walked(1)>>}}

SomeStarts == EntityStarts \cup RelationStarts

SomeBatches == {<<1>>, <<None, 2>>, <<3, None, 1>>, <<2, 3, None>>}
=============================================================================
