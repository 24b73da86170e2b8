-------------------------- MODULE MCScaffolderTask --------------------------
(* Instances of ScaffolderTask for TLC.                                    *)
EXTENDS ScaffolderTask

Document(entity, metadata, spec) ==
    [entity |-> entity,
     contents |-> YAMLMap([metadata |-> YAMLMap(metadata), spec |-> YAMLMap(spec)])]

\* A file with a component, which has a list of dependencies, a system, which
\* has none, and a document that is no entity.
CatalogInfo ==
    <<Document("component", [annotations |-> YAMLMap([team |-> Scalar("a")])],
                            [dependsOn |-> YAMLSeq(<<Scalar("b")>>), lifecycle |-> Scalar("c")]),
      Document("system", [tier |-> Scalar("d")], [owner |-> Scalar("e")])>>

OtherDocuments ==
    <<Document(None, [tier |-> Scalar("f")], [owner |-> Scalar("g")])>>

TwoFiles == {"catalog-info", "values"}
OneRepository == [f \in TwoFiles |-> IF f = "values" THEN OtherDocuments ELSE CatalogInfo]
OneShared == [f \in TwoFiles |-> IF f = "values" THEN OtherDocuments ELSE None]

Yaml(action, from, file, entityRef, path, value) ==
    [action |-> action, from |-> from, file |-> file, entityRef |-> entityRef,
     path |-> path, value |-> value]

SetOwner(from, file, ref) == Yaml("yaml:set", from, file, ref, <<"spec", "owner">>, "new")
SetTier(ref, value) == Yaml("yaml:set", "relative", "values", ref, <<"metadata", "tier">>, value)
SetNew(ref) == Yaml("yaml:set", "relative", "catalog-info", ref, <<"spec", "links", "home">>, "new")
SetBelow(ref) == Yaml("yaml:set", "relative", "catalog-info", ref, <<"spec", "owner", "x">>, "new")
SetOver(ref) == Yaml("yaml:set", "relative", "catalog-info", ref, <<"spec", "links">>, "over")
AppendTo(from, ref, value) == Yaml("yaml:append", from, "catalog-info", ref, <<"spec", "dependsOn">>, value)
AppendBad(ref) == Yaml("yaml:append", "relative", "catalog-info", ref, <<"spec", "owner">>, "new")
Annotate(ref) == Yaml("backend:add-annotation", "url", "catalog-info", ref, <<>>, "")
Create == Yaml("humanitec:create-app", "relative", "setup", None, <<>>, "")

\* The sequences of steps: edits of one file by entity and without, with a url
\* again in between, edits that throw, and annotations; and the setup file.
SomeTemplates == {
    <<AppendTo("url", "component", "x"), AppendTo("relative", "component", "y"), SetNew("component"),
      SetOwner("relative", "catalog-info", "system"), SetOver("component")>>,
    <<AppendTo("url", None, "x"), SetTier(None, "old"), SetTier("system", "new"), SetBelow("system"), Create>>,
    <<Annotate("system"), AppendTo("relative", "system", "x"), AppendTo("relative", "component", "y"),
      AppendBad("system")>>,
    <<Annotate("component"), SetOwner("absolute", "values", "system"), Annotate("system")>>,
    <<SetNew("system"), SetOwner("url", "catalog-info", "system")>>,
    <<SetOwner("url", "catalog-info", "system"), AppendTo("url", "component", "y"), SetNew(None),
      SetOwner("absolute", "catalog-info", "system")>>,
    <<Create>> }

TwoApps == <<
    [id |-> "one", environments |-> <<"dev", "prod">>, automations |-> <<>>],
    [id |-> "two", environments |-> <<>>, automations |-> <<"dev">>]>>
=============================================================================
