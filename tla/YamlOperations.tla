--------------------------- MODULE YamlOperations ---------------------------
(***************************************************************************)
(* What the YAML actions make of the documents of a file:                  *)
(* plugins/scaffolder-yaml-actions/src/operations, and the loop of         *)
(* packages/backend's add-annotation.                                      *)
(*                                                                         *)
(* A document is the entity that it describes, if any, and a tree of nodes;*)
(* a path is a sequence of keys (splitPath).                               *)
(***************************************************************************)
EXTENDS Naturals, SequencesExt

CONSTANT None   \* no entity, no entityRef, no documents

Undefined == [kind |-> "undefined"]
Scalar(value) == [kind |-> "scalar", value |-> value]
YAMLSeq(items) == [kind |-> "seq", items |-> items]
YAMLMap(entries) == [kind |-> "map", entries |-> entries]

isMap(node) == node.kind = "map"

Child(node, key) ==
    IF isMap(node) /\ key \in DOMAIN node.entries THEN node.entries[key] ELSE Undefined

\* getIn: undefined as soon as something on the path is not a collection, and
\* for the empty path.
NodesAlong(contents, keys) ==
    LET at[i \in 0 .. Len(keys)] == IF i = 0 THEN contents ELSE Child(at[i - 1], keys[i])
    IN  at

getIn(contents, keys) ==
    IF keys = <<>> THEN Undefined ELSE NodesAlong(contents, keys)[Len(keys)]

\* Faulty: what else the map has is forgotten.
OnlyTheEntry(node, key, value) == YAMLMap([k \in {key} |-> value])

WithEntry(node, key, value) ==
    LET entries == IF isMap(node) THEN node.entries ELSE <<>>
    IN  YAMLMap([k \in DOMAIN entries \cup {key} |-> IF k = key THEN value ELSE entries[k]])

\* The tree with a value at the path, and maps on the way to it.  The keys
\* name entries of maps; a sequence is reached by none of them.
SetIn(contents, keys, value) ==
    LET along == NodesAlong(contents, keys)
        n == Len(keys)
        up[j \in 0 .. n] == IF j = 0 THEN value
                            ELSE WithEntry(along[n - j], keys[n - j + 1], up[j - 1])
    IN  up[n]

\* Faulty: the entity is not looked at.
SkipsNothing(document, entityRef) == FALSE

\* Documents that are no entity are not told apart by the ref.
Skips(document, entityRef) ==
    /\ document.entity # None /\ entityRef # None
    /\ document.entity # entityRef

\* An edit of a document: what it becomes, and whether it throws on the way.
Edit(throws, contents) == [throws |-> throws, contents |-> contents]

\* set goes through the keys but the last: what it finds there must be a map.
\* Without a key it does nothing.
set(contents, keys, value) ==
    LET along == NodesAlong(contents, keys)
    IN  Edit(\E i \in 1 .. Len(keys) - 1 : along[i].kind \in {"scalar", "seq"},
             IF keys = <<>> THEN contents ELSE SetIn(contents, keys, Scalar(value)))

\* append makes the collection when the parent is there, and says nothing when
\* it is not; getIn finds no parent for a path of one key.
append(contents, keys, value) ==
    LET node == getIn(contents, keys)
        parent == getIn(contents, Front(keys))
    IN  Edit(node.kind \notin {"undefined", "seq"},
             IF node.kind = "seq"
             THEN SetIn(contents, keys, YAMLSeq(Append(node.items, Scalar(value))))
             ELSE IF isMap(parent)
             THEN SetIn(contents, keys, YAMLSeq(<<Scalar(value)>>))
             ELSE contents)

\* add-annotation sets one key of metadata.annotations; an annotations that is
\* missing is made.
Annotations == <<"metadata", "annotations">>
addAnnotation(contents, value) ==
    LET annotations == getIn(contents, Annotations)
    IN  Edit(~isMap(getIn(contents, <<"metadata">>)) \/ annotations.kind \in {"scalar", "seq"},
             SetIn(contents, Append(Annotations, "techdocs-ref"), Scalar(value)))

\* The edits of the documents of a file, one after the other: none of them is
\* written when one throws.
EditAll(documents, edits, skips) ==
    IF \E i \in DOMAIN documents : ~skips[i] /\ (~isMap(documents[i].contents) \/ edits[i].throws)
    THEN None
    ELSE [i \in DOMAIN documents |->
            IF skips[i] THEN documents[i]
            ELSE [documents[i] EXCEPT !.contents = edits[i].contents]]
=============================================================================
