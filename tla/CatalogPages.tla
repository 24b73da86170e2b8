---------------------------- MODULE CatalogPages ----------------------------
(***************************************************************************)
(* A client that walks through a connection of the GraphQL catalog module, *)
(* page after page, while the catalog changes: the query `entities`        *)
(* (resolvers.ts) and a relation of an entity (relationDirectiveMapper.ts, *)
(* entitiesLoadFn.ts).                                                     *)
(*                                                                         *)
(* A row is what a connection is ordered by, and a name: what the catalog  *)
(* sorts an entity by and its uid, or the offset and the target of a       *)
(* relation.  The catalog sorts by the value of the order field in lower   *)
(* case; the resolver has only the value as the entity writes it.          *)
(***************************************************************************)
EXTENDS Integers, SequencesExt, FiniteSetsExt

CONSTANTS
    None,
    Missing,        \* the error that an entity could not be loaded
    Undefined,      \* no answer
    Uids,           \* the entities, numbered as their uids sort
    Values,         \* the values of the order field
    Folded,         \* value -> the same in lower case
    RelationTypes,  \* the types of relations; the walked one is "walked"
    Sizes,          \* the page sizes of clients
    Starts,         \* what the catalog has at first: [catalog, relations]
    Batches,        \* the queries that a client asks for nodes with
    MaxChanges      \* bound: changes of the catalog

AllRows == Values \X Uids
Orders  == {"asc", "desc"}
Cursors == [order: Orders, at: AllRows, begin: AllRows]

\* A row as the catalog has it.
FoldedRow(row) == <<Folded[row[1]], row[2]>>

ASSUME RowsAssumption == Values \subseteq Int /\ Uids \subseteq Int /\ IsFiniteSet(Uids)
ASSUME FoldedAssumption ==
    Folded \in [Values -> Values] /\ \A value \in Values : Folded[Folded[value]] = Folded[value]
ASSUME NoneAssumption ==
    /\ None \notin Uids /\ None \notin Values /\ None \notin Nat
    /\ None \notin AllRows /\ None \notin Nat \X Uids /\ None \notin Cursors
ASSUME AnswersAssumption ==
    /\ Missing \notin Uids /\ Undefined \notin Uids
    /\ None # Missing /\ Missing # Undefined
ASSUME StartsAssumption ==
    \A start \in Starts :
        /\ start.catalog \in [Uids -> Values \cup {None}]
        /\ start.relations \in Seq([type: RelationTypes, target: Uids])
ASSUME BatchesAssumption == \A batch \in Batches : batch \in Seq(Uids \cup {None})
ASSUME BoundsAssumption == MaxChanges \in Nat /\ Sizes \subseteq Nat \ {0}

VARIABLES
    catalog,    \* uid -> the value of the order field, or None
    relations,  \* the relations of one more entity: a sequence of [type, target]
    walk,       \* what the client asks for, and where it came from
    page,       \* the page it is at
    loading,    \* the queries that the data loader of the request has to answer
    loaded,     \* query number -> what the loader answered
    settled,    \* history: the rows that are unchanged since the walk began
    shrunk,     \* history: a relation was removed since
    changes

pageVars == <<catalog, relations, walk, page, loading, loaded, settled, shrunk, changes>>

-----------------------------------------------------------------------------
(* External: the catalog's queryEntities.                                  *)

Precedes(a, b) == a[1] < b[1] \/ (a[1] = b[1] /\ a[2] < b[2])

InOrder(order, a, b) == IF order = "asc" THEN Precedes(a, b) ELSE Precedes(b, a)

Present == {u \in Uids : catalog[u] # None}

PresentRows == {<<Folded[catalog[u]], u>> : u \in Present}

Sorted(rows, order) ==
    CHOOSE sorted \in [1 .. Cardinality(rows) -> rows] :
        \A i, j \in DOMAIN sorted : i < j => InOrder(order, sorted[i], sorted[j])

\* The rows on the side of the cursor that isPrevious tells: those next to it, in
\* order.  Without a first row in the cursor the query is taken for the first one.
\* A page without rows has no cursors.
queryEntities(cursor, limit) ==
    LET side(row) == \/ cursor.at = None
                     \/ IF cursor.isPrevious THEN InOrder(cursor.order, row, cursor.at)
                        ELSE InOrder(cursor.order, cursor.at, row)
        beyond == Sorted({row \in PresentRows : side(row)}, cursor.order)
        n == Len(beyond)
        items == IF cursor.isPrevious THEN SubSeq(beyond, Max({1, n - limit + 1}), n)
                 ELSE SubSeq(beyond, 1, Min({limit, n}))
        begin == IF cursor.begin # None THEN cursor.begin ELSE items[1]
        at(row) == [order |-> cursor.order, at |-> row, begin |-> begin]
    IN  [items |-> items,
         next |-> IF items # <<>> /\ (cursor.isPrevious \/ n > limit) THEN at(Last(items)) ELSE None,
         prev |-> IF items # <<>> /\ cursor.begin # None /\ cursor.begin # items[1]
                  THEN at(items[1]) ELSE None]

-----------------------------------------------------------------------------
(* The resolver of `entities`.                                             *)

\* The arguments: a page forward after a cursor, or backward before one.
Forward(size, cursor) == [first |-> size, after |-> cursor, last |-> None, before |-> None]
Backward(size, cursor) == [first |-> None, after |-> None, last |-> size, before |-> cursor]

Or(a, b) == IF a # None THEN a ELSE b

decodedCursor(args) == Or(args.after, args.before)

\* The order is asked for by the first request; later ones have it in the cursor.
cursorObject(args, order) ==
    IF decodedCursor(args) # None THEN decodedCursor(args)
    ELSE [order |-> order, at |-> None, begin |-> None]

\* Faulty: asked for by the arguments that have the size alone.
PreviousByCursor(args) == args.after = None /\ args.before # None

isPrevious(args) ==
    \/ args.first = None /\ args.last # None
    \/ args.after = None /\ args.before # None

limit(args) ==
    IF args.before # None THEN args.last
    ELSE IF args.after # None THEN args.first
    ELSE Or(args.first, args.last)

\* What the entity of a row has in the order field, in place of what it is sorted by.
AsWritten(row) == <<catalog[row[2]], row[2]>>

\* Faulty: the spread of the cursor comes first.
EdgeCursorBeginsHere(object, items, i) ==
    [order |-> object.order, at |-> AsWritten(items[i]), begin |-> AsWritten(items[1])]

\* The first row of the page stands for the first of all when the cursor of the
\* request had none.
EdgeCursor(object, items, i) ==
    [order |-> object.order, at |-> AsWritten(items[i]),
     begin |-> Or(object.begin, AsWritten(items[1]))]

entitiesPage(args, order) ==
    LET object == cursorObject(args, order)
        answer == queryEntities([order |-> object.order, at |-> object.at, begin |-> object.begin,
                                 isPrevious |-> isPrevious(args)], limit(args))
    IN  [items |-> answer.items,
         cursors |-> [i \in DOMAIN answer.items |-> EdgeCursor(object, answer.items, i)],
         startCursor |-> answer.prev, endCursor |-> answer.next,
         hasPreviousPage |-> answer.prev # None, hasNextPage |-> answer.next # None]

-----------------------------------------------------------------------------
(* The resolver of a relation.                                             *)

\* The relations of the directive's type and kind are one type here.
filterEntityRefs(type) ==
    FlattenSeq([i \in DOMAIN relations |->
        IF relations[i].type = type THEN <<relations[i]>> ELSE <<>>])

\* External: graphql-relay.  A cursor is an offset; one that the list does not
\* have is ignored, except for the bounds of the flags.
connectionFromArray(refs, args) ==
    LET n == Len(refs)
        known(cursor) == cursor # None /\ cursor \in 0 .. n - 1
        from == IF known(args.after) THEN args.after + 1 ELSE 0
        to == IF known(args.before) THEN args.before ELSE n
        end == IF args.first = None THEN to ELSE Min({to, from + args.first})
        start == IF args.last = None THEN from ELSE Max({from, end - args.last})
        items == [i \in 1 .. end - start |-> <<start + i - 1, refs[start + i].target>>]
    IN  [items |-> items,
         cursors |-> [i \in DOMAIN items |-> items[i][1]],
         startCursor |-> IF items = <<>> THEN None ELSE Head(items)[1],
         endCursor |-> IF items = <<>> THEN None ELSE Last(items)[1],
         hasPreviousPage |-> args.last # None /\
                start > (IF args.after = None THEN 0 ELSE args.after + 1),
         hasNextPage |-> args.first # None /\
                end < (IF args.before = None THEN n ELSE args.before)]

relationPage(args) == connectionFromArray(filterEntityRefs("walked"), args)

-----------------------------------------------------------------------------
(* The data loader.                                                        *)

\* External: the answer has a place for each of the refs.
getEntitiesByRefs(refs) == [k \in DOMAIN refs |-> IF refs[k] \in Present THEN refs[k] ELSE None]

\* Faulty: the answers are taken in the order of the queries.
LoadsInOrder(queries) ==
    LET items == getEntitiesByRefs(SelectSeq(queries, LAMBDA ref : ref # None))
    IN  [i \in DOMAIN queries |->
            IF i \in DOMAIN items THEN Or(items[i], Missing) ELSE Undefined]

\* A query without a ref is not asked of the catalog, and has no answer.
createCatalogLoader(queries) ==
    LET refEntries == FlattenSeq([i \in DOMAIN queries |->
                                    IF queries[i] = None THEN <<>> ELSE <<i>>])
        items == getEntitiesByRefs([k \in DOMAIN refEntries |-> queries[refEntries[k]]])
    IN  [i \in DOMAIN queries |->
            IF queries[i] = None THEN Undefined
            ELSE Or(items[CHOOSE k \in DOMAIN refEntries : refEntries[k] = i], Missing)]

-----------------------------------------------------------------------------
NoPage == [items |-> <<>>, cursors |-> <<>>, startCursor |-> None, endCursor |-> None,
           hasPreviousPage |-> FALSE, hasNextPage |-> FALSE]

NoWalk == [field |-> "none", order |-> "asc", size |-> 0, began |-> "first",
           moved |-> "start", left |-> None, from |-> None]

PagesInit ==
    /\ \E start \in Starts : catalog = start.catalog /\ relations = start.relations
    /\ walk = NoWalk /\ page = NoPage
    /\ loading = <<>> /\ loaded = <<>>
    /\ settled = {} /\ shrunk = FALSE
    /\ changes = 0

RowsOf(field) ==
    IF field = "entities" THEN PresentRows
    ELSE ToSet(connectionFromArray(filterEntityRefs("walked"), Forward(Len(relations), None)).items)

\* The answer to a request: a relation then loads the nodes of its page.
Answer(field, args, order) ==
    /\ loading = <<>>
    /\ page' = IF field = "entities" THEN entitiesPage(args, order) ELSE relationPage(args)
    /\ loading' = IF field = "entities" THEN <<>> ELSE [i \in DOMAIN page'.items |-> page'.items[i][2]]
    /\ loaded' = <<>>
    /\ UNCHANGED <<catalog, relations, changes>>

\* The first request of a walk.
Begin(field, order, size, began) ==
    /\ walk = NoWalk
    /\ field = "relation" => order = "asc"
    /\ walk' = [field |-> field, order |-> order, size |-> size, began |-> began,
                moved |-> "start", left |-> None, from |-> None]
    /\ settled' = RowsOf(field) /\ shrunk' = FALSE
    /\ Answer(field, IF began = "first" THEN Forward(size, None) ELSE Backward(size, None), order)

\* From a row to the page behind a cursor that stands for it: where the walk came
\* from is where the cursor stands.
Move(args, cursor, moved, row) ==
    /\ Answer(walk.field, args, walk.order)
    /\ walk' = [walk EXCEPT !.moved = moved, !.left = row,
                            !.from = IF walk.field = "entities" THEN cursor.at ELSE row]
    /\ UNCHANGED <<settled, shrunk>>

\* The next page: after the end of this one, or after its last edge.
GoOn ==
    /\ page.items # <<>>
    /\ \E cursor \in {Last(page.cursors)} \cup (IF page.hasNextPage THEN {page.endCursor} ELSE {}) :
            Move(Forward(walk.size, cursor), cursor, "on", Last(page.items))

GoBack ==
    /\ page.items # <<>>
    /\ \E cursor \in {Head(page.cursors)} \cup (IF page.hasPreviousPage THEN {page.startCursor} ELSE {}) :
            Move(Backward(walk.size, cursor), cursor, "back", Head(page.items))

\* Nodes are asked for by their ids, which may have no ref.
AskForNodes(queries) ==
    /\ walk = NoWalk /\ loading = <<>>
    /\ loading' = queries /\ loaded' = <<>>
    /\ UNCHANGED <<catalog, relations, walk, page, settled, shrunk, changes>>

\* The batch of a request is loaded.
Load ==
    /\ loading # <<>> /\ loaded = <<>>
    /\ loaded' = createCatalogLoader(loading)
    /\ UNCHANGED <<catalog, relations, walk, page, loading, settled, shrunk, changes>>

\* loadMany is answered: an entity that could not be loaded is an error, which is
\* no reason to leave a node out.
Respond ==
    /\ loaded # <<>>
    /\ loading' = <<>> /\ loaded' = <<>>
    /\ UNCHANGED <<catalog, relations, walk, page, settled, shrunk, changes>>

\* The catalog changes: an entity, or the relations.
CatalogChanges ==
    /\ changes < MaxChanges /\ changes' = changes + 1
    /\ \/ /\ \E u \in Uids : \E value \in Values \cup {None} :
                /\ value # catalog[u]
                /\ catalog' = [catalog EXCEPT ![u] = value]
          /\ UNCHANGED <<relations, shrunk>>
       \/ /\ \E type \in RelationTypes, target \in Uids :
                relations' = Append(relations, [type |-> type, target |-> target])
          /\ UNCHANGED <<catalog, shrunk>>
       \/ /\ \E i \in DOMAIN relations : relations' = RemoveAt(relations, i)
          /\ shrunk' = TRUE
          /\ UNCHANGED catalog
    /\ UNCHANGED <<walk, page, loading, loaded>>
    /\ settled' = settled \cap RowsOf(walk.field)'

PagesNext ==
    \/ \E field \in {"entities", "relation"}, order \in Orders, size \in Sizes,
          began \in {"first", "last"} : Begin(field, order, size, began)
    \/ GoOn
    \/ GoBack
    \/ \E queries \in Batches : AskForNodes(queries)
    \/ Load
    \/ Respond
    \/ CatalogChanges

-----------------------------------------------------------------------------
(* Properties.                                                             *)

\* The rows that a page stands for: from where the client came to the far end of
\* the page, and all that are left when it is not full or says that it is the last.
Stands(row) ==
    LET before(a, b) == IF walk.moved = "back" \/ (walk.moved = "start" /\ walk.began = "last")
                        THEN InOrder(walk.order, b, a) ELSE InOrder(walk.order, a, b)
        forward == walk.moved = "on" \/ (walk.moved = "start" /\ walk.began = "first")
        far == IF forward THEN Last(page.items) ELSE Head(page.items)
    IN  /\ walk.from = None \/ before(walk.from, row)
        /\ \/ Len(page.items) < walk.size
           \/ forward /\ ~page.hasNextPage
           \/ before(row, far)

\* A client that goes back and forth with the cursors of the edges or those of the
\* page, while entities and relations come and others change or go, is shown every
\* row that was there all along and is in order, and none that it has passed, as seen
\* from where its cursor stands; that is at the row it was at, but for the case of an
\* edge's value, which the catalog takes as it is: no more than the rows between the
\* two is left out, or shown again.  A list of relations out of which one is removed
\* is the exception, as its cursors are offsets.
WalkSkipsNothing ==
    walk.field \in {"entities", "relation"} /\ ~(walk.field = "relation" /\ shrunk) =>
        /\ \A row \in settled : Stands(row) => row \in ToSet(page.items)
        /\ \A i \in DOMAIN page.items :
            /\ walk.moved = "on" => InOrder(walk.order, walk.from, page.items[i])
            /\ walk.moved = "back" => InOrder(walk.order, page.items[i], walk.from)
            /\ i > 1 => InOrder(walk.order, page.items[i - 1], page.items[i])
        /\ walk.moved # "start" =>
            IF walk.field = "entities" THEN FoldedRow(walk.from) = walk.left ELSE walk.from = walk.left

\* A walk that began at the front is told when there is something before a page
\* that it went forward or back to, whatever the case of the values in its cursors.
KnowsTheWayBack ==
    walk.field = "entities" /\ walk.began = "first" /\ page.items # <<>> /\ ~page.hasPreviousPage =>
        \A row \in settled : ~InOrder(walk.order, row, page.items[1])

\* Each of the queries of a batch is answered with its own entity, whatever queries
\* there are without a ref and with one that the catalog does not have.
LoadsByKey ==
    \A i \in DOMAIN loaded :
        /\ loading[i] = None <=> loaded[i] = Undefined
        /\ loaded[i] \notin {Undefined, Missing} => loaded[i] = loading[i]
        /\ changes = 0 /\ loading[i] \in Present => loaded[i] = loading[i]
=============================================================================
