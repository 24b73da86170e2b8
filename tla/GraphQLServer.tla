---------------------------- MODULE GraphQLServer ----------------------------
(***************************************************************************)
(* The start of the GraphQL backend, plugins/graphql-backend/src/graphql.ts *)
(* and router.ts: features register modules, loaders and a context with it *)
(* until it makes its server of them, which then answers requests          *)
(* (CatalogPages).                                                         *)
(*                                                                         *)
(* External: Backstage runs the init functions of the features, in any     *)
(* order, then that of the plugin; it does not start when one of them      *)
(* throws.                                                                 *)
(***************************************************************************)
EXTENDS CatalogPages

CONSTANTS
    Features,       \* feature -> [modules, loaders, context, awaits]
    Installations   \* the sets of features that a backend may have

ASSUME FeaturesAssumption ==
    \A f \in DOMAIN Features : Features[f].modules \in Seq(STRING) /\ Features[f].awaits \in BOOLEAN
ASSUME InstallationsAssumption ==
    \A installation \in Installations : installation \subseteq DOMAIN Features

VARIABLES
    installed,
    state,      \* feature -> "idle", "adding", "done" or "failed"
    adding,     \* feature -> the modules that addModules has still to add
    modules,    \* the modules that were added: id -> feature
    loaders,    \* name -> feature
    context,    \* the features whose context was set, in that order
    phase,      \* "starting", "up" or "failed"
    served      \* what the server was made of

serverVars == <<installed, state, adding, modules, loaders, context, phase, served>>
vars == <<serverVars, pageVars>>

NoServer == [modules |-> <<>>, loaders |-> <<>>, context |-> <<>>]

Init ==
    /\ PagesInit
    /\ installed \in Installations
    /\ state = [f \in installed |-> "idle"]
    /\ adding = [f \in installed |-> <<>>]
    /\ modules = <<>> /\ loaders = <<>> /\ context = <<>>
    /\ phase = "starting" /\ served = NoServer

-----------------------------------------------------------------------------
(* The extension points.                                                   *)

Registered(registry, names, f) ==
    [name \in names \cup DOMAIN registry |-> IF name \in names THEN f ELSE registry[name]]

\* Faulty: the context of before is not called.
ForgetsContext(f) == context' = <<f>>

setContext(f) == context' = Append(context, f)

\* addLoaders throws at the first name that is there, and setContext is not reached.
addLoadersAndContext(f) ==
    LET added == Features[f].loaders
    IN  /\ phase' = phase /\ served' = served /\ installed' = installed
        /\ IF added \cap DOMAIN loaders # {}
           THEN /\ state' = [state EXCEPT ![f] = "failed"]
                /\ \E before \in SUBSET (added \ DOMAIN loaders) :
                        loaders' = Registered(loaders, before, f)
                /\ UNCHANGED context
           ELSE /\ state' = [state EXCEPT ![f] = "done"]
                /\ loaders' = Registered(loaders, added, f)
                /\ setContext(f)

\* A feature calls addModules, which comes back at its first await.  One that does
\* not await the promise, or has nothing to add, goes on, and is done.
initFeature(f) ==
    /\ phase = "starting" /\ f \in installed /\ state[f] = "idle"
    /\ adding' = [adding EXCEPT ![f] = Features[f].modules]
    /\ IF Features[f].awaits /\ Features[f].modules # <<>>
       THEN /\ state' = [state EXCEPT ![f] = "adding"]
            /\ UNCHANGED <<installed, loaders, context, phase, served>>
       ELSE addLoadersAndContext(f)
    /\ UNCHANGED <<modules, pageVars>>

\* A module resolves.  With an id that is there addModules rejects, and the modules
\* after it are not added.
addModule(f) ==
    /\ f \in installed /\ adding[f] # <<>>
    /\ LET id == Head(adding[f])
           rejects == id \in DOMAIN modules
       IN  /\ modules' = IF rejects THEN modules ELSE Registered(modules, {id}, f)
           /\ adding' = [adding EXCEPT ![f] = IF rejects THEN <<>> ELSE Tail(@)]
           /\ IF state[f] # "adding" \/ (~rejects /\ Len(adding[f]) > 1)
              THEN UNCHANGED <<installed, state, loaders, context, phase, served>>
              ELSE IF rejects
              THEN /\ state' = [state EXCEPT ![f] = "failed"]
                   /\ UNCHANGED <<installed, loaders, context, phase, served>>
              ELSE addLoadersAndContext(f)
    /\ UNCHANGED pageVars

\* The plugin's own init takes what there is by then.
init ==
    /\ phase = "starting"
    /\ \A f \in installed : state[f] \in {"done", "failed"}
    /\ IF \E f \in installed : state[f] = "failed"
       THEN phase' = "failed" /\ UNCHANGED served
       ELSE /\ phase' = "up"
            /\ served' = [modules |-> modules, loaders |-> loaders, context |-> context]
    /\ UNCHANGED <<installed, state, adding, modules, loaders, context, pageVars>>

\* The functions that setContext has put one around the other: each is given what
\* those before it made of the context of the request.
ContextOf(initial) ==
    LET after[n \in 0 .. Len(served.context)] ==
            IF n = 0 THEN initial
            ELSE Registered(after[n - 1], Features[served.context[n]].context, served.context[n])
    IN  after[Len(served.context)]

\* A request reaches resolvers of the catalog module.
request ==
    /\ phase = "up" /\ "catalog-entities" \in DOMAIN served.modules
    /\ "Catalog" \in DOMAIN served.loaders
    /\ "catalog" \in DOMAIN ContextOf([request |-> "yoga"])
    /\ PagesNext
    /\ UNCHANGED serverVars

Next ==
    \/ \E f \in DOMAIN Features : initFeature(f)
    \/ \E f \in DOMAIN Features : addModule(f)
    \/ init
    \/ request

Spec == Init /\ [][Next]_vars

-----------------------------------------------------------------------------
(* Properties.                                                             *)

\* Whatever order the features are initialised in, and however late their modules
\* resolve: a server that is up has the loaders and the context of each of them and
\* the modules of those that awaited them; a module is not served twice, nor
\* without the loaders of its feature; and of two contexts with the same key the
\* one that was set later is seen by the resolvers, with all others.
ServesWhatWasRegistered ==
    phase = "up" =>
        /\ Len(served.context) = Cardinality(installed)
        /\ \A f \in installed :
            /\ \A name \in Features[f].loaders :
                    name \in DOMAIN served.loaders /\ served.loaders[name] = f
            /\ Features[f].awaits =>
                    \A id \in ToSet(Features[f].modules) :
                        id \in DOMAIN served.modules /\ served.modules[id] = f
            /\ \A key \in Features[f].context :
                    LET setter == ContextOf([request |-> "yoga"])[key]
                        position(g) == CHOOSE n \in DOMAIN served.context : served.context[n] = g
                    IN  key \in Features[setter].context /\ position(f) <= position(setter)
        /\ \A id \in DOMAIN served.modules :
                Features[served.modules[id]].loaders \subseteq DOMAIN served.loaders
=============================================================================
