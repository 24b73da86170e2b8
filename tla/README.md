# A verification development for playhouse

This directory specifies, in TLA+, the parts of the playhouse plugins where
several actors share state: replicas of a backend that work on one set of
tables, an administrator's requests beside them, connections that come and go
around a polling loop, callbacks of an event stream that outlive what they were
made for, submissions that are validated while the form is edited, scaffolder
tasks that create objects elsewhere, features that register with a server while
it starts. TLC checks the specifications on small instances; TLAPS proves the
theorems listed below for every value of the constants.

## Inventory

| Part (`src/plugins/…`) | State it keeps | Operations | Hard because | Status |
|---|---|---|---|---|
| `incremental-ingestion-backend` engine | per replica: the locals of one tick; the scheduler's lock and abort signal | `taskFn`, `handleNextAction`, `ingestOneBurst`, `mark` | every call is awaited, replicas overlap once a lock expires, bursts fail or die half way | modelled |
| – database manager and migrations | tables `ingestions`, `ingestion_marks`, `ingestion_mark_entities`; a unique index on (provider, ticket) | one transaction per method | two-transaction operations; updates by id of rows that may be gone | what is called is modelled |
| – administration router | none (a request in flight) | PUT, POST, cancel, purge, marks, cleanup | meets the engine at any step; `DELETE /cleanup` is five transactions | modelled |
| – builder and scheduling | `ready` promise, scheduled tasks | `addIncrementalEntityProvider`, `build` | the task is scheduled before the migrations have run; its tick waits for `ready` with the lock in hand | modelled |
| `incremental-ingestion-github` | cursor | `next` | paging | as the data source |
| `humanitec-backend` app info service, router | `emitter`, `timeouts`, `lastData`; open responses | `addSubscriber`, unsubscribe, `fetchAppInfo` | state read before an `await` and written after it | modelled |
| `humanitec` hook | an `EventSource` | mount, unmount, events | unmount before the source exists; closes at the first failure | modelled |
| `humanitec-backend` create-app, `humanitec-common` client | the objects created in Humanitec | one call per object, retried on 403 | a failure half way, a call that took effect without an answer, a second run | modelled; the client's polling requests are one answer |
| `scaffolder-frontend-workflow` stream and run | the reducer of a task's stream; each effect's closure with its timers, intervals and subscription; `taskId`, `taskStatus` | subscribe, reconnect, flush, `execute`, `reset` | timers that outlive their task; the reducer outlives its task too; two submissions at once | modelled |
| – stepper and validation | `activeStep`, `formState`, `isValidating`, the form's data, calls that await | forward, back, edit, validate | edits, submissions and closing while a step is validated; a validation that throws; setters that render at once | modelled |
| – components | – | Workflow, Form, reviews, modal, button | an effect that runs with the values of its own render | those with state |
| `scaffolder-yaml-actions` | documents of a file in a task's workspace | `yaml:set`, `yaml:append` | paths that do not exist; documents of several entities; a fetch over earlier edits | modelled |
| `graphql-backend` | registered modules, loaders, context | `addModules`, `addLoaders`, `setContext` | `await` between the check and the set, and nobody awaits the whole | registration and context |
| `graphql-backend-module-catalog` query | the generated input types; the field map of the resolver; cursors | the schema's transformation, `entities` | two walks over the schema that must agree; names shared by fields of different kinds; pages of a catalog that changes | all but `rawFilter` |
| – relations, loader | the batch of a request | relations and their pages, the loader's reordering | ends of a page, missing nodes | modelled |
| `batch-loader` | – | – | one query; nothing imports it | not modelled |
| `packages/backend`, `packages/app` | – | the order of start, `backend:add-annotation`, the forms of the demo | wiring | what they add to the plugins |
| `effection-inspector*`, test-data generators | – | – | the task tree of a library; test data | not modelled |

How the parts meet: the builder registers one scheduled task per provider; the
scheduler (`@backstage/backend-tasks`, external) calls `taskFn` on whichever
replica takes the lock and signals an `AbortSignal` at its timeout. The engine
reads the open ingestion record, asks the provider for pages, records a mark for
each, and sends delta mutations to the catalog. The router changes the same rows
through the same manager, with no lock. A Humanitec card opens an event
stream on the Humanitec router, which subscribes to the service for as long as
the response is open. A workflow's form hands its state to `execute`, whose
answer names the task that the stream then follows; the task's steps are actions
of this repository, which edit files of the task's workspace or call Humanitec.
The GraphQL server is made of what features registered before its own `init`;
the catalog's module transforms the schema when it starts, so that `entities`
takes arguments made from the types that implement `Entity`, and its resolver
maps them to a query of the catalog.

What makes each part correct:

* **engine** – one open ingestion at a time; no gap in the marks of a cycle, and no
  rest before the last page; a fault costs the cycle one page at most; status and
  next action agree; what it does to rows and marks is an ingestion cycle; cycles go
  on for ever and the catalog agrees with the source again and again.
* **builder, router** – no start, restart or request wedges the cycles or loses
  data for good.
* **app info service and hook** – an entry in `timeouts` stands for a loop that
  lives; loops do not multiply; ids go forward, and so does what a card shows;
  whoever stays is brought up to date; nobody listening means no polling.
* **workflow hooks** – only the task shown writes to the stream; its logs are
  shown once and in order, across reconnects; a completion is reported once and
  after its logs; a run does not stay pending.
* **stepper** – what is executed was validated and submitted, once; a form that
  is being validated unlocks.
* **actions of a task** – what a step edited lasts, other entities are left
  alone; a failure costs what depends on it and nothing else; tasks end.
* **GraphQL** – the server has what was registered; the input types accept what
  the schema declares and nothing else, and what they accept is asked of the
  catalog by the declared sources; a walk through pages skips nothing; a batch
  is answered by key.

## Modules

| Module | What it is |
|---|---|
| `IngestionCycle` | abstract: what an incremental provider promises of its ingestions |
| `IncrementalIngestion` | one provider: replicas, tables, catalog, source, scheduler |
| `IncrementalIngestionCycle` | the refinement mapping from the rows and marks to `IngestionCycle` |
| `IncrementalIngestionAdmin` | extends `IncrementalIngestion` with the builder, restarts and the routes |
| `MCIncrementalIngestion`, `MCIncrementalIngestionAdmin` | values of the constants for TLC |
| `IncrementalIngestionProofs` | types, one open record, finished for good; marks leave no page out, rest is earned; the engine implements the cycle |
| `IncrementalIngestionSoleProofs` | what holds while no burst outlives its lock: the status, the catalog, the end of an ingestion, what a fault costs; and, overlaps or not, that none is stuck |
| `AppInfoService` | the service and the connections of its router |
| `AppInfoView` | composes it with `useAppInfo` through the event stream between them |
| `AppInfoProofs` | types, loops, ids in order; the cards make steps of the service and never go back |
| `TaskEventStream` | the hook `useTaskEventStream` and the backend it listens to |
| `RunWorkflow`, `MCRunWorkflow` | extends it with `useRunWorkflow`: the whole specification |
| `RunWorkflowProofs` | only the task shown speaks, reports come once, the logs shown are the task's; what is pending goes on and runs out |
| `AsyncValidation` | which validators a step calls, and in what order |
| `Stepper`, `MCStepper` | the stepper in each component that embeds it |
| `StepperProofs` | what is executed is valid, was submitted and is executed once; a lock is owed by a validation that runs out |
| `YamlOperations` | what set, append and add-annotation make of documents |
| `HumanitecCreateApp` | the calls of `humanitec:create-app`, several runs side by side |
| `ScaffolderTask`, `MCScaffolderTask` | composes both: the tasks that run these actions |
| `ScaffolderTaskProofs` | a run deploys its own deltas and creates all but what a failure costs; other documents stay; edits last; a task is never stuck and runs out |
| `EntityFilterTypes` | the input types that `generateInputTypes` makes from a schema |
| `EntitiesQuery`, `MCEntitiesQuery` | extends it with the resolver's arguments, over a family of small schemas |
| `CatalogPages` | pages of `entities` and of a relation, the data loader, a catalog that changes |
| `GraphQLServer`, `MCGraphQLServer` | composes `CatalogPages` behind the registration of the backend's features |
| `GraphQLServerProofs` | a walk skips nothing and knows the way back; the server serves what was registered; a batch is answered by key |
| `SequenceFacts` | induction over finite sets and sequences, and what `FlattenSeq` computes, for the proofs |

Operators whose comment begins with *Faulty* describe plausible mistakes in the
code. No specification uses them; each property was seen to fail when one of
them takes the place of the definition beside it, so that none holds idly.

### IncrementalIngestion

`ingestions[i]` is the row with id `i`, with `present` false when there is none.
`completion_ticket` is kept as `open`, since the code compares it with `'open'`
only; `rest_completed_at` as null or not; `next_action_at` as whether it has
passed (`due`), so the lengths of rests and back-offs do not matter. A mark
carries the refs joined to it, and its cursor is the number of pages it stands
behind. Each replica has a program counter `pc[r]`, named for the call it makes
next, and `job[r]`, the locals that live across awaits. Every database method is
one transaction and one action.

* `BeginTick`, `getCurrentAction`, `createProviderIngestionRecord` – a tick
  begins; the read of the open record and the insert of a new one are two steps.
* `Branch` – the `switch` of `handleNextAction`, with its tests of
  `next_action_at`; an action without a branch ends the tick.
* `clearFinishedIngestions` then `setProviderComplete`; `setProviderIngesting`;
  `setProviderCanceled` – the other branches.
* `setProviderBursting`, `getLastMark`, `next`, `createMark`,
  `createMarkEntities`, `computeRemovedStep`, `applyMutation`, `settle` – a
  burst, in the order of the code, `computeRemoved` only when not `done`.
* `Throw`, `ThrowCancel` – the catch block; `TaskFails` – an error outside the
  `try`, the catch block's own update included; `Crash`; `Expire` – the lock's
  timeout, at which the signal is aborted and another replica may start.

External: the scheduler's lock, the provider, the catalog. A mutation removes and
then adds; the catalog's own delay before `final_entities` shows it is left out,
as is the filter of `computeRemoved` that skips orphans without a marked ref.
Providers share no rows (every query filters on the name), so one is modelled;
only `DELETE /cleanup` reaches all.

### IngestionCycle and its refinement

The abstract specification knows the pages of the source, each ingestion's
outcome, which pages the open one has consumed and whether it rests. Pages are
consumed in their order, perhaps again; an ingestion rests with all of them and
is done only then; its pages are forgotten when it closes; the source changes
between two ingestions. Two of its actions are concessions that the code's
overlapping bursts call for: `Wake` (a late burst or error takes a rest back)
and `Overwrite` (a late task writes over the outcome of a closed record). That
is all they can do: nothing reopens, no page is left out.

`IncrementalIngestionCycle` maps the rows to outcomes and the cursors of the open
record's marks to `consumed`, as an operator of the database would read them; no
history variable is needed.

### IncrementalIngestionAdmin

`phase` is what a process has done of its start, in the order of
`packages/backend/src/plugins/catalog.ts`: `connect` (the engine's `connect`,
which schedules the task, before anything is built), then `build` (the
migrations, and `ready`). A tick may begin, and take the lock, as soon as
the provider is connected; its first await is on `ready` (`Begins`, `Runs`).
`Restart` is a process that dies at any point of this, or in a tick, and starts
again; migrations that throw come to the same.

One request is in flight. PUT, POST and cancel look the record up, then update
the open rows; purge and marks are one step (the insert of a purge is a second
transaction inside the first; nothing can tell them apart, but see the
observations); cleanup is the five transactions of `cleanupProviders`.
`HandlerFails` may end a request after any of them.

### AppInfoService and AppInfoView

One `orgId:appId` key, since every handler touches its own key only. JavaScript
runs a handler to its `await`, so `fetchAppInfo` is two steps, `fetchAppInfo(t)`
and `publish(f)`, with Humanitec's answer between. `fetches` are the calls that
wait, with the id drawn before the await. `seen` is what an open connection was
told last. Ids are counted modulo `IdModulus`; `rejoins` counts the connections
that start a loop while an earlier audience's fetch is in flight, and bounds
them.

`AppInfoView` puts the hook in front of it: of the service's `Subscribers`, `Views`
are cards, the others connections of other pages. `effect`, `createEventSource` and
`cleanup` are the effect of `useAppInfo` up to and behind its await: a cleanup
that comes between finds no source to close. `wire` holds the events between the
route's `res.write` and the hook's listeners; `receive` handles `update-success`
and `update-failure`. `connect`, `closeRequest`, `publishToViews` conjoin the
service's own actions with what the route does. The browser's `EventSource` and
its reconnecting are external.

### TaskEventStream and RunWorkflow

`hook[t]` is the closure of the effect that task `t` started: `didCancel`,
`retryCount`, the last `logPusher`, the intervals that still run, the array each
connection collects into, and `phase`, the callback that comes next. `stream` is the
reducer's state, and outlives the closures. `taskId` is the argument of the last render,
`effectTask` the task whose effect is in force.

The app is rendered with `ReactDOM.render` (`packages/app/src/index.tsx:6`): a setter
or a dispatch outside of React's own events renders at once, and runs the effects that
are due before it does. Effects otherwise wait for a callback of React's own. So when
the argument changes, the cleanup of one effect and the start of the next
(`EffectsRun`) are a step apart from the render (`flushEffects`), and a callback of the
old task may come between: its dispatch has the effects run in the middle of the
callback, and reduces its action behind them (`Rendered`, `Dispatch`). `orphans` are
the tasks for which that callback was `getTask`'s: it then connects behind its own cleanup, and
nobody ends the connection. With the first of them a behaviour stops being explored
(`MaxOrphans`), since such a connection writes over whatever is shown next (see the
observations); the properties are stated of what comes before.

* `getTaskSucceeds`, `getTaskFails`, `getTaskIgnored` – the two callbacks behind
  `getTask`, with their tests of `didCancel`; `log`, `cancelled`, `completion`, `lose` – the
  observer's; `reconnect`, `emitLogs` – the timer and the interval. The cleanup
  clears the last interval and the subscription, not the timer, nor the intervals
  of connections that were lost: that these do no harm is what is checked.
* `execute` up to its `await`, `scaffoldResolves`, `scaffoldRejects` behind it,
  `reset`, `unmount`.
* `Effect` – the effect on `completed`, `error` and the two callbacks. It is `due`
  behind a render that changed one of them, and runs in front of the next render or
  in `flushEffects`, with the effects of the stream; a status it sets goes over one
  that a setter queued before. `fresh` is a component that makes its callbacks anew in each
  render, as `EntityOnboardingWorkflow` of `packages/app` does: there each render
  makes the effect due, also one for a reason of its own (`rerender`).

External: the scaffolder backend, whose tasks log, then complete or fail, and
which tells every event again to a new connection. Somebody may cancel a task at
any time. Dates, `output` and the text of a line are left out; a line is its index
in the log. Two dispatches of one callback are one step, and so are the observer's
default branch, which throws, and no event at all.

### AsyncValidation and Stepper

A form is flat: a field of a nested object is a field of its own, and a value is
known by its presence and the validators that reject it. `validate` is the list
of checks that `useAsyncValidation` makes on its way through a step, and `Throw`
the place where it dereferences an object that is not there. A call of
`handleForward` occupies a slot of `submissions` from its first setters to what
comes behind its await (`Settle`), with one step for each validator's answer.

`interface` chooses the component around the stepper: the reviews with a Create
button (`onboarding`, from `packages/app`, and `form`, as the plugin's tests have
it), the modal, whose review executes in an effect, and the button, which has no
form. They differ in what can be pressed when. `Settle` keeps the order in
which the setters render: the effect of the review belongs to the render of
`setActiveStep`, ahead of `setFormState`. Of `useRunWorkflow` only `taskStatus`
is seen; `RunWorkflow` has the rest. `sent`, `carried` and `rejected` are
history: what was submitted, what was edited behind a validation, that one threw.

### YamlOperations, HumanitecCreateApp and ScaffolderTask

A document is the entity it describes, if any, and a tree of maps, sequences and
scalars; a path is a sequence of keys. `set`, `append` and `addAnnotation` give
the new tree and whether the code throws on the way; `EditAll` is a file's
loop, which writes nothing when one document throws. Pairs that are written
through the YAML library keep their comments and order; only the tree is kept here.

`humanitec:create-app` is the sequence of calls it has still to make.
`AfterFailure` is the nesting of its `try` blocks: what a failed call takes away
with it. Any call may fail after it took effect, and a 403 is tried again.

A task runs its steps in a workspace of its own. Fetching, reading, writing are
steps apart, since files under an absolute path are shared with other tasks.
External: the scaffolder's task runner, `fetch:plain`, the repository's contents,
Humanitec.

### EntityFilterTypes and EntitiesQuery

A schema maps the names of types to their kind, fields and subtypes; `Entity` is
one of them. `generateEntitiesQueryInputTypes` folds over the types as the code
does, with `config` (what a name's input type is so far) and `fieldTypes` (the
kinds the name had) as accumulator. Where the code takes an enum or a scalar for an
input object the config is `Broken`, and with it the transformation throws. The code builds three types side by side
that differ in names and list wrappers: here they are one. `InputType` stands for
the dozen branches that combine `order`, `rawFields` and `fields`, `getTypeConfigs`
for the way back from a combined type to its object.

`traverseFieldDirectives` is the resolver's own walk, from the path of a field to
its source fields, and the three `map…` functions use it on an argument. An
action transforms the schema, and `entities` answers one argument after another.
`Declared`, `Ends` and `Sources` are the reference: what the schema says, without
an order in which anything is visited. The two walks are checked against it, not
against each other, and where they depart from it the properties say on what and to
what (`MetAroundRaw`, `Overwritten`, `MatchFor`, `SearchFor`). The modules use recursive operators, so they are left to TLC.

### CatalogPages and GraphQLServer

A row of `entities` is the value it is ordered by with its uid, a row of a relation
its offset with its target. The catalog sorts, and compares cursors with, the value in
lower case (`Folded`, a function on values that TLC is given one of); the cursor
of a page has that value, the cursor of an edge what the entity has in the field
(`AsWritten`). `entitiesPage` translates the arguments to a cursor
object and back; `relationPage` is `connectionFromArray` over the filtered refs;
`createCatalogLoader` drops queries without a ref and puts the answers back in
their places. A client begins a walk at either end and goes on or back with the
cursors of edges or of the page, the catalog changing between. External: the
catalog's `queryEntities` and `getEntitiesByRefs`, and `graphql-relay`.

In `GraphQLServer` each feature's `init` calls `addModules`, which comes back at
its first await, and goes on with `addLoaders` and `setContext` at once or behind
that await, as the feature has it. `addModule` is a module that resolves, in any
order with those of other features; `init` makes the server of what is there.
Only a server that is up, with the catalog's module, loader and context, lets
`CatalogPages` take a step.

## Runs

| Run | Instance | What it shows |
|---|---|---|
| `engine_single` | 1 replica, 4 ids, listings of two and three pages over 3 entities, 2 faults | types; status tells next action; a fault costs a page at most; after a clean cycle the catalog is the source; cycles never stop; the catalog converges |
| `engine_overlap` | 2 replicas, 2 ids, listings of two pages, no faults, locks that expire at any step | one open record; no gap in the marks; rest after the last page; every step is one of the ingestion cycle |
| `admin_routes` | 1 replica, 5 ids, 1 request of any kind that may fail half way, 1 restart | cycles and convergence from any start, unless the request stopped the record |
| `appinfo_view` | 1 card and 1 connection of another page, 3 timers, ids mod 2, 1 lost connection, 1 failure, 1 rejoin | types; entries stand for loops; ids follow and a card never goes back; everyone catches up; polling ends with the views |
| `appinfo_doc_pending` | 2 connections, 3 timers | finding: a fetch begins while one is pending |
| `workflow_run` | 2 tasks, logs of 2 entries, 1 retry, 2 lost connections, 1 refused request, callbacks kept or fresh, up to the first connection that nobody ends | logs once and in order, to the end; no false report, and none twice with kept callbacks; only the task shown speaks; pending ends |
| `stepper` | 2 steps, one a list with an item validator, one an object with a nested field; 4 interfaces, 2 submissions at once, 2 executions | what is executed is valid, submitted, and executed once; the form unlocks |
| `scaffolder_task` | 2 tasks over 7 lists of steps, 2 files, 2 applications, 2 attempts, 2 faults | edits survive; others are untouched; a run deploys its own delta; all is created but for failures; tasks end |
| `entities_query` | 407 schemas: a field of `Entity`, and a field that two interfaces, their implementations and an object may share, each a leaf, JSON, an object, a union, an interface or absent; arguments with one or two names | input types accept what is declared; orders, matches and searches ask for the declared sources; but for the forms named |
| `graphql_server` | 5 installations of 5 features; 3 uids, 3 values of which two differ in case, pages of 1 and 2, 1 change | what was registered is served; walks skip nothing and know the way back; batches are answered by key |
| `engine_doc_sweep` | as `engine_single`, no faults | finding: deletion in mid-cycle |
| `stepper_doc_review` | as `stepper`, 1 submission | finding: the modal executes the form of before the last step |

Why the bounds are enough. Two pages are the least with a page that is not the
last (the sweep happens) and one that is; the second listing moves an entity to
another page and drops one, which is what makes a sweep in mid-cycle visible. Of
three pages the middle one has pages before it that a sweep may hit.
Two faults let the recovery from one fail. Overlap needs two replicas only: a third
would be another late burst on the same marks. Ids are the rows in existence plus
those a fault or a request leaves behind; four and five leave one to spare, and
with two replicas two ids let a new ingestion begin while a late burst still
holds the finished one. With fewer, creation would wait for an id and the
liveness properties would fail. One restart meets every point of a start, of a
tick and of a request; the next start finds what any start would.

A subscriber's leaving and another's joining are what the service reacts to, so
two suffice, with a timer for the loop, one for the leftover loop and one to move
to. One of the two is a card, with the hook and the wire in front of the connection,
the other a connection of any page, for which the browser's part makes no difference. Two
events on the wire are the update a joining connection is handed and one that is
published.

The workflow hook retries three times; one retry is enough to have a connection
that is not the first and one that is the last, and two losses reach the end of
the retries. The second task is what overlaps, replaces, or follows the first. A
connection that nobody ends is reached, and not explored further: what it does from
there is in the observations.

A form of two steps has a step to go back to and a review behind the last; two
submissions in flight are the least that settle in either order. A second
execution is what `StartedOnce` forbids. In `scaffolder_task` the lists of
steps were chosen so that each kind of edit precedes and follows each other on one
file, by entity and without, and that steps throw in the middle, and a
`values` file that holds no entity is set by steps with and without one; the client's
three attempts are two, which has an attempt that is not the first and one that is
the last.

Two types that share a name suffice for every pair of kinds to meet, in either
order, and objects nested twice for a path of three names. A third type meets what the
other two made of the name; a second interface meets what the first one's fresh walk did
not hand on; a nested object with the name of a leaf of `Entity` meets the look-up at
the top. In these the code loses names, or keys, and the properties say which.
Three rows have an end on either side of a row in the middle, five
relations two pages and a rest; equal values of the order field meet at the
boundary of a page. Of three values two fold to one, so that an entity's own value
may lie before, at and behind what it is sorted by.

Deadlock is checked in every run but those of the workflow, the stepper, the
scaffolder's tasks, the GraphQL server and the query: a component that is unmounted
with its last callback gone, a task that has ended, a server that did not start, or
whose input types threw, really stop.

### Fairness

* engine: weak fairness on each replica's steps (JavaScript resumes what was
  awaited), on the expiry of a held lock (the scheduler releases it after its
  timeout), on *some* replica beginning a tick when the lock is free (a
  scheduled task runs), and on time passing. None on faults, on requests
  arriving, or on the source changing.
* builder, router: a start goes on, and so does a handler in flight, or it fails.
* service: each timer fires and each fetch makes progress. Failures are
  bounded, which stands for Humanitec answering in the end. None on connections.
* cards: beyond that, `createEventSource` is answered, events are delivered, and
  the server hears of a closed connection; strong fairness on an open source being
  connected, since an `EventSource` keeps trying. None on users.
* workflow: each task's chain of callbacks goes on (requests are answered, events
  and timers are served), the backend works a task off, `scaffold` answers, and React
  runs the effects that are due. None on the user, on renders for other reasons, on
  the intervals, on cancelling.
* stepper: a validator's promise settles and the code behind an await runs. None
  on the user or on the task.
* scaffolder: the steps of each task go on, whatever the answers are; the client
  gives up after its attempts.
* GraphQL: none, and no liveness.

Several properties hold on one replica only and are checked there: with a burst
that outlives its lock, a sweep can delete what the other burst marked between
its `computeRemoved` and its `applyMutation` (so that a page is lost to the cycle with no
fault, against `FaultCostsOnePage`), and the late settlement rewrites status, attempts
and history (`StatusTellsNextAction`). What
holds under overlap is in `engine_overlap`, and is proved without a hypothesis; the
others are proved for as long as no bursts overlap. `IdsFollow` and
`ViewNeverGoesBack` are stated for as long as no rejoin took place; after one
they fail.

## Theorems

| Module | Theorem | Establishes |
|---|---|---|
| `IncrementalIngestionProofs` | `TypeCorrect` | `TypeOK` |
| | `AtMostOneOpen` | `OneOpenRecord` |
| | `FinishedForGood` | `FinishedStaysFinished` |
| | `PagesAreComplete` | `NoPageSkipped`, also through faults |
| | `SequencesAreContiguous` | `SequencesContiguous` |
| | `RestIsEarned` | `RestsAfterLastPage` |
| | `EngineRunsCycles` | `IsACycle`: the engine implements `IngestionCycle` |
| `IncrementalIngestionSoleProofs` | `StatusTells` | `StatusTellsNextAction`, while no bursts overlap |
| | `RestedCatalog` | `RestedCatalogIsSource`, while no bursts overlap and with more than one page |
| | `CyclesGoOn` | `NeverStuck`: of `KeepsCycling`, that an open record always has something to do |
| | `CyclesEnd` | `ComesToAnEnd`, `LeftIsCounted`: of `KeepsCycling`, that only finitely much is left, while no bursts overlap |
| | `FaultsCostOnePage` | `FaultCostsOnePage`, while no bursts overlap |
| `AppInfoProofs` | `TypeCorrect` | `TypeOK` |
| | `JoinedLoopLives` | `EntryMeansLoop` |
| | `LoopsStayCounted` | `LoopsAreCounted`: a second loop has one cause, a join beside a fetch whose audience left |
| | `UpdatesFollow` | `IdsFollow` |
| | `ViewsImplementService` | `ViewSpec => Spec`: with the cards in front it is still the service |
| | `ViewsGoForward` | `ViewNeverGoesBack` |
| `RunWorkflowProofs` | `OnlyShownSpeaks` | `OnlyShownTaskSpeaks`, as all of this module until a connection is opened behind its own cleanup |
| | `ReportedOncePerTask` | `ReportedOnce`, with callbacks kept or made anew |
| | `LogsAreTheTasks` | `ShowsTheTasksLogs` |
| | `PendingGoesOn` | `PendingIsOwed`: of `PendingEnds`, that something can still end it |
| | `ShownGoesOn` | `ShownIsOwed`: of `ShownToTheEnd`, the same |
| | `TasksRunOut` | `ComesToAnEnd`, `LeftIsCounted`: of both, that only finitely much is left |
| `StepperProofs` | `StartsOnce` | `StartedOnce` |
| | `ExecutesWhatWasSubmitted` | `ExecutedIsSubmitted` |
| | `ExecutesWhatIsValid` | `ExecutedIsValid` |
| | `LocksAreOwed` | `LockIsOwed`: of `FormUnlocks`, that a lock has a submission that will move |
| | `ValidationsCountDown` | `ValidationsEnd`: of `FormUnlocks`, that its validators run out |
| `ScaffolderTaskProofs` | `DeploysWhatItCreated` | `DeploysOwnDelta` |
| | `CreatesTheRest` | `CompleteButForFailures` |
| | `OthersStay` | `OthersUntouched` |
| | `EditsStay` | `EditsSurvive` |
| | `TasksRunOut` | `ComesToAnEnd`: of `TaskEnds`, that only finitely much is left |
| | `TasksGoOn` | `NeverStuck`: of `TaskEnds`, that a task can take a step until it is over |
| `GraphQLServerProofs` | `ServesTheRegistered` | `ServesWhatWasRegistered` |
| | `AnswersByKey` | `LoadsByKey` |
| | `WalksAreComplete` | `WalkSkipsNothing`: nothing is skipped behind where the cursor stands, which is at the row but for the case of an edge's value |
| | `WaysBackAreKnown` | `KnowsTheWayBack` |

The assumptions are those the modules name. Sentinels lie outside their sets,
bounds are naturals, and the constants have the form that the source gives them: a
listing is a non-empty sequence of pages of entities (`ListingsAssumption`); a
setup file a list of applications with their environments and automations
(`SetupAssumption`); a file a sequence of documents (`RepositoryAssumption`), what is
appended to there a sequence of nodes if it is one (`ItemsAssumption`); a template a
list of steps with paths of keys (`TemplatesAssumption`) whose actions are the four
that are modelled (`ActionsAssumption`); a schema maps fields to fields, objects nesting once (`SchemaAssumption`), and each
field belongs to a step (`StepsAssumption`); a feature lists its modules and an
installation its features (`FeaturesAssumption`, `InstallationsAssumption`); the values
of the order field and the uids of a catalog are ordered as integers are, and the
uids are finitely many (`RowsAssumption`). The nesting is a limit of the model,
whose `FieldsOf` looks one level down; `useAsyncValidation` goes as deep as the form
does. Nothing is assumed of the number of replicas, ids, entities, connections,
tasks, steps, fields, submissions or applications, nor, `ManyPages` apart, of pages.
`FinishedStaysFinished`, `SequencesContiguous` and `LoopsAreCounted` are proved; no run
lists them.

Two hypotheses are no assumptions of a module, and stand in the statements.
`NoOverlap`, for the whole of a behaviour: one replica at a time is at work. It holds
of an installation with one replica (`OneReplicaNeverOverlaps`), and of any number as
long as no burst outlives its lock; the code ensures no more, and with an overlap a
sweep deletes what another burst marked (see Fairness); no theorem says otherwise. `ManyPages`: the source has more than one
page. With a single page `computeRemoved` is never called, and what left the source
stays in the catalog.

*One open record.* `OneOpenRecord` is not inductive: a replica that was told to
create a record holds no id, one that settles writes a row by id. The inductive
invariant is `TypeOK`, `OpenIsPresent` (an open row is in the table, so that an
update by id creates none), `JobHasRecord` (a tick beyond its first two steps
works on an id) and `OneOpenRecord`. The insert is the only step that opens a
row, and the unique index lets it pass when none is open. No update by id writes
`completion_ticket = 'open'`, whence `FinishedStaysFinished`.

*Pages.* `PageInv` strengthens the three page properties together. `MarksCovered`:
below every mark of an open ingestion lie marks for every earlier cursor and
sequence. `JobsCovered`: so do marks below the cursor and sequence a burst
holds in memory – this is what makes a late burst harmless, since marks of an open
ingestion are never deleted. `RestCovered`: a burst about to settle with `done`,
and a record at rest, have marks to the end of the source. The source does not
change while an ingestion is open.

*No overlap.* `SoleInv` of `IncrementalIngestionSoleProofs` has the status tell the
action, and each task know its record: a task beyond its first two steps holds the
open record, within a burst it is to be ingested, and what `computeRemoved` found is
still what the catalog has beyond the marks. It is not inductive with two replicas,
where a late burst settles a record that another has put to rest. `CleanInv`, for as
long as no error occurred, goes along a burst: between two bursts the catalog is the
union of the pages up to the last mark, and each step within one says which of the
next page's traces are there already (its mark, the refs of the mark, the entities in
the catalog). The first page's sweep takes away whatever an earlier cycle left; the
last page has none, whence `ManyPages`.

*Faults.* `FaultInv`: but for as many pages as there were faults, each page that has a
mark is in the catalog and among what is marked, so that no sweep takes it, or the one task at work holds
it with its mark. `JobHolds` has that task's page be the source's, its mark
empty before `createMarkEntities` (no other mark has its number, by `FollowInv`) and the page's
after it, so that the commit turns held into saved. A fault adds the page its task
held to those it has cost; every other step leaves them as they are
(`CostsNothing`).

*The refinement.* `CycleInv` is `Inv`, `PageInv` and `CompleteCovered`: a task
between reading that a record rests and completing it works on a record that, as
long as it is open, has marks of every page. It read so under `RestCovered`, and
marks of an open record stay, whoever takes the rest back in the meantime. With
it each step of the engine is mapped on its own: the insert begins an ingestion, a
mark consumes the page below its cursor (`PageInv` has the pages before it),
a settlement rests or wakes, a completion or cancellation closes the record it is
about when it is open and overwrites it when it was closed before, and
`clearFinishedIngestions` forgets. All other steps leave the rows' outcomes, the
marks' cursors and the rest as they are, and stutter. The theorem is about safety:
what is proved of the end of a cycle is below, under Progress.

*Loops.* `EntryMeansLoop` needs that the timer in `timeouts` is still armed or in
flight, and `LoopsAreCounted` that each rejoin adds one loop and `publish`
replaces one: the count rests on each timer having at most one fetch
(`LoopsAreDistinct`) and on `Loops` being finite.

*Ids and views.* Without a rejoin there is one loop, by `LoopsAreCounted`. `IdsInv`:
the fetch under way carries the id after the last update's, and each listener was
told the last update or none. `ViewInv` orders the versions along the pipe:
what a view shows, the events on its wire in their order, the last update of the
service, the fetch under way, and what Humanitec has. That a wire is not reordered and
the service's steps are its own is `ViewsImplementService`: `ViewSpec` implements
`Spec`, so the service's invariants hold behind the views and are cited there.

*Callbacks.* `Inv` of `RunWorkflowProofs` holds as long as `orphans` is empty. `Chains`
says which callbacks can still matter, of the closures `hk`, the task `eff` whose effect
has run and the task `st` that the stream has: a chain that is not cancelled is that of
`eff`; one that is connected is also `st`'s; a task that is shown and whose effect has
not run, or that `scaffold` has not answered for, has a closure that was never used; an array
with entries is that of the connection in use (`ArraysFollow`), so an interval that was
forgotten finds nothing. These are parameters since a dispatch runs the effects that are
due in its middle: `FlushKeeps` has `Chains` for the closures behind them, with
`taskId` for `eff`, whatever the callback then makes of them. `getTask`'s answer is the one
callback that goes on as if it were not cancelled, and that is the orphan.
`Reports`: a task that was reported succeeded, and its chain is over; and an effect that is
due in a component that keeps its callbacks has a reason that is new, so that the task
it will report was not reported.

*Logs.* `LogsFollow`: for the connection in use, under each step, the lines that are
shown followed by those it has collected are the first lines that it delivered. So
a new connection, which delivers the log from its start, begins with what is shown
thrown away; an interval that runs on shows the beginning of a log and no line twice;
and a completion, which shows what was collected before it ends the stream, leaves out
nothing. It rests on `ArraysFollow`.

*The stepper.* `StartInv`: a workflow that was started is not idle again; every
caller of `execute` but the button of `packages/app` has seen it idle. `SubmitInv`:
behind the Create button one step is validated at a time, of the data that was sent,
and the review is shown when nothing is validated. `ValidInv`: a field that no step
from the shown one on asks for is valid, unless it was edited behind its validation;
a submission in flight has, for every check that `validate` made of it, the check
still to come or its errors among those found. That `validate` makes the checks
that the schema declares is `FieldChecks` and `StepChecks`; its recursion over nested
fields is unfolded by the nesting of `SchemaAssumption`.

*Create-app.* `InOrder` describes every list of calls a run may be left with, for any
setup file: the calls of an application are together and its own comes first, a
deployment has the delta of its environment just before it. `CreateInv` adds what the
first of them needs (`Ready`): the application was created by this run, and the
delta the run holds is that of the environment. `CallsInOrder` and `FailureInOrder`
show that the whole file is in order and that what `AfterFailure` drops leaves it so.
`CompleteInv`: each call of the file is still to come or settled, that is, made or lost
to a failure it depends on.

*Other documents.* `OthersInv`: a file of a workspace has the documents of the
repository, in their places and with their entities; those that no step so far
named are equal; and what a step is about to write is what it has read, edited. Of
`set`, `append` and `addAnnotation` it needs only that they are not called on other
documents.

*Edits.* What two paths have to do with each other decides: one begins the other, or
they part at some key (`PathsPart`). `SetIn` leaves what is found behind a path that
parts from its own (`FoundElsewhere`), makes maps above it (`FoundAbove`) and leaves
nothing below it (`FoundBelow`); each is an induction along the path, over trees of
any depth. What an edit put somewhere is a scalar or a sequence. So a `set` below it
throws, and nothing is written (`SetKeeps`); an `append` above it throws, one below it
finds no parent and changes nothing, and one at it makes the sequence longer
(`AppendKeeps`). A `set` at the same path or above takes the edit back: that is the
exception that `EditsSurvive` makes, for each document that the step does not skip; a
document that is no entity is skipped by no step, whatever entity it names. `EditsInv`
adds to the property that the documents have sequences where something is appended,
and that each remembered edit is one of a document that is there; with `OthersInv`,
what is about to be written is the file as it is, edited.

*Registration.* `RegisteredInv`: the context has the entries of the features that are
done, each once, in the order in which they were done; the loaders are theirs; a
module that is awaited is with the server or still to be added; and the server is made
once every feature is done. Which entry answers for a name that two features set is
then a matter of order alone, and `LastSetterIsSeen` is an induction over the context.

*Batches.* `LoadInv`: what waits to be loaded is a sequence of uids and of queries
without a ref. `LoaderAnswers` has the answers of `createCatalogLoader` for every
batch: the positions that have a ref are those of a flattened sequence, and the answer
at each is that of its own ref.

*Walks.* Rows of different uids are never equal, so that every finite set of rows has
one sorted sequence at least (`SortedRows`, by induction over the number of rows), and
the first or last rows of it are a page: `Leads` and `Trails` say that the page is
sorted, stops at the asked size, and leaves out only what lies behind its far end.
`ForwardSkipsNothing` and `BackwardSkipsNothing` get `WalkSkipsNothing` from them, for
`entities` and for a relation alike. What a step needs of the one before it is
`PagesInv`. For `entities`: the cursors of a page stand at its rows and are in the
order of the walk, but for an edge's value that is not in lower case, whose fold
stands there; settled rows are in the catalog; and when the walk began at the
front no settled row lies before the first row that a cursor carries, if the catalog
can have that row (a row in another case equals none, and then the client is told of
something before). The last gives
`KnowsTheWayBack`, as `queryEntities` tells the client of something before a page
unless the request had no cursor or the page starts with that row. For a relation: cursors are the offsets of the
page's rows, and settled rows are still at their offsets while nothing is removed
(`RefsStay`); once something was, the property promises nothing, and the invariant
neither. A change of the catalog takes what changed out of the settled rows, and fewer
settled rows are skipped no more than all of them (`FewerRowsSkipped`).

*Progress.* Five liveness properties are carried by two safety facts each, which are
proved: what must end can go on, whatever happened before, and every step of it
leaves less to do. Between them only the fairness of the steps is left, and that
TLC adds. The measures are tuples, and less is what is smaller where two first
differ.
For `TaskEnds` the tuple is the steps of the template left, whether the step has still
to fetch or to read, and of a create-app run its applications, its calls and the tries of the first
call (`Left` of `ScaffolderTaskProofs`). A failure takes an application with all its
calls off the list, so that the number of applications falls where the number of calls may
not tell; a 403 costs a try. Steps of other tasks leave it alone. `NeverStuck` has
a task that is not over at a step whose action its phase belongs to.
For `FormUnlocks` a form that is locked has a submission in flight (`LockInv`), and with
`SubmitInv` and `StartInv` nothing keeps that submission's call of `execute` from being made:
the modal's is refused only when a workflow runs, and then the status is
not idle. A submission is given its validators once, when it is made, and each answer takes one
away; validations that overlap do not touch each other's.
For `PendingEnds` and `ShownToTheEnd` the tuple is the attempts left of a task's stream,
the phases of this attempt, its events, and what the backend still has to do; effects
that are due are a phase of their own (`ShownIsOwed` has them begin the chain).
`OwedInv` says who will speak: the task shown is not cancelled, its chain is under
way or has ended in one of the ways that tell the page (its conclusion, a
refusal, its last attempt), and a run that is pending has either an answer of `scaffold` to
come for the latest call or such a chain. It needs `Inv`, in particular that an answer
to a call before the latest is dropped.
For `KeepsCycling`, the part that an open ingestion is closed, the tuple is the faults that may
still occur, the stages of the record (a failure to be written, a back-off, pages
to come, the last page on its way, rest or cancellation), its wait, the pages behind the last mark and the
calls up to the next one (`Left` of `IncrementalIngestionSoleProofs`).
A tick between two pages counts among those calls, one that is cut short costs a
fault. `FollowInv` has the cursor and the sequence of a burst
follow the last mark, so that `createMark` moves that mark by one page. A second burst that
resumed at an older mark would not; hence `NoOverlap`. Left as it is by a tick that
begins, one that finds the wait not over, a lock that expires and another row's wait:
that these do not go on for ever is the fairness of `LiveSpec`. That no record gets stuck
(`StuckInv`) needs no `NoOverlap`: whatever a late burst writes into an open record is an
action that has a branch, and the marks of an ingestion, however they got there,
have a last one.

*Induction over data.* The library's induction theorems take an operator and cannot
be used; `SequenceFacts` states induction with sets instead (`SetInduction`,
`SequenceInduction`: a set that has the empty sequence and is closed under appending
has every sequence). It suffices to show what `FlattenSeq`, on which `Calls`,
`validate` and `OfStep` are built, computes for every sequence of sequences
(`FlattenConcatenates`, `FlattenElements`).

Only model-checked: the liveness properties as such (fairness and ENABLED are beyond
the prover, so that their safety halves are proved and the step from these to
`<>` is TLC's); that another ingestion follows a closed one (the second half of
`KeepsCycling`) and `CatalogConverges`; the engine with requests and restarts (`IncrementalIngestionAdmin`, whose properties are liveness);
and the GraphQL query: its operators are recursive, and what its properties say holds of
the schemas given and, as `MCEntitiesQuery` lists, not of every schema.

## Findings and observations

The three `violation` runs are disagreements between the documentation and the
code, quoted in `PROJECT.json`:

1. Unmarked entities are deleted after every page *but* the last, not at the end
   of the cycle. An entity on a later page is deleted and added again; a source of
   a single page never deletes anything.
2. The review of a modal executes with the form state of the render of
   `setActiveStep`, which comes before `setFormState`: what the last step of the form
   had is missing.
3. The service begins a fetch while one is pending, against the comment at
   `app-info-service.ts:35`: a connection that opens after the last one closed in
   mid-fetch finds no entry. Two loops then go on, ids repeat, and an older answer
   may be shown after a newer one.

Seen while modelling, without a run. The engine, its builder and its router:

* a burst that fails after `createMark` resumes behind the page it did not record or
  did not commit, so that page waits for the next cycle (README line 34 says the burst is
  retried). `NoPageSkipped` counts its mark; `FaultCostsOnePage` says that this is all that
  a fault costs;
* two bursts that overlap may cost a page without a fault: the sweep of the one is
  computed before the other marks and deletes after it;
* `POST /:provider` and `POST /:provider/cancel` leave the record open with nothing
  to do: no cycle follows;
* the plugin's README (line 340) lets the last back-off cancel the ingestion; the
  engine repeats the last length for ever. An empty `backoff` option makes the
  index -1, and the catch block throws (`TaskFails` covers what follows), as it does
  when `last_error`, a `varchar(255)`, is too short for a message;
* the catch block counts attempts from the record as the tick read it, which a
  request or another replica may have changed since;
* the placeholder row of a purge is not `'open'`, so the engine ingests at its
  next tick instead of pausing 24 hours, and `healthcheck` counts the placeholder
  as a duplicate;
* a purge in mid-burst makes the next sweep of that burst find nearly
  everything unmarked;
* `purgeAndResetProvider` inserts in a second transaction while its own is open,
  which needs a second connection of the pool;
* `clearDuplicateIngestions` is called nowhere, and `packages/backend` does not mount
  the administration router.

Humanitec:

* a card that is unmounted before `createEventSource` resolves leaves its connection
  open for good; one `update-failure` closes a source for good;
* a create-app run that failed half way is not completed by the next: its
  application is there, and everything below it is skipped. A call that was
  answered with 403 after it took effect is made twice.

The workflow's stream and run:

* a lost connection is retried after 15 seconds, but the retry begins with
  `getTask`, and when that call fails nothing is tried again, whatever the message
  says of three retries (`useTaskEventStream.ts:220`);
* `INIT` resets neither `cancelled` nor `output`: a task shown after one that was
  cancelled is shown as cancelled;
* a `getTask` that is answered between the render with another task (or with none,
  after `reset`) and the cleanup passes the test of `didCancel`, dispatches, which runs the
  cleanup, and then subscribes (`useTaskEventStream.ts:166-193`): nobody ends that
  connection, and its events are shown under the next task;
* an app that passes `onComplete` or `onError` anew in each render, as
  `EntityOnboardingWorkflow` in `packages/app` does, makes the effect run after each
  render: a completion is reported at least twice, and `reset` or the `pending` of a
  second run is overwritten by the status of the last task, until that of the
  second is `INIT`ed. `ModalWorkflow` keeps its `onComplete` and drops its `onError`;
* `reset` while `scaffold` is awaited does not keep its task from being shown;
* when `scaffold` rejects, `taskStatus` stays `pending`, and only `state` tells;
* a task whose connection was lost is reported as an error, and may be reported as
  a success after the retry.

The stepper:

* a field that is edited while its step is validated goes on with the value nobody
  validated; in the modal, whose button is never disabled, two submissions in flight
  both advance the step;
* `validate` throws for a nested object that has no data, and `isValidating` stays
  true (`useStepper.ts:51` says that validation should never throw);
* the data of a step is kept in `formState` also when it has errors;
* the validators of an array's items are called with the whole array;
* a modal runs its workflow once for as long as it is on the page;
* `OnboardingActions` leaves its Create button enabled while a run is pending.

YAML actions:

* `append` does nothing, and says nothing, when the parent of the path is missing or
  the path has one key;
* documents that are no entity are edited whatever `entityRef` says;
* a step with a url fetches the directory again and undoes what steps before it did
  to its files; two tasks on one absolute path lose an update of each other;
* `backend:add-annotation` writes the file before it makes `docs`, and fails when
  that is there, as it is the second time.

GraphQL:

* a search for a field of a nested object is looked up under the field's own
  name instead of its path: it asks for no field, or for a field of that name
  at the top (`resolvers.ts:316`, against `common.graphql:77`), which is all that
  `AnsweredAsDeclared` says of it;
* an interface goes through its implementations with a fresh `fieldTypes`, and then
  adds its own fields to the same config: what the types before it made of a name is
  not known any more and is written over. With two interfaces besides `Entity`
  that share a name, the first a nested object and the implementations of the
  second a leaf or JSON, the input object is then made of a scalar, and the server
  does not start (`Overwritten`);
* `getTypeConfigs` takes the combined type for the object when a name was an object
  and JSON (and no leaf): the next type that has the name as something else mixes the
  keys `rawFields` and `fields` into the object, or drops names (`MetAroundRaw`);
* what subtypes map is never a leaf in the resolver's field map, so a match of a field
  that is a leaf in one type and an object in another, the form `fieldE` in the
  documentation of `EntityFilter` (`common.graphql:87-92`), is a clause that names no key;
* whether a nested field is a leaf is looked up under its name at the top: a match of a
  nested object with the name of a leaf of `Entity` is no clause at all, and matches
  everything;
* types that contain themselves never end, neither in the input types nor in the
  field map; an empty object in `order` throws a `TypeError`;
* the loader answers what it cannot find with a `GraphQLError`, which is truthy, so
  that a relation's nodes are never left out as the code means them to be;
* the cursor of an edge has the order field as the entity has it, while the catalog
  compares it, as it stands, with values in lower case (`resolvers.ts:505-515`): rows
  between the two are left out or come again, and a first row in another case is never
  recognised, so that a client is told of something before the first page. An entity
  without the field is not modelled;
* a walk that begins with `last` and no cursor is told that nothing is before it;
  relation cursors are offsets and skip a row when an earlier relation goes;
* a feature that does not await `addModules`, as none of this repository does, is
  served without its modules when one resolves late, and an id that is there
  rejects a promise nobody looks at; the catalog's and the relation's module
  register a loader of the same name, so that a backend with both does not start.

## Plan

Done: the engine, its router and builder, the cycle it refines with its proof; the
service and the card in front of it; the stream, the run and the stepper; the
actions of a task; the GraphQL query, pages and registration.

Of the safety properties of the passing runs, those of the GraphQL query alone have no
proof: its operators are recursive.

## What is not modelled

Rendering, configuration, logging, the mapping of repositories to entities, HTTP
and SQL themselves, and the Backstage catalog's processing pipeline. The lengths
of waits. A pool of database connections, and what the migrations do: they are one
step that leaves the tables as the engine expects them. The read-only routes and
`healthcheck`. `rawFilter`, which is handed on as it is. Requests of
a page with `first` and `last`, or with both cursors. What a connection that was opened
behind its own cleanup does. The batch loader, which nothing in
the repository imports; the inspector, which shows the task tree of a library; the
pages of the demo app and the generators of test data, which keep no state of their
own that outlives a request.
