--------------------------- MODULE TaskEventStream ---------------------------
(***************************************************************************)
(* The hook useTaskEventStream of plugins/scaffolder-frontend-workflow: it *)
(* shows the events of one scaffolder task in the state of a reducer, and  *)
(* connects again when the connection is lost.                             *)
(*                                                                         *)
(* Each task that is shown starts an effect, whose closure (didCancel,     *)
(* retryCount, subscription, logPusher, the array of each connection) is   *)
(* hook[t] here: task ids are not used twice.  JavaScript is single        *)
(* threaded, so every callback is one action.  The reducer outlives the    *)
(* effects: a callback that comes late would write over another task.      *)
(*                                                                         *)
(* React runs effects behind the render they belong to, in a callback of   *)
(* their own, but before the next render at the latest.  The app is        *)
(* rendered with ReactDOM.render, so a dispatch from a callback renders    *)
(* within it: the effects that are due run first, that is, in the middle   *)
(* of the callback, and only then is the action reduced.                   *)
(*                                                                         *)
(* What the scaffolder backend says of a task is the sequence Log, then a  *)
(* completion.  The module has the actions; RunWorkflow composes them.     *)
(***************************************************************************)
EXTENDS Integers, SequencesExt

CONSTANTS
    Tasks,      \* task ids
    NoTask,     \* no task id
    Steps,      \* the ids of a task's steps
    NoStatus,   \* a log entry without a status
    Log,        \* the log entries of a task
    Retries,    \* how often the hook connects again: 3
    MaxLosses,  \* bound on the connections lost
    MaxRefusals,\* bound on the calls of getTask that fail
    MaxOrphans  \* bound on the connections that are never ended

Statuses == {"processing", "completed", "failed", "cancelled", "skipped"}

ASSUME TasksAssumption  == NoTask \notin Tasks
ASSUME StatusAssumption == NoStatus \notin Statuses
\* An entry may be of a step that the task does not have, or of none.
ASSUME LogAssumption    ==
    /\ Log \in Seq([step: STRING, status: Statuses \cup {NoStatus}])
    /\ Steps \subseteq STRING
ASSUME StreamBoundsAssumption ==
    /\ Retries \in Nat
    /\ MaxLosses \in Nat
    /\ MaxRefusals \in Nat
    /\ MaxOrphans \in Nat

VARIABLES
    taskId,     \* the argument of the hook in the last render
    effectTask, \* the task whose effect has run and has not been cleaned up
    mounted,    \* the component that calls the hook is mounted
    stream,     \* the state of the reducer, which the hook returns
    hook,       \* the closure of each task's effect
    orphans,    \* history: the tasks that connected behind their cleanup
    backend,    \* what the scaffolder backend has of each task
    losses,     \* connections lost so far
    refusals    \* calls of getTask that failed so far

shownVars  == <<taskId, effectTask, mounted>>
boundVars  == <<losses, refusals>>
streamVars == <<shownVars, stream, hook, orphans, backend, boundVars>>

-----------------------------------------------------------------------------
(* The reducer.                                                            *)

Attempts == 1..(Retries + 1)
Entries  == 1..Len(Log)

\* An Error object is told by the task and the attempt that it comes from.
NoError == [kind |-> "none", task |-> NoTask, attempt |-> 0]
Error(kind, t) == [kind |-> kind, task |-> t, attempt |-> hook[t].retryCount]

\* Before the first INIT there are no steps.
NoStream == [loading |-> TRUE, cancelled |-> FALSE, completed |-> FALSE,
             error |-> NoError, task |-> NoTask,
             steps |-> [s \in {} |-> "open"], stepLogs |-> [s \in {} |-> <<>>]]

INIT(st, t) ==
    [st EXCEPT !.steps = [s \in Steps |-> "open"],
               !.stepLogs = [s \in Steps |-> <<>>],
               !.loading = FALSE, !.error = NoError,
               !.completed = FALSE, !.task = t]

\* The entries of a step among those collected, one after the other, and those with
\* a status.
OfStep(entries, s)   == FlattenSeq([i \in DOMAIN entries |->
                            IF Log[entries[i]].step = s THEN <<entries[i]>> ELSE <<>>])
WithStatus(entries)  == SelectSeq(entries, LAMBDA k : Log[k].status # NoStatus)
LastStatus(entries, before) ==
    IF WithStatus(entries) = <<>> THEN before
    ELSE Log[WithStatus(entries)[Len(WithStatus(entries))]].status

LOGS(st, entries) ==
    [st EXCEPT !.steps = [s \in DOMAIN @ |-> LastStatus(OfStep(entries, s), @[s])],
               !.stepLogs = [s \in DOMAIN @ |-> @[s] \o OfStep(entries, s)]]

\* Faulty: the error of a task that failed is left out.
CompletedAnyway(st, error) == [st EXCEPT !.completed = TRUE]

COMPLETED(st, error) == [st EXCEPT !.completed = TRUE, !.error = error]

CANCELLED(st) == [st EXCEPT !.cancelled = TRUE]

ERROR(st, error) ==
    [st EXCEPT !.error = error, !.loading = FALSE, !.completed = TRUE]

-----------------------------------------------------------------------------
(* The effect.                                                             *)

\* `phase` is what the chain of callbacks waits for: the answer to getTask, the
\* observer's events, the timer that reconnects, or nothing any more.
Closure == [phase: {"none", "getTask", "streaming", "waiting", "over"},
            didCancel: BOOLEAN, retryCount: Attempts, logPusher: Attempts \cup {0},
            intervals: SUBSET Attempts, delivered: 0..Len(Log),
            collected: [Attempts -> Seq(Entries)]]

NoClosure == [phase |-> "none", didCancel |-> FALSE, retryCount |-> 1,
              logPusher |-> 0, intervals |-> {}, delivered |-> 0,
              collected |-> [a \in Attempts |-> <<>>]]

\* Faulty: the subscription stays.
KeepSubscription(h) == [h EXCEPT !.didCancel = TRUE, !.intervals = @ \ {h.logPusher}]

\* What the effect returns.  The timer that reconnects is not cleared, nor are the
\* intervals of earlier connections.  What nobody reads any more is left out.
Cleanup(h) ==
    LET left == h.intervals \ {h.logPusher} IN
    [NoClosure EXCEPT
        !.didCancel = TRUE,
        !.phase = IF h.phase = "streaming" THEN "over" ELSE h.phase,
        !.retryCount = IF h.phase = "getTask" THEN h.retryCount ELSE 1,
        !.intervals = left,
        !.collected = [a \in Attempts |-> IF a \in left THEN h.collected[a] ELSE <<>>]]

\* The closures once the effects have run that are due: when the argument of the
\* hook has changed, that of the last task is cleaned up and that of the new one runs.
EffectsRun(closures) ==
    [t \in Tasks |->
        IF taskId = effectTask THEN closures[t]
        ELSE IF t = effectTask THEN Cleanup(closures[t])
        ELSE IF t = taskId     THEN [NoClosure EXCEPT !.phase = "getTask"]
        ELSE closures[t]]

\* What a render leaves of them; a component that is gone is not rendered.
Rendered(closures) == IF mounted THEN EffectsRun(closures) ELSE closures

\* A dispatch: the effects that are due, then the action.
Dispatch(shown, closures) ==
    /\ stream' = IF mounted THEN shown ELSE stream
    /\ effectTask' = IF mounted THEN taskId ELSE effectTask
    /\ hook' = closures
    /\ UNCHANGED <<taskId, mounted>>

\* The array of the current connection, and the closure once it is emitted.
Collected(h) == h.collected[h.retryCount]
Emitted(h)   == [h EXCEPT !.collected[h.retryCount] = <<>>]

\* A callback that is not cancelled goes on.
GoesOn(h) == ~h.didCancel

\* The closure once it has subscribed and set its interval.
Connected(h) ==
    [h EXCEPT !.phase = "streaming", !.delivered = 0,
              !.logPusher = h.retryCount, !.intervals = @ \cup {h.retryCount}]

\* getTask is answered, one way or the other, and the effect was cleaned up before.
getTaskIgnored(t) ==
    /\ hook[t].phase = "getTask" /\ ~GoesOn(hook[t])
    /\ hook' = [hook EXCEPT ![t].phase = "over", ![t].retryCount = 1]
    /\ UNCHANGED <<shownVars, stream, orphans, backend, boundVars>>

\* didCancel is not tested again behind the dispatch of INIT, which runs the effects
\* that are due: if the cleanup of t is among them it finds no connection to end,
\* and the one that follows is never ended.
getTaskSucceeds(t) ==
    /\ hook[t].phase = "getTask" /\ GoesOn(hook[t])
    /\ Dispatch(INIT(stream, t), [Rendered(hook) EXCEPT ![t] = Connected(@)])
    /\ orphans' = IF Rendered(hook)[t].didCancel THEN orphans \cup {t} ELSE orphans
    /\ UNCHANGED <<backend, boundVars>>

getTaskFails(t) ==
    /\ hook[t].phase = "getTask" /\ GoesOn(hook[t])
    /\ refusals < MaxRefusals
    /\ refusals' = refusals + 1
    /\ Dispatch(ERROR(stream, Error("refused", t)),
                Rendered([hook EXCEPT ![t].phase = "over"]))
    /\ UNCHANGED <<orphans, backend, losses>>

\* The observer's `next`, for each type of event.
log(t) ==
    LET h == hook[t] IN
    /\ h.phase = "streaming"
    /\ h.delivered < backend[t].logged
    /\ hook' = [hook EXCEPT ![t] = [h EXCEPT
                  !.delivered = @ + 1,
                  !.collected[h.retryCount] = Append(@, h.delivered + 1)]]
    /\ UNCHANGED <<shownVars, stream, orphans, backend, boundVars>>

\* Somebody may cancel a task at any time; the backend ends it in its own.
cancelled(t) ==
    /\ hook[t].phase = "streaming"
    /\ Dispatch(CANCELLED(stream), Rendered(hook))
    /\ UNCHANGED <<orphans, backend, boundVars>>

\* Faulty: what was collected is left to the interval.
CompleteOnly(t, error) == COMPLETED(stream, error)

\* emitLogs, then the dispatch of COMPLETED.
EmitAndComplete(t, error) == COMPLETED(LOGS(stream, Collected(hook[t])), error)

\* The backend closes the connection behind this event.
completion(t) ==
    LET h == hook[t] IN
    /\ h.phase = "streaming"
    /\ backend[t].status \in {"completed", "failed"}
    /\ h.delivered = backend[t].logged
    /\ Dispatch(EmitAndComplete(t, IF backend[t].status = "failed"
                                   THEN Error("failed", t) ELSE NoError),
                Rendered([hook EXCEPT ![t] = [Emitted(h) EXCEPT !.phase = "over"]]))
    /\ UNCHANGED <<orphans, backend, boundVars>>

\* Faulty: one retry too few.
LostOnceLess(h) == [Emitted(h) EXCEPT
              !.phase = IF h.retryCount < Retries THEN "waiting" ELSE "over"]

\* The closure once the connection is lost: emitLogs, and the timer.
Lost(h) == [Emitted(h) EXCEPT
              !.phase = IF h.retryCount <= Retries THEN "waiting" ELSE "over"]

\* The observer's `error`.
lose(t) ==
    /\ hook[t].phase = "streaming"
    /\ losses < MaxLosses
    /\ losses' = losses + 1
    /\ Dispatch(ERROR(LOGS(stream, Collected(hook[t])), Error("lost", t)),
                Rendered([hook EXCEPT ![t] = Lost(hook[t])]))
    /\ UNCHANGED <<orphans, backend, refusals>>

\* The timer of 15 seconds.
reconnect(t) ==
    /\ hook[t].phase = "waiting"
    /\ hook' = [hook EXCEPT ![t].retryCount = @ + 1, ![t].phase = "getTask"]
    /\ UNCHANGED <<shownVars, stream, orphans, backend, boundVars>>

\* The interval that the connection of attempt a started.
emitLogs(t, a) ==
    LET h == hook[t] IN
    /\ a \in h.intervals
    /\ h.collected[a] # <<>>
    /\ Dispatch(LOGS(stream, h.collected[a]), Rendered([hook EXCEPT ![t].collected[a] = <<>>]))
    /\ UNCHANGED <<orphans, backend, boundVars>>

-----------------------------------------------------------------------------
(* The backend: a task is created, logs, and ends, in success only when it   *)
(* has logged everything.                                                  *)

BackendTask == [status: {"none", "processing", "completed", "failed"},
                logged: 0..Len(Log)]

NoBackendTask == [status |-> "none", logged |-> 0]

\* What becomes of a task that nobody looks at any more is not explored.
LeftBehind(h) == h.didCancel /\ h.phase = "over"

Backend(t, task) ==
    /\ backend[t].status = "processing"
    /\ ~LeftBehind(hook[t])
    /\ backend' = [backend EXCEPT ![t] = task]
    /\ UNCHANGED <<shownVars, stream, hook, orphans, boundVars>>

progress(t) ==
    /\ backend[t].logged < Len(Log)
    /\ Backend(t, [backend[t] EXCEPT !.logged = @ + 1])

finish(t) ==
    \/ /\ backend[t].logged = Len(Log)
       /\ Backend(t, [backend[t] EXCEPT !.status = "completed"])
    \/ Backend(t, [backend[t] EXCEPT !.status = "failed"])

-----------------------------------------------------------------------------
StreamInit ==
    /\ taskId = NoTask
    /\ effectTask = NoTask
    /\ mounted = TRUE
    /\ stream = NoStream
    /\ hook = [t \in Tasks |-> NoClosure]
    /\ orphans = {}
    /\ backend = [t \in Tasks |-> NoBackendTask]
    /\ losses = 0
    /\ refusals = 0

\* The callbacks that dispatch, and those that do not.
Dispatching(t) ==
    getTaskSucceeds(t) \/ getTaskFails(t) \/ cancelled(t) \/ completion(t) \/ lose(t)
Silent(t) == getTaskIgnored(t) \/ log(t) \/ reconnect(t)
=============================================================================
