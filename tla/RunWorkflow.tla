----------------------------- MODULE RunWorkflow -----------------------------
(***************************************************************************)
(* The hook useRunWorkflow of plugins/scaffolder-frontend-workflow, on top *)
(* of useTaskEventStream: `execute` asks the scaffolder for a task and     *)
(* shows its events, `reset` forgets it, and an effect turns what the      *)
(* stream shows into a status and into calls of onComplete and onError.    *)
(*                                                                         *)
(* The effects of both hooks run together, in a callback behind their      *)
(* render or in front of the next one (TaskEventStream).  A setter that is *)
(* called outside of an effect is queued before they run, so a status that *)
(* the effect sets goes over it.                                           *)
(***************************************************************************)
EXTENDS TaskEventStream, FiniteSets

VARIABLES
    fresh,      \* the component gives the hook other callbacks in each render
    due,        \* the effect of this hook has not run since the last render
    taskStatus, \* the status that the hook returns
    state,      \* the status of useAsync, which the hook returns as well
    inFlight,   \* the calls of scaffold that are awaited, by their task
    latest,     \* the last call of execute
    executed,   \* the calls of execute so far
    reported    \* for each task: onComplete was called never, once or (2) more often

callVars  == <<state, inFlight, latest, executed>>
vars      == <<streamVars, fresh, due, taskStatus, reported, callVars>>

-----------------------------------------------------------------------------
\* packages/app makes new callbacks in each render of EntityOnboardingWorkflow.
Init ==
    /\ StreamInit
    /\ fresh \in BOOLEAN
    /\ due = FALSE
    /\ taskStatus = "idle"
    /\ state = "not-executed"
    /\ inFlight = {}
    /\ latest = NoTask
    /\ executed = {}
    /\ reported = [t \in Tasks |-> 0]

\* The dependencies of the effect, beside the callbacks.
deps == <<stream.completed, stream.error>>

\* Faulty: the error is not a dependency.
CompletedChanges == stream'.completed # stream.completed

DepsChange == deps' # deps

Succeeded == stream.completed /\ stream.error = NoError

\* The effect, if it is due, behind a setter that is given `status`.
Effect(status) ==
    /\ taskStatus' = IF due /\ stream.error # NoError THEN "error"
                     ELSE IF due /\ Succeeded THEN "success"
                     ELSE status
    /\ reported' = IF due /\ Succeeded
                   THEN [reported EXCEPT ![stream.task] = IF @ = 0 THEN 1 ELSE 2]
                   ELSE reported
    /\ UNCHANGED fresh

\* A render, in front of which the effect runs, and behind which it is due again.
Render(status, changes) ==
    /\ Effect(status)
    /\ due' = (DepsChange \/ (fresh /\ changes))

\* The effects of both hooks in front of another render.
RunEffects ==
    /\ hook' = EffectsRun(hook)
    /\ effectTask' = taskId

\* A dispatch of the stream.
StreamDispatch(Action) ==
    /\ Action
    /\ IF mounted THEN Render(taskStatus, stream' # stream \/ taskStatus' # taskStatus)
       ELSE UNCHANGED <<fresh, due, taskStatus, reported>>
    /\ UNCHANGED callVars

\* Any other step of the stream, and the backend's.
StreamStep(Action) == Action /\ UNCHANGED <<fresh, due, taskStatus, reported, callVars>>

\* React runs the effects that are due.
flushEffects ==
    /\ due \/ effectTask # taskId
    /\ RunEffects
    /\ Effect(taskStatus)
    /\ due' = (fresh /\ taskStatus' # taskStatus)
    /\ UNCHANGED <<taskId, mounted, stream, orphans, backend, boundVars, callVars>>

\* The component is rendered again, for a reason of its own.
rerender ==
    /\ mounted /\ fresh
    /\ UNCHANGED <<taskId, mounted, stream, orphans, backend, boundVars, callVars>>
    /\ RunEffects
    /\ Render(taskStatus, TRUE)

-----------------------------------------------------------------------------
\* The task that the next call of scaffold creates when it succeeds: which of
\* the ids that are left makes no difference.
NewTask == CHOOSE t \in Tasks \ executed : TRUE

\* execute, up to its await.  Any component that uses the hook may call it
\* again before the last call was answered.
execute ==
    /\ mounted
    /\ Tasks \ executed # {}
    /\ executed' = executed \cup {NewTask}
    /\ state' = "loading"
    /\ inFlight' = inFlight \cup {NewTask}
    /\ latest' = NewTask
    /\ UNCHANGED <<taskId, mounted, stream, orphans, backend, boundVars>>
    /\ RunEffects
    /\ Render("pending", TRUE)

\* The last of the calls decides on `state`, each of them on the task shown.
Settle(t, outcome) ==
    /\ t \in inFlight
    /\ inFlight' = inFlight \ {t}
    /\ state' = IF mounted /\ t = latest THEN outcome ELSE state
    /\ UNCHANGED <<mounted, stream, orphans, boundVars, latest, executed>>

\* A setter that leads to a render, whose own effects are left for later.
SetterRenders(status, id) ==
    /\ RunEffects
    /\ taskId' = id
    /\ Render(status, TRUE)

NothingRenders == UNCHANGED <<taskId, effectTask, hook, fresh, due, taskStatus, reported>>

\* setTaskId.  useAsync renders once more when the call was its last, and with that
\* the effects may run at once; here they may always wait.
scaffoldResolves(t) ==
    /\ Settle(t, "success")
    /\ backend' = [backend EXCEPT ![t].status = "processing"]
    /\ IF mounted THEN SetterRenders(taskStatus, t) ELSE NothingRenders

\* Nothing changes taskStatus.
scaffoldRejects(t) ==
    /\ Settle(t, "error")
    /\ UNCHANGED backend
    /\ IF mounted /\ t = latest THEN SetterRenders(taskStatus, taskId) ELSE NothingRenders

\* Setters that are given what there is do not render.
reset ==
    /\ mounted
    /\ taskStatus # "idle" \/ taskId # NoTask
    /\ UNCHANGED <<mounted, stream, orphans, backend, boundVars, callVars>>
    /\ SetterRenders("idle", NoTask)

\* The component goes away; the cleanup of its effects is due, as any other.
unmount ==
    /\ mounted
    /\ mounted' = FALSE
    /\ RunEffects
    /\ taskId' = NoTask
    /\ Effect(taskStatus)
    /\ due' = FALSE
    /\ UNCHANGED <<stream, orphans, backend, boundVars, callVars>>

Step ==
    \/ \E t \in Tasks :
        \/ StreamDispatch(Dispatching(t))
        \/ \E a \in Attempts : StreamDispatch(emitLogs(t, a))
        \/ StreamStep(Silent(t))
        \/ StreamStep(progress(t) \/ finish(t))
        \/ scaffoldResolves(t)
        \/ scaffoldRejects(t)
    \/ flushEffects
    \/ rerender
    \/ execute
    \/ reset
    \/ unmount

\* The bound on the connections that are never ended.
Explored == Cardinality(orphans) <= MaxOrphans

Next == Explored /\ Step

Spec == Init /\ [][Next]_vars

\* The chain of callbacks of a task, as far as it goes on by itself: nobody has to
\* cancel it.
Chain(t) ==
    \/ StreamDispatch(getTaskSucceeds(t) \/ getTaskFails(t) \/ completion(t) \/ lose(t))
    \/ StreamStep(Silent(t))

\* Requests are answered, the backend works its tasks off, effects that are due run,
\* and events and timers are served.  Nothing forces the user, nor a connection to
\* be lost.
Fairness ==
    /\ WF_vars(Explored /\ flushEffects)
    /\ \A t \in Tasks :
        /\ WF_vars(Explored /\ Chain(t))
        /\ WF_vars(Explored /\ StreamStep(progress(t) \/ finish(t)))
        /\ WF_vars(Explored /\ (scaffoldResolves(t) \/ scaffoldRejects(t)))

LiveSpec == Spec /\ Fairness

-----------------------------------------------------------------------------
(* Safety.  A connection that was opened behind its cleanup (`orphans`)    *)
(* goes on under the next task; what is said here is said without one.     *)

\* The logs that are shown of the task are its logs, in order, none twice and
\* none left out, also when the backend tells them again after a connection
\* was lost and while the intervals of both connections run.  A completion does
\* not overtake them: when the task is shown to be completed, all it logged is.
ShownUpTo(k) ==
    \A s \in DOMAIN stream.stepLogs :
        stream.stepLogs[s] = OfStep([i \in 1..k |-> i], s)
ShowsTheTasksLogs ==
    mounted /\ orphans = {} =>
        /\ stream.task # NoTask => \E k \in 0..backend[stream.task].logged : ShownUpTo(k)
        /\ stream.completed /\ stream.error.kind \in {"none", "failed"} =>
              ShownUpTo(backend[stream.task].logged)

\* onComplete is called for tasks only that succeeded, and for a task once when the
\* component keeps its callbacks.  One that does not is called again with each
\* render while the task is shown.
ReportedOnce ==
    orphans = {} =>
        \A t \in Tasks :
            /\ reported[t] > 0 => backend[t].status = "completed"
            /\ ~fresh => reported[t] <= 1

\* What the hook shows changes through the task only whose effect has not been
\* cleaned up: no timer, interval, request or subscription of a task that was
\* replaced, reset or unmounted writes over it, but for one that comes between the
\* render and the cleanup, and with which the cleanup is done.
OnlyShownTaskSpeaks ==
    [][stream' # stream /\ orphans = {} =>
         /\ mounted /\ effectTask # NoTask
         /\ stream'.task = effectTask \/ stream'.error.task = effectTask
         /\ effectTask' = taskId]_vars

-----------------------------------------------------------------------------
(* Liveness.                                                               *)

\* A run does not stay pending, unless the scaffolder rejected it, which only
\* `state` shows.
PendingEnds ==
    taskStatus = "pending" ~>
        taskStatus # "pending" \/ state = "error" \/ ~mounted \/ orphans # {}

\* A task is shown to its end, across as many lost connections as are retried, as
\* long as getTask does not fail; when the last of them is lost, that is shown.
Concluded(t) == /\ stream.task = t /\ stream.completed
                /\ stream.error.kind \in {"none", "failed"}
GaveUp(t) == stream.error = [kind |-> "lost", task |-> t, attempt |-> Retries + 1]
ShownToTheEnd ==
    \A t \in Tasks :
        taskId = t ~> taskId # t \/ Concluded(t) \/ GaveUp(t) \/ refusals > 0 \/ orphans # {}
=============================================================================
