---------------------- MODULE IncrementalIngestionAdmin ----------------------
(***************************************************************************)
(* The engine of IncrementalIngestion composed with the administration     *)
(* router of the plugin (routes.ts), whose handlers change the rows the    *)
(* engine works on while it works, and with the builder that connects it   *)
(* to the scheduler and lets it begin (IncrementalCatalogBuilder), again   *)
(* each time the process starts.                                           *)
(*                                                                         *)
(* A handler first looks the current record up and then updates it, in two *)
(* transactions; DELETE /cleanup is five.  One request is in flight at a   *)
(* time.  The GET routes change nothing and are left out.                  *)
(***************************************************************************)
EXTENDS IncrementalIngestion

CONSTANTS
    Routes,     \* the routes that are used, a subset of AllRoutes
    MaxRequests, \* bound on the requests that change something
    MaxRestarts  \* bound on the processes that die

AllRoutes == {"PUT", "POST", "POST cancel", "DELETE", "DELETE marks",
              "DELETE cleanup"}

ASSUME RoutesAssumption == Routes \subseteq AllRoutes
ASSUME MaxRequestsAssumption == MaxRequests \in Nat
ASSUME MaxRestartsAssumption == MaxRestarts \in Nat

VARIABLES
    handler,   \* what the request in flight does next, or "none"
    listed,    \* DELETE /cleanup: listProviders answered this provider
    requests,  \* requests so far
    phase,     \* how far the start of each process has come
    restarts   \* processes that died so far

router    == <<handler, listed, requests>>
builder   == <<phase, restarts>>
admin     == <<router, builder>>
adminVars == <<vars, admin>>

AdminInit ==
    /\ Init
    /\ handler = "none"
    /\ listed = FALSE
    /\ requests = 0
    /\ phase = [r \in Replicas |-> "created"]
    /\ restarts = 0

-----------------------------------------------------------------------------
(* The builder.                                                            *)

\* CatalogBuilder.build() connects the provider: the task is scheduled, and
\* its first tick may begin and await `ready`.
connect(r) ==
    /\ phase[r] = "created"
    /\ phase' = [phase EXCEPT ![r] = "connected"]
    /\ UNCHANGED <<vars, router, restarts>>

\* Then the migrations are applied, `ready` resolves and the routes exist.
build(r) ==
    /\ phase[r] = "connected"
    /\ phase' = [phase EXCEPT ![r] = "ready"]
    /\ UNCHANGED <<vars, router, restarts>>

\* The process dies, also because the migrations throw, and starts again.  Its
\* lock stays until it expires.  The request in flight may be one of its own.
Restart(r) ==
    /\ restarts < MaxRestarts
    /\ restarts' = restarts + 1
    /\ phase' = [phase EXCEPT ![r] = "created"]
    /\ Goto(r, "idle")
    /\ job' = [job EXCEPT ![r] = NoJob]
    /\ handler' \in {"none"} \cup {handler : q \in Replicas \ {r}}
    /\ listed' = (listed /\ handler' # "none")
    /\ UNCHANGED <<db, catalog, source, lease, aborted, faults, requests>>

\* The task is scheduled once it is connected, and begins once `ready`.
Begins(r) == BeginTick(r) /\ phase[r] # "created"
Runs(r)   == TaskStep(r) /\ phase[r] = "ready"

EngineNext ==
    /\ Next
    /\ \A r \in Replicas : pc'[r] # pc[r] =>
          \/ phase[r] = "ready"
          \/ pc[r] = "idle" /\ phase[r] = "connected"
    /\ UNCHANGED admin

-----------------------------------------------------------------------------
(* The router.                                                             *)

\* The row that stands for a paused provider: its completion_ticket is a uuid.
PausedRow == [present |-> TRUE, open |-> FALSE, status |-> "resting",
              nextAction |-> "rest", due |-> FALSE, attempts |-> 0,
              restCompleted |-> FALSE]

Arrives(route) ==
    /\ route \in Routes
    /\ handler = "none"
    /\ \E r \in Replicas : phase[r] = "ready"
    /\ requests < MaxRequests
    /\ requests' = requests + 1
    /\ UNCHANGED builder

Rest == <<catalog, source, lease, pc, job, aborted, faults>>

\* getCurrentIngestionRecord found one; without one the handlers only answer.
FindRecord(route) ==
    /\ Arrives(route)
    /\ OpenIds # {}
    /\ handler' = route
    /\ UNCHANGED <<vars, listed>>

\* The rows that updateIngestionRecordByProvider updates.
OpenRows == OpenIds

\* Each of them becomes what `updated` says.
updateIngestionRecordByProvider(updated) ==
    ingestions' = [i \in Ids |->
                     IF i \in OpenRows THEN updated[i] ELSE ingestions[i]]

Answered == /\ handler' = "none"
            /\ UNCHANGED <<marks, Rest, listed, requests, builder>>

\* PUT /:provider
triggerNextProviderAction ==
    /\ handler = "PUT"
    /\ updateIngestionRecordByProvider(
         [i \in Ids |-> [ingestions[i] EXCEPT !.due = TRUE]])
    /\ Answered

\* POST /:provider
startCycle ==
    /\ handler = "POST"
    /\ updateIngestionRecordByProvider(
         [i \in Ids |-> [ingestions[i] EXCEPT !.nextAction = "nothing (done)",
                                              !.restCompleted = TRUE,
                                              !.status = "complete"]])
    /\ Answered

\* POST /:provider/cancel
cancel ==
    /\ handler = "POST cancel"
    /\ updateIngestionRecordByProvider(
         [i \in Ids |-> [ingestions[i] EXCEPT !.nextAction = "nothing (done)",
                                              !.due = FALSE,
                                              !.status = "resting"]])
    /\ Answered

\* DELETE /:provider
purgeAndResetProvider ==
    /\ Arrives("DELETE")
    /\ FreshIds # {}
    /\ ingestions' = [i \in Ids |-> IF i = NewId THEN PausedRow ELSE NoRow]
    /\ marks' = {m \in marks : ~ingestions[m.ingestion].present}
    /\ UNCHANGED <<Rest, handler, listed>>

\* DELETE /:provider/marks
deleteFinishedMarks ==
    /\ Arrives("DELETE marks")
    /\ ingestions' = KeptRows
    /\ marks' = KeptMarks
    /\ UNCHANGED <<Rest, handler, listed>>

\* DELETE /cleanup
listProviders ==
    /\ Arrives("DELETE cleanup")
    /\ listed' = (\E i \in Ids : ingestions[i].present)
    /\ handler' = "purgeIngestions"
    /\ UNCHANGED vars

purgeIngestions ==
    /\ handler = "purgeIngestions"
    /\ ingestions' = [i \in Ids |-> NoRow]
    /\ handler' = IF listed THEN "insertPaused" ELSE "purgeMarks"
    /\ listed' = FALSE
    /\ UNCHANGED <<marks, Rest, requests, builder>>

insertPaused ==
    /\ handler = "insertPaused"
    /\ FreshIds # {}
    /\ ingestions' = [ingestions EXCEPT ![NewId] = PausedRow]
    /\ handler' = "purgeMarks"
    /\ UNCHANGED <<marks, Rest, listed, requests, builder>>

purgeMarks ==
    /\ handler = "purgeMarks"
    /\ marks' = {}
    /\ handler' = "purgeMarkEntities"
    /\ UNCHANGED <<ingestions, Rest, listed, requests, builder>>

purgeMarkEntities ==
    /\ handler = "purgeMarkEntities"
    /\ marks' = {[m EXCEPT !.refs = {}] : m \in marks}
    /\ handler' = "none"
    /\ UNCHANGED <<ingestions, Rest, listed, requests, builder>>

\* A call of the handler in flight throws, or its process dies.
HandlerFails ==
    /\ handler # "none"
    /\ handler' = "none"
    /\ listed' = FALSE
    /\ UNCHANGED <<vars, requests, builder>>

HandlerStep ==
    \/ triggerNextProviderAction
    \/ startCycle
    \/ cancel
    \/ purgeIngestions
    \/ insertPaused
    \/ purgeMarks
    \/ purgeMarkEntities

AdminNext ==
    \/ EngineNext
    \/ \E r \in Replicas : connect(r) \/ build(r) \/ Restart(r)
    \/ \E route \in {"PUT", "POST", "POST cancel"} : FindRecord(route)
    \/ purgeAndResetProvider
    \/ deleteFinishedMarks
    \/ listProviders
    \/ HandlerStep
    \/ HandlerFails

AdminSpec == AdminInit /\ [][AdminNext]_adminVars

AdminFairness ==
    /\ \A r \in Replicas :
          /\ WF_adminVars(Runs(r) /\ UNCHANGED admin)
          /\ WF_adminVars(Expire(r) /\ UNCHANGED admin)
          /\ WF_adminVars(connect(r) \/ build(r))
    /\ WF_adminVars((\E r \in Replicas : Begins(r)) /\ UNCHANGED admin)
    /\ WF_adminVars(Elapse /\ UNCHANGED admin)
    /\ WF_adminVars(HandlerStep)

AdminLiveSpec == AdminSpec /\ AdminFairness

-----------------------------------------------------------------------------
(* Properties.                                                             *)

\* POST /:provider and POST /:provider/cancel leave the record open with
\* nothing to do next.
Stopped == \E i \in OpenIds : ingestions[i].nextAction = "nothing (done)"

\* No other request, whenever it meets the engine and wherever it fails, wedges
\* the provider: every ingestion is finished in the end and another follows.
KeepsCyclingUnlessStopped ==
    /\ \A i \in Ids : IsOpen(i) ~> ~IsOpen(i) \/ Stopped
    /\ []<>(OpenIds # {})

\* And after each of them the catalog agrees with the source again, though a
\* purge may have taken the marks of a burst under way, whose sweep then
\* deletes what it had committed.
ConvergesUnlessStopped == []<>(catalog = SourceEntities \/ Stopped)
=============================================================================
