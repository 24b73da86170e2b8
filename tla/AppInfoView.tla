----------------------------- MODULE AppInfoView -----------------------------
(***************************************************************************)
(* The cards of the Humanitec plugin and the service that they are fed by: *)
(* useAppInfo (plugins/humanitec/src/hooks) opens a connection to the route *)
(* /environments (plugins/humanitec-backend/src/service/router.ts), which   *)
(* subscribes it to AppInfoService.                                        *)
(*                                                                         *)
(* External: the EventSource connects again when its connection is lost,    *)
(* and the server hears of a connection that was closed.                   *)
(***************************************************************************)
EXTENDS AppInfoService, Sequences

CONSTANTS
    Views,      \* the views; the other subscribers are connections of other pages
    MaxWire,    \* bound on the events that are on their way to one view
    MaxLosses   \* bound on the connections that are lost

ASSUME ViewsAssumption == Views \subseteq Subscribers
ASSUME ViewBoundsAssumption == MaxWire \in Nat \ {0} /\ MaxLosses \in Nat

VARIABLES
    mounted,    \* the views that are on the page
    source,     \* view -> "none", "creating", "open" or "closed"
    wire,       \* view -> the events that its connection has not delivered
    data,       \* view -> the version that it shows, None or Failed
    losses      \* the connections that were lost so far

views   == <<mounted, source, wire, data, losses>>
allVars == <<vars, views>>

ViewInit ==
    /\ Init
    /\ mounted = {}
    /\ source = [s \in Subscribers |-> "none"]
    /\ wire = [s \in Subscribers |-> <<>>]
    /\ data = [s \in Subscribers |-> None]
    /\ losses = 0

-----------------------------------------------------------------------------
(* useAppInfo.                                                             *)

\* The effect, with both annotations there.
effect(s) ==
    /\ s \notin mounted /\ s \notin listeners /\ source[s] \in {"none", "closed"}
    /\ mounted' = mounted \cup {s}
    /\ source' = [source EXCEPT ![s] = "creating"]
    /\ data' = [data EXCEPT ![s] = None]
    /\ UNCHANGED <<vars, wire, losses>>

\* The url and the credentials are there, or they are not.
createEventSource(s) ==
    /\ source[s] = "creating"
    /\ \/ source' = [source EXCEPT ![s] = "open"] /\ UNCHANGED data
       \/ /\ source' = [source EXCEPT ![s] = "none"]
          /\ data' = [data EXCEPT ![s] = Failed]
    /\ UNCHANGED <<vars, mounted, wire, losses>>

CloseSource(s) ==
    /\ source' = [source EXCEPT ![s] = "closed"]
    /\ wire' = [wire EXCEPT ![s] = <<>>]

\* The cleanup of the effect; a source that is still being created is not known
\* to it, and is opened afterwards.
cleanup(s) ==
    /\ s \in mounted
    /\ mounted' = mounted \ {s}
    /\ IF source[s] = "open" THEN CloseSource(s) ELSE UNCHANGED <<source, wire>>
    /\ UNCHANGED <<vars, data, losses>>

\* update-success shows the application; update-failure shows the error, and
\* closes the source.
receive(s) ==
    /\ source[s] = "open" /\ wire[s] # <<>>
    /\ data' = [data EXCEPT ![s] = Head(wire[s]).version]
    /\ IF Head(wire[s]).version = Failed THEN CloseSource(s)
       ELSE wire' = [wire EXCEPT ![s] = Tail(@)] /\ UNCHANGED source
    /\ UNCHANGED <<vars, mounted, losses>>

-----------------------------------------------------------------------------
(* GET /environments.                                                      *)

Write(events, update) == Append(events, update)

\* The request of the source arrives, and whoever joins a loop that has an update
\* is sent it at once.
connect(s) ==
    /\ source[s] = "open" /\ Len(wire[s]) < MaxWire
    /\ wire' = IF timeout # NoTimer /\ lastData # NoUpdate
               THEN [wire EXCEPT ![s] = Write(@, lastData)] ELSE wire
    /\ addSubscriber(s)
    /\ UNCHANGED <<mounted, source, data, losses>>

\* The source was closed, and the request closes.
closeRequest(s) ==
    /\ source[s] # "open"
    /\ unsubscribe(s)
    /\ UNCHANGED views

\* The connection is lost, with what was on its way.
loseConnection(s) ==
    /\ source[s] = "open" /\ losses < MaxLosses
    /\ losses' = losses + 1
    /\ unsubscribe(s)
    /\ wire' = [wire EXCEPT ![s] = <<>>]
    /\ UNCHANGED <<mounted, source, data>>

\* Every connection that is subscribed is written the update.  A closed source
\* takes no more of them.
publishToViews(f) ==
    /\ \A s \in listeners : Len(wire[s]) < MaxWire
    /\ wire' = [s \in Subscribers |->
                    IF s \in listeners /\ source[s] = "open"
                    THEN Write(wire[s], [id |-> f.id, version |-> f.version]) ELSE wire[s]]
    /\ publish(f)
    /\ UNCHANGED <<mounted, source, data, losses>>

-----------------------------------------------------------------------------
(* The service goes on on its own, and for the connections of other pages. *)

serviceStep ==
    /\ \/ \E s \in Subscribers \ Views : addSubscriber(s) \/ unsubscribe(s)
       \/ \E t \in Timers : fetchAppInfo(t)
       \/ \E f \in fetches : succeed(f) \/ fail(f)
       \/ ApplicationChanges
    /\ UNCHANGED views

ViewNext ==
    \/ \E s \in Views :
          effect(s) \/ createEventSource(s) \/ cleanup(s) \/ receive(s)
          \/ connect(s) \/ closeRequest(s) \/ loseConnection(s)
    \/ \E f \in fetches : publishToViews(f)
    \/ serviceStep

ViewSpec == ViewInit /\ [][ViewNext]_allVars

FetchEnds(t) ==
    \E f \in fetches : f.timer = t /\ (((succeed(f) \/ fail(f)) /\ UNCHANGED views) \/ publishToViews(f))

\* Timers fire, requests end, and connections are made, deliver and close.
ViewFairness ==
    /\ \A t \in Timers : WF_allVars(fetchAppInfo(t) /\ UNCHANGED views) /\ WF_allVars(FetchEnds(t))
    /\ \A s \in Views :
        /\ WF_allVars(createEventSource(s)) /\ WF_allVars(receive(s))
        /\ SF_allVars(connect(s)) /\ WF_allVars(closeRequest(s))

LiveViewSpec == ViewSpec /\ ViewFairness

-----------------------------------------------------------------------------
(* Properties.                                                             *)

\* A view does not go back to an older version of the application, whatever is on
\* its way to it when connections are lost and made again.
ViewNeverGoesBack ==
    [][rejoins' = 0 =>
         \A s \in mounted \cap mounted' : data'[s] # Failed => data'[s] >= data[s]]_allVars

\* A view that stays on the page shows the application as it is in the end, or an
\* error, also when connections are lost; after an error it is told nothing more.
ViewsCatchUp ==
    \A s \in Views : [](s \in mounted =>
        <>(s \notin mounted \/ data[s] = upstream \/ data[s] = Failed))

\* Once no view is on the page, nor has left a source behind that was opened after its
\* cleanup, and nobody else listens, the fetching comes to an end.
PollingStopsWithViews ==
    (listeners \subseteq Views /\ \A s \in Views : s \notin mounted /\ source[s] \in {"none", "closed"})
        ~> (Loops = {} \/ mounted # {} \/ ~(listeners \subseteq Views))
=============================================================================
