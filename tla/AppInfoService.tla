--------------------------- MODULE AppInfoService ---------------------------
(***************************************************************************)
(* AppInfoService of plugins/humanitec-backend: one polling loop that      *)
(* fetches an application from Humanitec on an interval and updates every  *)
(* connection of GET /environments that asks for it.                       *)
(*                                                                         *)
(* The service keeps its state in maps indexed by `orgId:appId` and every  *)
(* handler touches its own key only, so one key is modelled.  The process  *)
(* is single threaded: a handler runs to its end or to its `await`, which  *)
(* is where fetchAppInfo is cut in two.                                    *)
(*                                                                         *)
(* An update is told by its id and by the version of the application it    *)
(* shows.  Ids are counted modulo IdModulus to keep the model finite.      *)
(***************************************************************************)
EXTENDS Integers, FiniteSets

CONSTANTS
    Subscribers, \* the connections that may be open
    Timers,      \* the handles that setTimeout returns
    NoTimer,     \* the map `timeouts` has no entry
    IdModulus,   \* the modulus of the update ids
    MaxVersion,  \* bound on the changes of the application
    MaxFailures, \* bound on the fetches that fail
    MaxRejoins   \* bound on the polling loops started beside another

ASSUME NoTimerAssumption == NoTimer \notin Timers
ASSUME BoundsAssumption  ==
    /\ IdModulus \in Nat \ {0}
    /\ MaxVersion \in Nat
    /\ MaxFailures \in Nat
    /\ MaxRejoins \in Nat

VARIABLES
    listeners, \* the emitter's listeners
    timeout,   \* the entry of `timeouts`
    lastData,  \* the entry of `lastData`
    armed,     \* the timers that have not fired
    fetches,   \* the calls of fetchAppInfo that wait for Humanitec
    seen,      \* what each open connection was told last
    upstream,  \* the version of the application that Humanitec has
    failures,  \* the fetches that failed so far
    rejoins    \* the polling loops started beside another so far

service  == <<listeners, timeout, lastData, armed, fetches>>
counters == <<failures, rejoins>>
vars     == <<service, seen, upstream, counters>>

-----------------------------------------------------------------------------
None     == -1 \* no id, no version yet
Failed   == -2 \* the version of an update whose error is set
Ids      == 0..(IdModulus - 1)
Versions == 0..MaxVersion

Fetch == [timer: Timers, id: Ids, version: Versions \cup {None, Failed}]

\* lastData has no entry; the subscriber was told nothing.
NoUpdate == [id |-> None, version |-> None]
Update   == [id: Ids, version: Versions \cup {Failed}] \cup {NoUpdate}

\* Each polling loop is a timer that is armed or a fetch that it started.
Loops == armed \cup {f.timer : f \in fetches}

\* A handle that nothing refers to any more.
FreshTimers == Timers \ (Loops \cup {timeout})
NewTimer    == CHOOSE t \in FreshTimers : TRUE

Init ==
    /\ listeners = {}
    /\ timeout = NoTimer
    /\ lastData = NoUpdate
    /\ armed = {}
    /\ fetches = {}
    /\ seen = [s \in Subscribers |-> NoUpdate]
    /\ upstream = 0
    /\ failures = 0
    /\ rejoins = 0

setTimeout ==
    /\ FreshTimers # {}
    /\ timeout' = NewTimer
    /\ armed' = armed \cup {NewTimer}

\* Faulty: an error wipes what was shown.
ErrorShown(before, u) == [id |-> u.id, version |-> u.version]

\* What a subscriber who was told `before` has been told with update u: an
\* error shows no version.
Told(before, u) ==
    [id |-> u.id, version |-> IF u.version = Failed THEN before.version ELSE u.version]

\* addSubscriber, called with the request.  Whoever joins a loop is told the
\* last update at once.
addSubscriber(s) ==
    /\ s \notin listeners
    /\ listeners' = listeners \cup {s}
    /\ \/ /\ timeout = NoTimer
          /\ setTimeout
          /\ UNCHANGED seen
          /\ \/ fetches = {} /\ UNCHANGED rejoins
             \/ /\ fetches # {}
                /\ rejoins < MaxRejoins
                /\ rejoins' = rejoins + 1
       \/ /\ timeout # NoTimer
          /\ seen' = [seen EXCEPT ![s] = Told(NoUpdate, lastData)]
          /\ UNCHANGED <<timeout, armed, rejoins>>
    /\ UNCHANGED <<lastData, fetches, upstream, failures>>

\* Faulty: the entry stays in the map.
EntryStays == UNCHANGED <<timeout, lastData>> /\ armed' = armed \ {timeout}

\* clearTimeout and the two deletes that follow it.
stopPolling ==
    /\ timeout' = NoTimer
    /\ armed' = armed \ {timeout}
    /\ lastData' = NoUpdate

\* The function that addSubscriber returns, called when the request closes.
unsubscribe(s) ==
    /\ s \in listeners
    /\ listeners' = listeners \ {s}
    /\ IF listeners' = {} /\ timeout # NoTimer
       THEN stopPolling
       ELSE UNCHANGED <<timeout, armed, lastData>>
    /\ seen' = [seen EXCEPT ![s] = NoUpdate]
    /\ UNCHANGED <<fetches, upstream, counters>>

\* Faulty: the id does not count up.
SameId == IF lastData = NoUpdate THEN 0 ELSE lastData.id

\* The id of an update is drawn before the fetch.
NextId == IF lastData = NoUpdate THEN 0 ELSE (lastData.id + 1) % IdModulus

\* Faulty: setInterval.
StillArmed(t) == armed

\* A timer of setTimeout fires once.
ArmedAfter(t) == armed \ {t}

\* fetchAppInfo, up to its await.
fetchAppInfo(t) ==
    /\ t \in armed
    /\ armed' = ArmedAfter(t)
    /\ fetches' = fetches \cup {[timer |-> t, id |-> NextId, version |-> None]}
    /\ UNCHANGED <<listeners, timeout, lastData, seen, upstream, counters>>

\* Humanitec reads the application, or refuses to.
Answer(f, version) ==
    /\ f.version = None
    /\ fetches' = (fetches \ {f}) \cup {[f EXCEPT !.version = version]}
    /\ UNCHANGED <<listeners, timeout, lastData, armed, seen, upstream, rejoins>>

succeed(f) == Answer(f, upstream) /\ UNCHANGED failures

fail(f) == /\ failures < MaxFailures
           /\ failures' = failures + 1
           /\ Answer(f, Failed)

\* Faulty: it goes on without listeners.
Always == TRUE

Listened == listeners # {}

\* fetchAppInfo, the finally block.
publish(f) ==
    LET update == [id |-> f.id, version |-> f.version] IN
    /\ f.version # None
    /\ fetches' = fetches \ {f}
    /\ \/ /\ Listened
          /\ setTimeout
          /\ lastData' = update
          /\ seen' = [s \in Subscribers |->
                        IF s \in listeners THEN Told(seen[s], update) ELSE seen[s]]
       \/ /\ ~Listened
          /\ UNCHANGED <<timeout, armed, lastData, seen>>
    /\ UNCHANGED <<listeners, upstream, counters>>

ApplicationChanges ==
    /\ upstream < MaxVersion
    /\ upstream' = upstream + 1
    /\ UNCHANGED <<service, seen, counters>>

Next ==
    \/ \E s \in Subscribers : addSubscriber(s) \/ unsubscribe(s)
    \/ \E t \in Timers : fetchAppInfo(t)
    \/ \E f \in fetches : succeed(f) \/ fail(f) \/ publish(f)
    \/ ApplicationChanges

Spec == Init /\ [][Next]_vars

\* The fetch that timer t started makes progress: it is answered, in the end
\* with success, for failures are bounded, and its answer is taken up.
Progress(t) == \E f \in fetches : f.timer = t /\ (succeed(f) \/ fail(f) \/ publish(f))

\* Timers fire and requests end.  Nothing forces a connection to open, to
\* close, or the application to change.
Fairness == \A t \in Timers : WF_vars(fetchAppInfo(t)) /\ WF_vars(Progress(t))

LiveSpec == Spec /\ Fairness

-----------------------------------------------------------------------------
(* Safety.                                                                 *)

\* Every variable keeps its type.
TypeOK ==
    /\ listeners \subseteq Subscribers
    /\ timeout \in Timers \cup {NoTimer}
    /\ lastData \in Update
    /\ armed \subseteq Timers
    /\ fetches \subseteq Fetch
    /\ seen \in [Subscribers -> [id: Ids \cup {None}, version: Versions \cup {None}]]
    /\ upstream \in Versions
    /\ failures \in 0..MaxFailures
    /\ rejoins \in 0..MaxRejoins

\* `timeouts` has an entry exactly while somebody listens, and its timer runs
\* or has a fetch under way: whoever joins on the strength of the entry joins
\* a loop that lives.  What they are told at once is no older than the loop.
EntryMeansLoop ==
    /\ timeout # NoTimer <=> listeners # {}
    /\ timeout # NoTimer => timeout \in Loops
    /\ timeout = NoTimer => lastData = NoUpdate

\* One fetch at a time, as the comment in addSubscriber has it ("Only fetch app info
\* if a fetch is not pending").  The code looks for a timer instead, and the entry of
\* a fetch under way goes with the last of its audience.
OneFetchPending == Cardinality(fetches) <= 1

\* What holds in its place: there is one loop, and one more for each time somebody
\* joined while a fetch of an earlier audience was under way.
LoopsAreCounted == Cardinality(Loops) <= 1 + rejoins

\* Each subscriber sees the ids count up one by one.
IdsFollow ==
    [][rejoins' = 0 =>
         \A s \in listeners \cap listeners' :
            seen'[s] # seen[s] /\ seen[s].id # None =>
                seen'[s].id = (seen[s].id + 1) % IdModulus]_vars

-----------------------------------------------------------------------------
(* Liveness.                                                               *)

\* Whoever stays connected is shown the application as it is in the end, also
\* after failures and beside leftover loops.
EveryoneCatchesUp ==
    \A s \in Subscribers :
        [](s \in listeners => <>(s \notin listeners \/ seen[s].version = upstream))
=============================================================================
