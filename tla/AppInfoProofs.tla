---------------------------- MODULE AppInfoProofs ----------------------------
(* Theorems about AppInfoService and AppInfoView, for any number of         *)
(* connections, timers and views.                                          *)
EXTENDS AppInfoView, TLAPS, FiniteSetTheorems

\* A loop is a timer or one fetch.
LoopsAreDistinct ==
    /\ \A f \in fetches : f.timer \notin armed
    /\ \A f, g \in fetches : f.timer = g.timer => f = g

Inv == TypeOK /\ EntryMeansLoop /\ LoopsAreDistinct

USE NoTimerAssumption, BoundsAssumption

-----------------------------------------------------------------------------
(* Lemmas about the operators.                                             *)

LEMMA NewTimerIsFresh ==
  FreshTimers # {} => NewTimer \in Timers /\ NewTimer \notin Loops /\ NewTimer # timeout
  BY DEF NewTimer, FreshTimers

LEMMA ToldType ==
  ASSUME NEW b \in [id: Ids \cup {None}, version: Versions \cup {None}], NEW u \in Update
  PROVE  Told(b, u) \in [id: Ids \cup {None}, version: Versions \cup {None}]
  BY DEF Told, Update, NoUpdate, None, Failed

LEMMA NextIdType == TypeOK => NextId \in Ids
  BY DEF TypeOK, NextId, Update, NoUpdate, Ids, None

\* An answer changes what a fetch knows, and no loop.
LEMMA AnswerKeepsLoops ==
  ASSUME LoopsAreDistinct, NEW f \in fetches, NEW v, Answer(f, v)
  PROVE  Loops' = Loops /\ LoopsAreDistinct' /\ fetches' # {}
<1> DEFINE g == [f EXCEPT !.version = v]
<1>1. armed' = armed /\ fetches' = (fetches \ {f}) \cup {g}
  BY DEF Answer
<1>2. g.timer = f.timer
  OBVIOUS
<1>3. \A h \in fetches' : h # g => h \in fetches /\ h # f
  BY <1>1
<1>4. LoopsAreDistinct'
  BY <1>1, <1>2, <1>3 DEF LoopsAreDistinct
<1> QED
  BY <1>1, <1>2, <1>4 DEF Loops

-----------------------------------------------------------------------------
(* Types, and what an entry of `timeouts` means.                           *)

LEMMA InitInv == Init => Inv
  BY DEF Init, Inv, TypeOK, EntryMeansLoop, LoopsAreDistinct, Loops, Update, NoUpdate,
         Versions, None, Ids

LEMMA AddSubscriberInv ==
  ASSUME Inv, NEW s \in Subscribers, addSubscriber(s)
  PROVE  Inv'
<1>1. TypeOK'
  <2>1. Told(NoUpdate, lastData) \in [id: Ids \cup {None}, version: Versions \cup {None}]
    BY ToldType DEF Inv, TypeOK, NoUpdate
  <2> QED
    BY <2>1, NewTimerIsFresh DEF Inv, TypeOK, addSubscriber, setTimeout
<1>2. EntryMeansLoop' /\ LoopsAreDistinct'
  BY NewTimerIsFresh
  DEF Inv, TypeOK, addSubscriber, setTimeout, EntryMeansLoop, LoopsAreDistinct, Loops
<1> QED
  BY <1>1, <1>2 DEF Inv

LEMMA UnsubscribeInv ==
  ASSUME Inv, NEW s \in Subscribers, unsubscribe(s)
  PROVE  Inv'
<1>1. TypeOK'
  BY DEF Inv, TypeOK, unsubscribe, stopPolling, counters, Update, NoUpdate
<1>2. EntryMeansLoop' /\ LoopsAreDistinct'
  BY DEF Inv, TypeOK, unsubscribe, stopPolling, EntryMeansLoop, LoopsAreDistinct, Loops
<1> QED
  BY <1>1, <1>2 DEF Inv

LEMMA FetchInv ==
  ASSUME Inv, NEW t \in Timers, fetchAppInfo(t)
  PROVE  Inv' /\ Loops' = Loops
<1> DEFINE f == [timer |-> t, id |-> NextId, version |-> None]
<1>1. f \in Fetch /\ f.timer = t
  BY NextIdType DEF Inv, Fetch
<1>2. TypeOK'
  BY <1>1 DEF Inv, TypeOK, fetchAppInfo, ArmedAfter, counters
<1>3. Loops' = Loops
  BY <1>1 DEF fetchAppInfo, ArmedAfter, Loops
<1>4. EntryMeansLoop' /\ LoopsAreDistinct'
  BY <1>1, <1>3 DEF Inv, fetchAppInfo, ArmedAfter, EntryMeansLoop, LoopsAreDistinct
<1> QED
  BY <1>2, <1>3, <1>4 DEF Inv

LEMMA AnswerInv ==
  ASSUME Inv, NEW f \in fetches, succeed(f) \/ fail(f)
  PROVE  Inv' /\ Loops' = Loops /\ fetches' # {}
<1>1. PICK v \in Versions \cup {Failed} : Answer(f, v)
  BY DEF Inv, TypeOK, succeed, fail
<1>2. [f EXCEPT !.version = v] \in Fetch
  BY DEF Inv, TypeOK, Fetch
<1>3. TypeOK'
  BY <1>1, <1>2 DEF Inv, TypeOK, Answer, succeed, fail
<1>4. Loops' = Loops /\ LoopsAreDistinct' /\ fetches' # {}
  BY <1>1, AnswerKeepsLoops DEF Inv
<1>5. EntryMeansLoop'
  BY <1>1, <1>4 DEF Inv, Answer, EntryMeansLoop
<1> QED
  BY <1>3, <1>4, <1>5 DEF Inv

LEMMA PublishInv ==
  ASSUME Inv, NEW f \in fetches, publish(f)
  PROVE  Inv'
<1> DEFINE u == [id |-> f.id, version |-> f.version]
<1>1. u \in Update
  BY DEF Inv, TypeOK, publish, Fetch, Update
<1>2. \A s \in Subscribers :
        Told(seen[s], u) \in [id: Ids \cup {None}, version: Versions \cup {None}]
  BY <1>1, ToldType DEF Inv, TypeOK
<1>3. TypeOK'
  BY <1>1, <1>2, NewTimerIsFresh DEF Inv, TypeOK, publish, setTimeout, counters
<1>4. EntryMeansLoop' /\ LoopsAreDistinct'
  BY NewTimerIsFresh
  DEF Inv, TypeOK, publish, setTimeout, Listened, EntryMeansLoop, LoopsAreDistinct, Loops
<1> QED
  BY <1>3, <1>4 DEF Inv

LEMMA NextInv == Inv /\ [Next]_vars => Inv'
<1> SUFFICES ASSUME Inv, [Next]_vars PROVE Inv'
  OBVIOUS
<1>1. CASE ApplicationChanges
  BY <1>1 DEF Inv, TypeOK, EntryMeansLoop, LoopsAreDistinct, Loops, ApplicationChanges,
              service, counters, Versions
<1>2. CASE UNCHANGED vars
  BY <1>2 DEF Inv, TypeOK, EntryMeansLoop, LoopsAreDistinct, Loops, vars, service, counters
<1> QED
  BY <1>1, <1>2, AddSubscriberInv, UnsubscribeInv, FetchInv, AnswerInv, PublishInv DEF Next

\* Every variable keeps its type.
THEOREM TypeCorrect == Spec => []TypeOK
<1>1. Inv => TypeOK
  BY DEF Inv
<1> QED
  BY InitInv, NextInv, <1>1, PTL DEF Spec

\* Whoever finds an entry in `timeouts` joins a loop that lives, in whatever
\* order connections open and close around the await of fetchAppInfo.
THEOREM JoinedLoopLives == Spec => []EntryMeansLoop
<1>1. Inv => EntryMeansLoop
  BY DEF Inv
<1> QED
  BY InitInv, NextInv, <1>1, PTL DEF Spec

-----------------------------------------------------------------------------
(* How many loops there are.                                               *)

\* When nobody listens and no fetch is under way, what is left are the timers
\* of loops that were started beside another.
Counted ==
    /\ IsFiniteSet(Loops)
    /\ LoopsAreCounted
    /\ timeout = NoTimer /\ fetches = {} => Cardinality(Loops) <= rejoins

LEMMA InitCounted == Init => Counted
<1> SUFFICES ASSUME Init PROVE Counted
  OBVIOUS
<1>1. Loops = {} /\ rejoins = 0
  BY DEF Init, Loops
<1> QED
  BY <1>1, FS_EmptySet DEF Counted, LoopsAreCounted

LEMMA NextCounted == Inv /\ Counted /\ [Next]_vars => Counted'
<1> SUFFICES ASSUME Inv, Counted, [Next]_vars PROVE Counted'
  OBVIOUS
<1>1. /\ IsFiniteSet(Loops) /\ Cardinality(Loops) \in Nat /\ rejoins \in Nat
      /\ Cardinality(Loops) <= 1 + rejoins
  BY FS_CardinalityType DEF Counted, LoopsAreCounted, Inv, TypeOK
<1>2. ASSUME NEW s \in Subscribers, addSubscriber(s) PROVE Counted'
  <2>1. CASE timeout = NoTimer
    <3>1. Loops' = Loops \cup {NewTimer} /\ NewTimer \notin Loops /\ timeout' # NoTimer
      BY <1>2, <2>1, NewTimerIsFresh DEF addSubscriber, setTimeout, Loops
    <3>2. IsFiniteSet(Loops') /\ Cardinality(Loops') = Cardinality(Loops) + 1
      BY <1>1, <3>1, FS_AddElement
    <3>3. \/ rejoins' = rejoins /\ Cardinality(Loops) <= rejoins
          \/ rejoins' = rejoins + 1
      BY <1>2, <2>1 DEF addSubscriber, Counted
    <3> QED
      BY <1>1, <3>1, <3>2, <3>3 DEF Counted, LoopsAreCounted
  <2>2. CASE timeout # NoTimer
    BY <1>2, <2>2 DEF addSubscriber, Counted, LoopsAreCounted, Loops
  <2> QED
    BY <2>1, <2>2
<1>3. ASSUME NEW s \in Subscribers, unsubscribe(s) PROVE Counted'
  <2>1. rejoins' = rejoins /\ fetches' = fetches
    BY <1>3 DEF unsubscribe, counters
  <2>2. CASE timeout \in armed /\ stopPolling
    <3>1. timeout \in Loops /\ Loops' = Loops \ {timeout}
      BY <2>1, <2>2 DEF stopPolling, Loops, Inv, LoopsAreDistinct
    <3>2. IsFiniteSet(Loops') /\ Cardinality(Loops') = Cardinality(Loops) - 1
      BY <1>1, <3>1, FS_RemoveElement
    <3> QED
      BY <1>1, <2>1, <3>2 DEF Counted, LoopsAreCounted
  <2>3. CASE timeout \notin armed /\ timeout # NoTimer /\ stopPolling
    <3>1. Loops' = Loops /\ fetches # {}
      BY <2>1, <2>3 DEF stopPolling, Loops, Inv, EntryMeansLoop
    <3> QED
      BY <2>1, <3>1 DEF Counted, LoopsAreCounted
  <2>4. CASE UNCHANGED <<timeout, armed>>
    BY <2>1, <2>4 DEF Counted, LoopsAreCounted, Loops
  <2> QED
    BY <1>3, <2>2, <2>3, <2>4 DEF unsubscribe
<1>4. ASSUME NEW t \in Timers, fetchAppInfo(t) PROVE Counted'
  <2>1. Loops' = Loops /\ fetches' # {} /\ rejoins' = rejoins
    BY <1>4, FetchInv DEF fetchAppInfo, counters
  <2> QED
    BY <2>1 DEF Counted, LoopsAreCounted
<1>5. ASSUME NEW f \in fetches, succeed(f) \/ fail(f) PROVE Counted'
  <2>1. Loops' = Loops /\ fetches' # {} /\ rejoins' = rejoins
    BY <1>5, AnswerInv DEF succeed, fail, Answer
  <2> QED
    BY <2>1 DEF Counted, LoopsAreCounted
<1>6. ASSUME NEW f \in fetches, publish(f) PROVE Counted'
  <2> DEFINE left == Loops \ {f.timer}
  <2>0. f.timer \in Loops /\ rejoins' = rejoins
    BY <1>6 DEF publish, counters, Loops
  <2>1. IsFiniteSet(left) /\ Cardinality(left) = Cardinality(Loops) - 1
    BY <1>1, <2>0, FS_RemoveElement
  <2>2. left = armed \cup {g.timer : g \in fetches \ {f}}
    BY DEF Loops, Inv, LoopsAreDistinct
  <2>3. CASE Listened
    <3>1. /\ Loops' = left \cup {NewTimer} /\ NewTimer \notin left
          /\ timeout' # NoTimer
      BY <1>6, <2>2, <2>3, NewTimerIsFresh DEF publish, setTimeout, Loops
    <3>2. IsFiniteSet(Loops') /\ Cardinality(Loops') = Cardinality(left) + 1
      BY <2>1, <3>1, FS_AddElement
    <3> QED
      BY <1>1, <2>0, <2>1, <3>1, <3>2 DEF Counted, LoopsAreCounted
  <2>4. CASE ~Listened
    <3>1. Loops' = left
      BY <1>6, <2>2, <2>4 DEF publish, Loops
    <3> QED
      BY <1>1, <2>0, <2>1, <3>1 DEF Counted, LoopsAreCounted
  <2> QED
    BY <2>3, <2>4
<1>7. CASE ApplicationChanges \/ UNCHANGED vars
  BY <1>7 DEF ApplicationChanges, vars, service, counters, Counted, LoopsAreCounted, Loops
<1> QED
  BY <1>2, <1>3, <1>4, <1>5, <1>6, <1>7 DEF Next

\* There is one polling loop, and at most one more for each time somebody
\* joined while a fetch of an earlier audience was under way.
THEOREM LoopsStayCounted == Spec => []LoopsAreCounted
<1>1. Counted => LoopsAreCounted
  BY DEF Counted
<1> QED
  BY InitInv, NextInv, InitCounted, NextCounted, <1>1, PTL DEF Spec

-----------------------------------------------------------------------------
(* The ids of the updates.                                                 *)

\* As long as nobody joined beside a fetch of an earlier audience, the fetch
\* under way follows the last update, and so does what each listener was told.
InStep ==
    /\ listeners # {} => \A f \in fetches : f.id = NextId
    /\ \A s \in listeners : seen[s].id \in {None, lastData.id}

Unheard == \A s \in Subscribers \ listeners : seen[s] = NoUpdate

IdsInv == Unheard /\ (rejoins = 0 => InStep)

LEMMA OneLoop ==
  ASSUME Inv, Counted, rejoins = 0
  PROVE  /\ \A x, y \in Loops : x = y
         /\ \A f, g \in fetches : f = g
<1>1. \A x, y \in Loops : x = y
  <2> SUFFICES ASSUME NEW x \in Loops, NEW y \in Loops, y # x PROVE FALSE
    OBVIOUS
  <2>1. IsFiniteSet(Loops) /\ Cardinality(Loops) \in Nat /\ Cardinality(Loops) <= 1
    BY FS_CardinalityType DEF Counted, LoopsAreCounted
  <2>2. /\ IsFiniteSet(Loops \ {x})
        /\ Cardinality(Loops \ {x}) = Cardinality(Loops) - 1
        /\ Cardinality(Loops \ {x}) \in Nat
    BY <2>1, FS_RemoveElement, FS_CardinalityType
  <2>3. Loops \ {x} = {}
    BY <2>1, <2>2, FS_EmptySet
  <2> QED
    BY <2>3
<1> QED
  BY <1>1 DEF Loops, Inv, LoopsAreDistinct

LEMMA InitIds == Init => IdsInv
  BY DEF Init, IdsInv, InStep, Unheard

LEMMA NextIds == Inv /\ Counted /\ IdsInv /\ [Next]_vars => IdsInv'
<1> SUFFICES ASSUME Inv, Counted, IdsInv, [Next]_vars PROVE IdsInv'
  OBVIOUS
<1> USE DEF NextId
<1>1. ASSUME NEW s \in Subscribers, addSubscriber(s) PROVE IdsInv'
  <2>1. CASE timeout = NoTimer
    <3>1. listeners = {} /\ (rejoins' = 0 => fetches' = {})
      BY <1>1, <2>1 DEF addSubscriber, Inv, TypeOK, EntryMeansLoop
    <3> QED
      BY <1>1, <2>1, <3>1 DEF addSubscriber, IdsInv, InStep, Unheard, NoUpdate
  <2>2. CASE timeout # NoTimer
    <3>1. Told(NoUpdate, lastData).id = lastData.id
      BY DEF Told
    <3>2. listeners # {}
      BY <2>2 DEF Inv, EntryMeansLoop
    <3>3. /\ listeners' = listeners \cup {s} /\ lastData' = lastData
          /\ fetches' = fetches /\ rejoins' = rejoins
          /\ seen' = [seen EXCEPT ![s] = Told(NoUpdate, lastData)]
          /\ seen \in [Subscribers -> [id: Ids \cup {None}, version: Versions \cup {None}]]
      BY <1>1, <2>2 DEF addSubscriber, Inv, TypeOK
    <3>4. /\ \A x \in listeners' : x = s \/ x \in listeners
          /\ seen'[s].id = lastData.id
          /\ \A x \in Subscribers : x # s => seen'[x] = seen[x]
      BY <3>1, <3>3
    <3>5. Unheard'
      BY <3>3, <3>4 DEF IdsInv, Unheard
    <3>6. rejoins' = 0 => InStep'
      BY <3>2, <3>3, <3>4 DEF IdsInv, InStep, Inv, TypeOK
    <3> QED
      BY <3>5, <3>6 DEF IdsInv
  <2> QED
    BY <2>1, <2>2
<1>2. ASSUME NEW s \in Subscribers, unsubscribe(s) PROVE IdsInv'
  <2>1. /\ listeners' = listeners \ {s} /\ fetches' = fetches /\ rejoins' = rejoins
        /\ seen' = [seen EXCEPT ![s] = NoUpdate]
        /\ listeners' # {} => lastData' = lastData
    BY <1>2 DEF unsubscribe, counters
  <2>2. \A x \in Subscribers : x # s => seen'[x] = seen[x]
    BY <2>1 DEF Inv, TypeOK
  <2>3. Unheard'
    BY <2>1, <2>2 DEF IdsInv, Unheard, Inv, TypeOK
  <2>4. rejoins' = 0 => InStep'
    BY <2>1, <2>2 DEF IdsInv, InStep, Inv, TypeOK
  <2> QED
    BY <2>3, <2>4 DEF IdsInv
<1>3. ASSUME NEW t \in Timers, fetchAppInfo(t) PROVE IdsInv'
  BY <1>3 DEF fetchAppInfo, counters, IdsInv, InStep, Unheard
<1>4. ASSUME NEW f \in fetches, succeed(f) \/ fail(f) PROVE IdsInv'
  <2>1. PICK v : Answer(f, v)
    BY <1>4 DEF succeed, fail
  <2>2. [f EXCEPT !.version = v].id = f.id
    BY DEF Inv, TypeOK, Fetch
  <2> QED
    BY <2>1, <2>2 DEF Answer, IdsInv, InStep, Unheard
<1>5. ASSUME NEW f \in fetches, publish(f) PROVE IdsInv'
  <2> DEFINE u == [id |-> f.id, version |-> f.version]
  <2>1. \A b : Told(b, u).id = f.id
    BY DEF Told
  <2>2. rejoins = 0 => fetches' = {}
    BY <1>5, OneLoop DEF publish
  <2>3. listeners' = listeners /\ listeners \subseteq Subscribers /\ rejoins' = rejoins
    BY <1>5 DEF publish, Inv, TypeOK, counters
  <2>4. CASE Listened
    <3>1. /\ lastData' = u /\ lastData'.id = f.id
          /\ seen' = [s \in Subscribers |->
                        IF s \in listeners THEN Told(seen[s], u) ELSE seen[s]]
      BY <1>5, <2>4 DEF publish
    <3>2. /\ \A s \in listeners : seen'[s].id = f.id
          /\ \A s \in Subscribers \ listeners : seen'[s] = seen[s]
      BY <2>1, <2>3, <3>1
    <3> QED
      BY <2>2, <2>3, <3>1, <3>2 DEF IdsInv, InStep, Unheard
  <2>5. CASE ~Listened
    BY <1>5, <2>3, <2>5 DEF publish, Listened, IdsInv, InStep, Unheard
  <2> QED
    BY <2>4, <2>5
<1>6. CASE ApplicationChanges \/ UNCHANGED vars
  BY <1>6 DEF ApplicationChanges, vars, service, counters, IdsInv, InStep, Unheard
<1> QED
  BY <1>1, <1>2, <1>3, <1>4, <1>5, <1>6 DEF Next

\* As long as nobody joined beside a fetch of an earlier audience, each
\* subscriber is told ids that count up one by one.
THEOREM UpdatesFollow == Spec => IdsFollow
<1> DEFINE Follow ==
      rejoins' = 0 =>
         \A s \in listeners \cap listeners' :
            seen'[s] # seen[s] /\ seen[s].id # None =>
                seen'[s].id = (seen[s].id + 1) % IdModulus
<1>1. Inv /\ IdsInv /\ [Next]_vars => [Follow]_vars
  <2> SUFFICES ASSUME Inv, IdsInv, Next, rejoins' = 0,
                      NEW s \in listeners \cap listeners',
                      seen'[s] # seen[s], seen[s].id # None
               PROVE  seen'[s].id = (seen[s].id + 1) % IdModulus
    OBVIOUS
  <2>0. s \in Subscribers
    BY DEF Inv, TypeOK
  <2>1. PICK f \in fetches : publish(f)
    <3>1. ASSUME NEW x \in Subscribers, addSubscriber(x) \/ unsubscribe(x) PROVE FALSE
      BY <3>1 DEF addSubscriber, unsubscribe, Inv, TypeOK
    <3> QED
      BY <3>1 DEF Next, fetchAppInfo, succeed, fail, Answer, ApplicationChanges
  <2>2. /\ seen'[s] = Told(seen[s], [id |-> f.id, version |-> f.version])
        /\ rejoins = 0 /\ listeners # {}
    BY <2>0, <2>1 DEF publish, counters
  <2>3. seen'[s].id = f.id
    BY <2>2 DEF Told
  <2>4. f.id = NextId /\ seen[s].id = lastData.id
    BY <2>2 DEF IdsInv, InStep
  <2> QED
    BY <2>3, <2>4 DEF NextId, NoUpdate
<1> QED
  BY InitInv, NextInv, InitCounted, NextCounted, InitIds, NextIds, <1>1, PTL
  DEF Spec, IdsFollow

-----------------------------------------------------------------------------
(* The views: every version on its way is at least what is shown.          *)

ViewType ==
    /\ mounted \subseteq Subscribers
    /\ data \in [Subscribers -> Versions \cup {None, Failed}]
    /\ wire \in [Subscribers -> Seq(Update)]

\* View s neither shows nor is about to show anything later than version v.
Behind(s, v) == /\ data[s] <= v
                /\ \A k \in 1..Len(wire[s]) : wire[s][k].version <= v
Reached(v)   == \A s \in Subscribers : Behind(s, v)

\* What Humanitec has, what a fetch brings and what the service keeps is at
\* least what the views have reached.
PipeInOrder ==
    /\ Reached(upstream)
    /\ \A f \in fetches : f.version \in Versions =>
          /\ f.version <= upstream /\ lastData.version <= f.version
          /\ Reached(f.version)
    /\ lastData.version \in Versions =>
          lastData.version <= upstream /\ Reached(lastData.version)

\* The events on their way to a view are in the order of the versions.
WireInOrder(s) ==
    \A k \in 1..Len(wire[s]) : wire[s][k].version # Failed =>
        /\ data[s] <= wire[s][k].version
        /\ \A j \in 1..k : wire[s][j].version <= wire[s][k].version

ViewsInOrder == PipeInOrder /\ \A s \in Subscribers : WireInOrder(s)

ViewInv == ViewType /\ (rejoins = 0 => ViewsInOrder)

\* Each step of the views is one of the service, or none.
LEMMA ViewsUseService == [ViewNext]_allVars => [Next]_vars
<1> SUFFICES ASSUME [ViewNext]_allVars PROVE [Next]_vars
  OBVIOUS
<1>1. CASE UNCHANGED allVars
  BY <1>1 DEF allVars
<1>2. CASE serviceStep \/ \E f \in fetches : publishToViews(f)
  BY <1>2 DEF serviceStep, publishToViews, Next
<1>3. ASSUME NEW s \in Views,
             effect(s) \/ createEventSource(s) \/ cleanup(s) \/ receive(s)
      PROVE  UNCHANGED vars
  BY <1>3 DEF effect, createEventSource, cleanup, receive
<1>4. ASSUME NEW s \in Views, connect(s) \/ closeRequest(s) \/ loseConnection(s)
      PROVE  Next
  BY <1>4, ViewsAssumption DEF connect, closeRequest, loseConnection, Next
<1> QED
  BY <1>1, <1>2, <1>3, <1>4 DEF ViewNext

LEMMA RejoinsGrow == TypeOK /\ [Next]_vars => (rejoins' = 0 => rejoins = 0)
<1> SUFFICES ASSUME TypeOK, [Next]_vars, rejoins' = 0 PROVE rejoins = 0
  OBVIOUS
<1>0. rejoins \in Nat
  BY DEF TypeOK
<1>1. ASSUME NEW s \in Subscribers, addSubscriber(s) \/ unsubscribe(s) PROVE rejoins = 0
  BY <1>0, <1>1 DEF addSubscriber, unsubscribe, counters
<1>2. ASSUME NEW t \in Timers, fetchAppInfo(t) PROVE rejoins = 0
  BY <1>2 DEF fetchAppInfo, counters
<1>3. ASSUME NEW f \in fetches, succeed(f) \/ fail(f) \/ publish(f) PROVE rejoins = 0
  BY <1>3 DEF succeed, fail, Answer, publish, counters
<1> QED
  BY <1>1, <1>2, <1>3 DEF Next, ApplicationChanges, vars, counters

\* The versions are numbers.
LEMMA VersionTypes ==
  ASSUME TypeOK, ViewType
  PROVE  /\ Versions \subseteq Nat /\ upstream \in Versions
         /\ lastData.version \in Int /\ (lastData.version \notin Versions => lastData.version < 0)
         /\ \A u \in Update : u.version \in Versions \cup {None, Failed}
         /\ \A s \in Subscribers : data[s] \in Int /\ wire[s] \in Seq(Update)
         /\ \A s \in Subscribers : \A k \in 1..Len(wire[s]) : wire[s][k] \in Update
<1>1. Versions \subseteq Nat /\ upstream \in Versions /\ None = -1 /\ Failed = -2
  BY DEF TypeOK, Versions, None, Failed
<1>2. \A u \in Update : u.version \in Versions \cup {None, Failed}
  BY DEF Update, NoUpdate
<1>3. lastData.version \in Versions \cup {None, Failed}
  BY <1>2 DEF TypeOK
<1>4. \A x \in Versions \cup {None, Failed} : x \in Int /\ (x \notin Versions => x < 0)
  BY <1>1
<1>5. \A s \in Subscribers :
        data[s] \in Versions \cup {None, Failed} /\ wire[s] \in Seq(Update)
  BY DEF ViewType
<1>6. \A s \in Subscribers : \A k \in 1..Len(wire[s]) : wire[s][k] \in Update
  BY <1>5
<1> QED
  BY <1>1, <1>2, <1>3, <1>4, <1>5, <1>6

\* An event that is written stays behind, and in order, when it is not older
\* than what the view has reached.
LEMMA WriteInOrder ==
  ASSUME TypeOK, ViewType, NEW s \in Subscribers, NEW u \in Update,
         wire'[s] = Write(wire[s], u), data'[s] = data[s]
  PROVE  /\ WireInOrder(s) /\ (u.version = Failed \/ Behind(s, u.version))
               => WireInOrder(s)'
         /\ \A v \in Versions : Behind(s, v) /\ u.version <= v => Behind(s, v)'
<1> DEFINE w == wire[s]
<1>1. /\ w \in Seq(Update) /\ wire'[s] = Append(w, u)
      /\ Len(wire'[s]) = Len(w) + 1 /\ Len(w) \in Nat
      /\ \A k \in 1..Len(w) : wire'[s][k] = w[k]
      /\ wire'[s][Len(w) + 1] = u
  BY DEF ViewType, Write
<1>2. /\ \A k \in 1..Len(w) : w[k].version \in Int
      /\ u.version \in Int
  BY VersionTypes DEF Versions, None, Failed
<1>3. \A k \in 1..(Len(w) + 1) : k \in 1..Len(w) \/ k = Len(w) + 1
  BY <1>1
<1>4. ASSUME WireInOrder(s), u.version = Failed \/ Behind(s, u.version)
      PROVE  WireInOrder(s)'
  BY <1>1, <1>2, <1>3, <1>4 DEF WireInOrder, Behind
<1>5. ASSUME NEW v \in Versions, Behind(s, v), u.version <= v
      PROVE  Behind(s, v)'
  BY <1>1, <1>3, <1>5 DEF Behind
<1> QED
  BY <1>4, <1>5

LEMMA EmptyInOrder ==
  ASSUME TypeOK, ViewType, NEW s \in Subscribers, wire'[s] = <<>>
  PROVE  /\ WireInOrder(s)'
         /\ \A v \in Versions : data'[s] <= v => Behind(s, v)'
  BY DEF WireInOrder, Behind

\* A view takes up the first event on its way to it.
LEMMA ReceiveInOrder ==
  ASSUME TypeOK, ViewType, NEW s \in Subscribers, wire[s] # <<>>,
         data'[s] = Head(wire[s]).version, wire'[s] = Tail(wire[s]) \/ wire'[s] = <<>>,
         WireInOrder(s)
  PROVE  /\ data'[s] # Failed => WireInOrder(s)' /\ data[s] <= data'[s]
         /\ \A v \in Versions : Behind(s, v) => Behind(s, v)'
<1> DEFINE w == wire[s]
<1>0. w \in Seq(Update) /\ w # <<>>
  BY DEF ViewType
<1>1. w \in Seq(Update) /\ Len(w) \in Nat /\ Len(w) > 0 /\ data'[s] = w[1].version
  BY <1>0
<1>2. \A k \in 1..Len(w) : w[k].version \in Int
  BY VersionTypes DEF Versions, None, Failed
<1>3. /\ Len(wire'[s]) \in Nat /\ Len(wire'[s]) <= Len(w) - 1
      /\ \A k \in 1..Len(wire'[s]) : wire'[s][k] = w[k + 1]
  <2>1. CASE wire'[s] = Tail(w)
    BY <1>0, <2>1
  <2>2. CASE wire'[s] = <<>>
    BY <1>1, <2>2
  <2> QED
    BY <2>1, <2>2
<1>4. \A k \in 1..Len(wire'[s]) : k + 1 \in 1..Len(w) /\ wire'[s][k] = w[k + 1]
  <2> SUFFICES ASSUME NEW k \in 1..Len(wire'[s]) PROVE k + 1 \in 1..Len(w)
    BY <1>3
  <2>1. k \in Nat /\ 1 <= k /\ k <= Len(wire'[s])
    BY <1>3
  <2> QED
    BY <1>1, <1>3, <2>1
<1> HIDE DEF w
<1>5. ASSUME NEW v \in Versions, Behind(s, v) PROVE Behind(s, v)'
  <2>1. \A k \in 1..Len(w) : w[k].version <= v
    BY <1>5 DEF Behind, w
  <2>2. data'[s] <= v
    BY <1>1, <2>1
  <2>3. \A k \in 1..Len(wire'[s]) : wire'[s][k].version <= v
    BY <1>4, <2>1
  <2> QED
    BY <2>2, <2>3 DEF Behind
<1>6. ASSUME data'[s] # Failed PROVE WireInOrder(s)' /\ data[s] <= data'[s]
  <2>1. \A k \in 1..Len(w) : w[k].version # Failed =>
          /\ data[s] <= w[k].version
          /\ \A j \in 1..k : w[j].version <= w[k].version
    BY DEF WireInOrder, w
  <2>2. data[s] <= data'[s]
    BY <1>1, <1>6, <2>1
  <2>3. ASSUME NEW k \in 1..Len(wire'[s]), wire'[s][k].version # Failed
        PROVE  /\ data'[s] <= wire'[s][k].version
               /\ \A j \in 1..k : wire'[s][j].version <= wire'[s][k].version
    <3>1. \A j \in 1..(k + 1) : w[j].version <= w[k + 1].version
      BY <1>4, <2>1, <2>3
    <3>2. k \in Nat /\ \A j \in 1..k : j \in 1..Len(wire'[s]) /\ j + 1 \in 1..(k + 1)
      BY <1>3
    <3>3. wire'[s][k] = w[k + 1] /\ \A j \in 1..k : wire'[s][j] = w[j + 1]
      BY <1>4, <3>2
    <3>4. data'[s] <= wire'[s][k].version
      BY <1>1, <3>1, <3>2, <3>3
    <3>5. \A j \in 1..k : wire'[s][j].version <= wire'[s][k].version
      BY <3>1, <3>2, <3>3
    <3> QED
      BY <3>4, <3>5
  <2> QED
    BY <2>2, <2>3 DEF WireInOrder
<1> QED
  BY <1>5, <1>6

\* What a step of the views needs to keep the pipe in order.
LEMMA PipeKept ==
  ASSUME TypeOK, ViewType, PipeInOrder,
         fetches' = fetches, upstream' = upstream, lastData' \in {lastData, NoUpdate},
         \A v \in Versions : lastData.version <= v /\ Reached(v) => Reached(v)'
  PROVE  PipeInOrder'
<1>1. /\ upstream \in Versions /\ Versions \subseteq Nat /\ lastData.version \in Int
      /\ lastData.version \notin Versions => lastData.version < 0
  BY VersionTypes
<1>2. NoUpdate.version = -1 /\ NoUpdate.version \notin Versions
  BY <1>1 DEF NoUpdate, None
<1>3. lastData.version <= upstream
  BY <1>1 DEF PipeInOrder
<1>4. Reached(upstream)'
  <2>1. Reached(upstream)
    BY DEF PipeInOrder
  <2>2. PICK v \in Versions : v = upstream
    BY <1>1
  <2>3. Reached(v)'
    BY <1>3, <2>1, <2>2
  <2> QED
    BY <2>2, <2>3 DEF Reached, Behind
<1>5. ASSUME NEW f \in fetches, f.version \in Versions
      PROVE  /\ f.version <= upstream /\ lastData'.version <= f.version
             /\ Reached(f.version)'
  <2>1. f.version <= upstream /\ lastData.version <= f.version /\ Reached(f.version)
    BY <1>5 DEF PipeInOrder
  <2>2. lastData'.version <= f.version
    <3>1. f.version \in Nat
      BY <1>1, <1>5
    <3>2. CASE lastData' = NoUpdate
      BY <1>2, <3>1, <3>2
    <3>3. CASE lastData' = lastData
      BY <2>1, <3>3
    <3> QED
      BY <3>2, <3>3
  <2> QED
    BY <1>5, <2>1, <2>2
<1>6. ASSUME lastData'.version \in Versions
      PROVE  lastData'.version <= upstream /\ Reached(lastData.version)' /\ lastData' = lastData
  <2>1. lastData' = lastData
    BY <1>2, <1>6
  <2>2. lastData.version <= upstream /\ Reached(lastData.version)
    BY <1>6, <2>1 DEF PipeInOrder
  <2>3. PICK v \in Versions : v = lastData.version
    BY <1>6, <2>1
  <2>4. Reached(v)'
    BY <1>1, <2>2, <2>3
  <2> QED
    BY <2>1, <2>2, <2>3, <2>4 DEF Reached, Behind
<1> QED
  BY <1>4, <1>5, <1>6 DEF PipeInOrder

\* A step of one view leaves the others where they are.
LEMMA OtherViews ==
  ASSUME NEW s \in Subscribers,
         \A x \in Subscribers \ {s} : wire'[x] = wire[x] /\ data'[x] = data[x]
  PROVE  /\ \A x \in Subscribers \ {s} : WireInOrder(x) => WireInOrder(x)'
         /\ \A v \in Versions : Reached(v) /\ (Behind(s, v) => Behind(s, v)') => Reached(v)'
  BY DEF WireInOrder, Reached, Behind

LEMMA InitView == ViewInit => ViewInv
<1> SUFFICES ASSUME ViewInit PROVE ViewInv
  OBVIOUS
<1>1. ViewType
  BY DEF ViewInit, ViewType
<1>2. PipeInOrder
  BY DEF ViewInit, Init, PipeInOrder, Reached, Behind, NoUpdate, None, Versions
<1>3. \A s \in Subscribers : WireInOrder(s)
  BY DEF ViewInit, WireInOrder
<1> QED
  BY <1>1, <1>2, <1>3 DEF ViewInv, ViewsInOrder

\* The steps of a view that leave the service alone, or unsubscribe it.
LEMMA OwnSteps ==
  ASSUME Inv, ViewInv, NEW s \in Subscribers,
         \/ effect(s) \/ createEventSource(s) \/ cleanup(s)
         \/ closeRequest(s) \/ loseConnection(s)
  PROVE  ViewInv'
<1>1. /\ fetches' = fetches /\ upstream' = upstream /\ lastData' \in {lastData, NoUpdate}
      /\ rejoins' = rejoins
  BY DEF effect, createEventSource, cleanup, closeRequest, loseConnection, vars, service,
         counters, unsubscribe, stopPolling
<1>2. /\ mounted' \subseteq Subscribers
      /\ data' = data \/ data' = [data EXCEPT ![s] = None] \/ data' = [data EXCEPT ![s] = Failed]
      /\ wire' = wire \/ wire' = [wire EXCEPT ![s] = <<>>]
  BY DEF effect, createEventSource, cleanup, closeRequest, loseConnection, CloseSource,
         ViewInv, ViewType, views
<1>3. ViewType'
  <2>1. data' \in [Subscribers -> Versions \cup {None, Failed}]
    BY <1>2 DEF ViewInv, ViewType
  <2>2. wire' \in [Subscribers -> Seq(Update)]
    <3>1. <<>> \in Seq(Update)
      OBVIOUS
    <3> QED
      BY <1>2, <3>1 DEF ViewInv, ViewType
  <2> QED
    BY <1>2, <2>1, <2>2 DEF ViewType
<1>4. /\ \A x \in Subscribers \ {s} : wire'[x] = wire[x] /\ data'[x] = data[x]
      /\ wire'[s] = wire[s] \/ wire'[s] = <<>>
      /\ data'[s] = data[s] \/ data'[s] = None \/ data'[s] = Failed
  BY <1>2 DEF ViewInv, ViewType
<1>5. \A v \in Versions : Behind(s, v) => Behind(s, v)'
  BY <1>4 DEF Behind, Versions, None, Failed
<1>6. WireInOrder(s) => WireInOrder(s)'
  <2>1. \A k \in 1..Len(wire[s]) :
          wire[s][k].version # Failed => wire[s][k].version \in Int /\ wire[s][k].version >= -1
    BY VersionTypes DEF Inv, ViewInv, Versions, None
  <2> QED
    BY <1>4, <2>1 DEF WireInOrder, None, Failed
<1>7. ASSUME ViewsInOrder PROVE ViewsInOrder'
  <2>1. /\ \A x \in Subscribers : WireInOrder(x)'
        /\ \A v \in Versions : Reached(v) => Reached(v)'
    BY <1>4, <1>5, <1>6, <1>7, OtherViews DEF ViewsInOrder
  <2>2. PipeInOrder'
    BY <1>1, <1>7, <2>1, PipeKept DEF Inv, ViewInv, ViewsInOrder
  <2> QED
    BY <2>1, <2>2 DEF ViewsInOrder
<1> QED
  BY <1>1, <1>3, <1>7 DEF ViewInv

LEMMA ReceiveView ==
  ASSUME Inv, ViewInv, NEW s \in Subscribers, receive(s)
  PROVE  /\ ViewInv'
         /\ rejoins' = 0 /\ data'[s] # Failed => data[s] <= data'[s]
<1>1. /\ UNCHANGED <<fetches, upstream, lastData, rejoins, mounted>>
      /\ wire[s] # <<>> /\ wire[s] \in Seq(Update)
      /\ data' = [data EXCEPT ![s] = Head(wire[s]).version]
      /\ wire' = [wire EXCEPT ![s] = <<>>] \/ wire' = [wire EXCEPT ![s] = Tail(wire[s])]
  BY DEF receive, CloseSource, vars, service, counters, ViewInv, ViewType
<1>2. Head(wire[s]) \in Update /\ Tail(wire[s]) \in Seq(Update)
  BY <1>1
<1>3. ViewType'
  <2>1. Head(wire[s]).version \in Versions \cup {None, Failed}
    BY <1>2, VersionTypes DEF Inv, ViewInv
  <2>2. data' \in [Subscribers -> Versions \cup {None, Failed}]
    BY <1>1, <2>1 DEF ViewInv, ViewType
  <2>3. wire' \in [Subscribers -> Seq(Update)]
    <3>1. <<>> \in Seq(Update)
      OBVIOUS
    <3> QED
      BY <1>1, <1>2, <3>1 DEF ViewInv, ViewType
  <2> QED
    BY <1>1, <2>2, <2>3 DEF ViewInv, ViewType
<1>4. /\ \A x \in Subscribers \ {s} : wire'[x] = wire[x] /\ data'[x] = data[x]
      /\ wire'[s] = Tail(wire[s]) \/ wire'[s] = <<>>
      /\ data'[s] = Head(wire[s]).version
  BY <1>1 DEF ViewInv, ViewType
<1>5. ASSUME ViewsInOrder
      PROVE  ViewsInOrder' /\ (data'[s] # Failed => data[s] <= data'[s])
  <2>0. WireInOrder(s)
    BY <1>5 DEF ViewsInOrder
  <2>1. /\ data'[s] # Failed => WireInOrder(s)' /\ data[s] <= data'[s]
        /\ \A v \in Versions : Behind(s, v) => Behind(s, v)'
    BY <1>1, <1>4, <2>0, ReceiveInOrder DEF Inv, ViewInv
  <2>2. data'[s] = Failed => WireInOrder(s)'
    <3>1. ASSUME data'[s] = Failed PROVE wire'[s] = <<>>
      <4>1. CloseSource(s)
        BY <1>4, <3>1 DEF receive
      <4> QED
        BY <4>1 DEF CloseSource, ViewInv, ViewType
    <3> QED
      BY <3>1 DEF WireInOrder
  <2>3. PipeInOrder'
    BY <1>1, <1>4, <1>5, <2>1, OtherViews, PipeKept DEF Inv, ViewInv, ViewsInOrder
  <2> QED
    BY <1>4, <1>5, <2>1, <2>2, <2>3, OtherViews DEF ViewsInOrder
<1> QED
  BY <1>1, <1>3, <1>5 DEF ViewInv

LEMMA ConnectView ==
  ASSUME Inv, ViewInv, NEW s \in Subscribers, connect(s), rejoins' = 0 => rejoins = 0
  PROVE  ViewInv'
<1>1. /\ UNCHANGED <<fetches, upstream, lastData, mounted, data>>
      /\ \/ wire' = wire
         \/ lastData # NoUpdate /\ wire' = [wire EXCEPT ![s] = Write(wire[s], lastData)]
  BY DEF connect, addSubscriber
<1>2. lastData \in Update /\ wire[s] \in Seq(Update)
  BY DEF Inv, TypeOK, ViewInv, ViewType
<1>3. ViewType'
  <2>1. Write(wire[s], lastData) \in Seq(Update)
    BY <1>2 DEF Write
  <2> QED
    BY <1>1, <2>1 DEF ViewInv, ViewType
<1>4. CASE wire' = wire
  BY <1>1, <1>3, <1>4 DEF ViewInv, ViewsInOrder, PipeInOrder, WireInOrder, Reached, Behind
<1>5. ASSUME lastData # NoUpdate, wire' = [wire EXCEPT ![s] = Write(wire[s], lastData)],
             ViewsInOrder
      PROVE  ViewsInOrder'
  <2>1. /\ \A x \in Subscribers \ {s} : wire'[x] = wire[x] /\ data'[x] = data[x]
        /\ wire'[s] = Write(wire[s], lastData) /\ data'[s] = data[s]
    BY <1>1, <1>5 DEF ViewInv, ViewType
  <2>2. lastData.version \in Versions \/ lastData.version = Failed
    BY <1>2, <1>5 DEF Update, NoUpdate
  <2>3. lastData.version = Failed \/ Behind(s, lastData.version)
    BY <1>5, <2>2 DEF ViewsInOrder, PipeInOrder, Reached
  <2>4. /\ WireInOrder(s)'
        /\ \A v \in Versions : Behind(s, v) /\ lastData.version <= v => Behind(s, v)'
    BY <1>2, <1>5, <2>1, <2>3, WriteInOrder DEF Inv, ViewInv, ViewsInOrder
  <2>5. PipeInOrder'
    BY <1>1, <1>5, <2>1, <2>4, OtherViews, PipeKept DEF Inv, ViewInv, ViewsInOrder
  <2> QED
    BY <1>5, <2>1, <2>4, <2>5, OtherViews DEF ViewsInOrder
<1> QED
  BY <1>1, <1>3, <1>4, <1>5 DEF ViewInv

LEMMA PublishView ==
  ASSUME Inv, Counted, ViewInv, NEW f \in fetches, publishToViews(f)
  PROVE  ViewInv'
<1> DEFINE u == [id |-> f.id, version |-> f.version]
<1>1. /\ UNCHANGED <<upstream, mounted, data, rejoins>>
      /\ wire' = [s \in Subscribers |->
                    IF s \in listeners /\ source[s] = "open"
                    THEN Write(wire[s], u) ELSE wire[s]]
      /\ \/ lastData' = u
         \/ lastData' = lastData /\ listeners = {}
      /\ fetches' = fetches \ {f} /\ f.version # None
  BY DEF publishToViews, publish, Listened, counters
<1>2. u \in Update /\ (f.version \in Versions \/ f.version = Failed) /\ u.version = f.version
  BY <1>1 DEF Inv, TypeOK, Fetch, Update
<1>3. \A s \in Subscribers : /\ wire'[s] = wire[s] \/ wire'[s] = Write(wire[s], u)
                             /\ data'[s] = data[s]
  BY <1>1
<1>4. ViewType'
  <2>1. \A s \in Subscribers : Write(wire[s], u) \in Seq(Update) /\ wire[s] \in Seq(Update)
    BY <1>2 DEF Write, ViewInv, ViewType
  <2> QED
    BY <1>1, <2>1 DEF ViewInv, ViewType
<1> HIDE DEF u
<1>5. ASSUME ViewsInOrder, rejoins = 0 PROVE ViewsInOrder'
  <2>1. fetches' = {}
    BY <1>1, <1>5, OneLoop DEF Inv
  <2>2. f.version = Failed \/ (f.version <= upstream /\ Reached(f.version))
    <3>1. CASE f.version \in Versions
      BY <1>5, <3>1 DEF ViewsInOrder, PipeInOrder
    <3> QED
      BY <1>2, <3>1
  <2>3. ASSUME NEW s \in Subscribers
        PROVE  /\ WireInOrder(s)'
               /\ \A v \in Versions : Behind(s, v) /\ u.version <= v => Behind(s, v)'
    <3>1. CASE wire'[s] = wire[s]
      BY <1>3, <1>5, <3>1 DEF ViewsInOrder, WireInOrder, Behind
    <3>2. CASE wire'[s] = Write(wire[s], u)
      <4>1. u.version = Failed \/ Behind(s, u.version)
        BY <1>2, <2>2 DEF Reached
      <4> QED
        BY <1>2, <1>3, <1>5, <3>2, <4>1, WriteInOrder DEF Inv, ViewInv, ViewsInOrder
    <3> QED
      BY <1>3, <3>1, <3>2
  <2>4. \A v \in Versions : Reached(v) /\ u.version <= v => Reached(v)'
    BY <2>3 DEF Reached
  <2>5. Reached(upstream)'
    <3>1. PICK v \in Versions : v = upstream
      BY DEF Inv, TypeOK
    <3>2. Reached(v)' 
      <4>1. Reached(v) /\ v \in Nat
        BY <1>5, <3>1 DEF ViewsInOrder, PipeInOrder, Versions
      <4> QED
        BY <1>2, <2>2, <2>4, <3>1, <4>1 DEF Failed
    <3> QED
      BY <1>1, <3>1, <3>2 DEF Reached, Behind
  <2>6. lastData'.version \in Versions =>
          lastData'.version <= upstream /\ Reached(lastData.version)'
    <3>1. CASE lastData' = u
      <4>1. ASSUME u.version \in Versions PROVE Reached(u.version)'
        <5>1. PICK v \in Versions : v = u.version
          BY <4>1
        <5>2. v \in Int /\ Reached(v)
          BY <1>2, <2>2, <5>1 DEF Versions, Failed
        <5>3. Reached(v)'
          BY <2>4, <5>1, <5>2
        <5> QED
          BY <5>1, <5>3, <3>1 DEF Reached, Behind
      <4> QED
        BY <1>2, <2>2, <3>1, <4>1 DEF Reached, Behind, Versions, Failed
    <3>2. CASE lastData' = lastData /\ listeners = {}
      <4>1. wire' = wire
        BY <1>1, <3>2 DEF ViewInv, ViewType
      <4> QED
        BY <1>1, <1>5, <3>2, <4>1 DEF ViewsInOrder, PipeInOrder, Reached, Behind
    <3> QED
      BY <1>1, <3>1, <3>2 DEF u
  <2>7. PipeInOrder'
    BY <1>1, <2>1, <2>5, <2>6 DEF PipeInOrder
  <2> QED
    BY <2>3, <2>7 DEF ViewsInOrder
<1> QED
  BY <1>1, <1>4, <1>5 DEF ViewInv

\* The connections of other pages come and go beside the views.
LEMMA OthersView ==
  ASSUME Inv, ViewInv, rejoins' = 0 => rejoins = 0,
         NEW s \in Subscribers, addSubscriber(s) \/ unsubscribe(s), UNCHANGED views
  PROVE  ViewInv'
<1>1. /\ UNCHANGED <<mounted, data, wire, upstream, fetches>>
      /\ lastData' = lastData \/ lastData' = NoUpdate
  BY DEF addSubscriber, unsubscribe, stopPolling, views
<1>2. ViewType'
  BY <1>1 DEF ViewInv, ViewType
<1>3. ASSUME ViewsInOrder PROVE ViewsInOrder'
  <2>1. \A r \in Subscribers : WireInOrder(r)'
    BY <1>1, <1>3 DEF ViewsInOrder, WireInOrder
  <2>2. \A v : Reached(v)' <=> Reached(v)
    BY <1>1 DEF Reached, Behind
  <2>3. PipeInOrder'
    BY PipeKept, <1>1, <1>3, <2>2 DEF Inv, ViewInv, ViewsInOrder
  <2> QED
    BY <2>1, <2>3 DEF ViewsInOrder
<1> QED
  BY <1>2, <1>3 DEF ViewInv

\* The steps of the service that change no subscription.
OwnStep == /\ \/ \E t \in Timers : fetchAppInfo(t)
              \/ \E f \in fetches : succeed(f) \/ fail(f)
              \/ ApplicationChanges
           /\ UNCHANGED views

LEMMA ServiceView ==
  ASSUME Inv, ViewInv, OwnStep
  PROVE  ViewInv'
<1>1. /\ UNCHANGED <<mounted, data, wire, rejoins, lastData>>
      /\ \A v : Reached(v)' <=> Reached(v)
  <2>1. UNCHANGED <<mounted, data, wire>>
    BY DEF OwnStep, views
  <2>2. UNCHANGED <<rejoins, lastData>>
    BY DEF OwnStep, fetchAppInfo, succeed, fail, Answer, ApplicationChanges,
           service, counters
  <2> QED
    BY <2>1, <2>2 DEF Reached, Behind
<1>2. ViewType'
  BY <1>1 DEF ViewInv, ViewType
<1>3. ASSUME ViewsInOrder PROVE ViewsInOrder'
  <2>0. \A s \in Subscribers : WireInOrder(s)'
    BY <1>1, <1>3 DEF ViewsInOrder, WireInOrder
  <2>1. ASSUME upstream' = upstream,
               \A g \in fetches' : g \in fetches \/ g.version \in {None, Failed, upstream}
        PROVE  PipeInOrder'
    <3>1. lastData.version <= upstream
      BY <1>3, VersionTypes DEF Inv, ViewInv, ViewsInOrder, PipeInOrder
    <3>2. upstream \in Nat /\ None \notin Versions /\ Failed \notin Versions
      BY DEF Inv, TypeOK, Versions, None, Failed
    <3>3. ASSUME NEW g \in fetches', g.version \in Versions
          PROVE  /\ g.version <= upstream /\ lastData.version <= g.version
                 /\ Reached(g.version)
      <4>1. CASE g \in fetches
        BY <1>3, <3>3, <4>1 DEF ViewsInOrder, PipeInOrder
      <4>2. CASE g.version = upstream
        BY <1>3, <3>1, <3>2, <4>2 DEF ViewsInOrder, PipeInOrder
      <4> QED
        BY <2>1, <3>2, <3>3, <4>1, <4>2
    <3>4. /\ \A g \in fetches' : g.version \in Versions =>
                g.version <= upstream /\ lastData.version <= g.version /\ Reached(g.version)'
          /\ Reached(upstream)'
          /\ lastData.version \in Versions =>
                lastData.version <= upstream /\ Reached(lastData.version)'
      BY <1>1, <1>3, <2>1, <3>3 DEF ViewsInOrder, PipeInOrder
    <3> QED
      BY <1>1, <2>1, <3>4 DEF PipeInOrder
  <2>2. ASSUME NEW t \in Timers, fetchAppInfo(t) PROVE PipeInOrder'
    BY <2>1, <2>2 DEF fetchAppInfo
  <2>3. ASSUME NEW f \in fetches, succeed(f) \/ fail(f) PROVE PipeInOrder'
    <3>1. PICK v \in {upstream, Failed} : Answer(f, v)
      BY <2>3 DEF succeed, fail
    <3>2. f \in Fetch
      BY DEF Inv, TypeOK
    <3>3. [f EXCEPT !.version = v].version = v
      BY <3>2 DEF Fetch
    <3> QED
      BY <2>1, <3>1, <3>3 DEF Answer
  <2>4. ASSUME ApplicationChanges PROVE PipeInOrder'
    <3>1. /\ upstream' = upstream + 1 /\ upstream \in Nat /\ fetches' = fetches
      BY <2>4 DEF ApplicationChanges, service, Inv, TypeOK, Versions
    <3>2. Reached(upstream)'
      <4>1. ASSUME NEW s \in Subscribers PROVE Behind(s, upstream + 1)
        <5>1. /\ data[s] \in Int /\ data[s] <= upstream
              /\ \A k \in 1..Len(wire[s]) :
                    wire[s][k].version \in Int /\ wire[s][k].version <= upstream
          BY <1>3, VersionTypes
          DEF Inv, ViewInv, ViewsInOrder, PipeInOrder, Reached, Behind, Versions, None, Failed
        <5> QED
          BY <3>1, <5>1 DEF Behind
      <4> QED
        BY <1>1, <3>1, <4>1 DEF Reached, Behind
    <3>3. ASSUME NEW g \in fetches, g.version \in Versions
          PROVE  /\ g.version <= upstream' /\ lastData.version <= g.version
                 /\ Reached(g.version)'
      <4>1. g.version <= upstream /\ lastData.version <= g.version /\ Reached(g.version)
        BY <1>3, <3>3 DEF ViewsInOrder, PipeInOrder
      <4> QED
        BY <1>1, <3>1, <3>3, <4>1 DEF Versions
    <3>4. ASSUME lastData.version \in Versions
          PROVE  lastData.version <= upstream' /\ Reached(lastData.version)'
      <4>1. lastData.version <= upstream /\ Reached(lastData.version)
        BY <1>3, <3>4 DEF ViewsInOrder, PipeInOrder
      <4> QED
        BY <1>1, <3>1, <3>4, <4>1 DEF Versions
    <3> QED
      BY <1>1, <3>1, <3>2, <3>3, <3>4 DEF PipeInOrder
  <2> QED
    BY <2>0, <2>2, <2>3, <2>4 DEF OwnStep, ViewsInOrder
<1> QED
  BY <1>1, <1>2, <1>3 DEF ViewInv

LEMMA NextView == Inv /\ Counted /\ ViewInv /\ [ViewNext]_allVars => ViewInv'
<1> SUFFICES ASSUME Inv, Counted, ViewInv, [ViewNext]_allVars PROVE ViewInv'
  OBVIOUS
<1>1. rejoins' = 0 => rejoins = 0
  BY ViewsUseService, RejoinsGrow DEF Inv
<1>2. CASE UNCHANGED allVars
  BY <1>2 DEF allVars, vars, service, counters, views, ViewInv, ViewType, ViewsInOrder,
              PipeInOrder, WireInOrder, Reached, Behind
<1>3. ASSUME serviceStep PROVE ViewInv'
  BY <1>1, <1>3, OthersView, ServiceView DEF serviceStep, OwnStep
<1> QED
  BY <1>1, <1>2, <1>3, OwnSteps, ReceiveView, ConnectView, PublishView, ViewsAssumption
  DEF ViewNext

\* The service of useAppInfo's views is the service: what AppInfoService promises
\* to any connection holds for the connections that the views open and lose.
THEOREM ViewsImplementService == ViewSpec => Spec
<1>1. ViewInit => Init
  BY DEF ViewInit
<1> QED
  BY ViewsUseService, <1>1, PTL DEF ViewSpec, Spec

\* As long as nobody joined beside a fetch of an earlier audience, a view that
\* stays on the page never shows an older version of the application than it
\* did, whatever is lost, closed or connected again on the way to it.
THEOREM ViewsGoForward == ViewSpec => ViewNeverGoesBack
<1> DEFINE Forward ==
      rejoins' = 0 =>
         \A s \in mounted \cap mounted' : data'[s] # Failed => data'[s] >= data[s]
<1>1. Inv /\ ViewInv /\ [ViewNext]_allVars => [Forward]_allVars
  <2> SUFFICES ASSUME Inv, ViewInv, ViewNext, rejoins' = 0,
                      NEW s \in mounted \cap mounted', data'[s] # Failed
               PROVE  data'[s] >= data[s]
    OBVIOUS
  <2>0. s \in Subscribers /\ data[s] \in Int /\ data \in [Subscribers -> Versions \cup {None, Failed}]
    BY DEF ViewInv, ViewType, Versions, None, Failed
  <2>1. CASE data'[s] = data[s]
    BY <2>0, <2>1
  <2>2. ASSUME NEW x \in Subscribers, receive(x) PROVE data'[s] >= data[s]
    <3>1. CASE x = s
      BY <2>0, <2>2, <3>1, ReceiveView DEF ViewInv, ViewType, Versions, None, Failed
    <3>2. CASE x # s
      BY <2>0, <2>1, <2>2, <3>2 DEF receive
    <3> QED
      BY <3>1, <3>2
  <2>3. ASSUME NEW x \in Subscribers,
               \/ effect(x) \/ createEventSource(x) \/ cleanup(x)
               \/ connect(x) \/ closeRequest(x) \/ loseConnection(x)
        PROVE  data'[s] = data[s]
    BY <2>0, <2>3 DEF effect, createEventSource, cleanup, connect, closeRequest,
                      loseConnection, views
  <2>4. ASSUME serviceStep \/ \E f \in fetches : publishToViews(f)
        PROVE  data'[s] = data[s]
    BY <2>4 DEF serviceStep, publishToViews, views
  <2> QED
    BY <2>1, <2>2, <2>3, <2>4, ViewsAssumption DEF ViewNext
<1>2. ViewInit => Init
  BY DEF ViewInit
<1> QED
  BY InitInv, NextInv, InitCounted, NextCounted, InitView, NextView, ViewsUseService,
     <1>1, <1>2, PTL DEF ViewSpec, ViewNeverGoesBack
=============================================================================
