-------------------------- MODULE RunWorkflowProofs --------------------------
(* Theorems about RunWorkflow, for any number of tasks, any log and any     *)
(* number of retries.                                                       *)
EXTENDS RunWorkflow, SequenceFacts

USE TasksAssumption, StreamBoundsAssumption, LogAssumption

-----------------------------------------------------------------------------
(* The invariant.  It is said without a connection that is never ended.    *)
(* What it says of the closures it says of those that a step leaves before *)
(* and behind the effects that it runs, hence the parameters: the closures *)
(* hk, the task `eff` whose effect has run, and the one `st` that the      *)
(* stream has the steps of.                                                *)

Fields == {"steps", "stepLogs", "error", "completed", "task"}

\* A task that scaffold has not answered for.
Unanswered(t) == t \in inFlight \/ t \notin executed

Types ==
    /\ taskId \in Tasks \cup {NoTask} /\ effectTask \in Tasks \cup {NoTask}
    /\ mounted \in BOOLEAN
    /\ due \in BOOLEAN /\ fresh \in BOOLEAN
    /\ ~mounted => ~due /\ taskId = NoTask
    /\ backend \in [Tasks -> BackendTask]
    /\ inFlight \subseteq executed
    /\ executed \subseteq Tasks
    /\ \A t \in Tasks : Unanswered(t) => backend[t].status = "none"
    /\ reported \in [Tasks -> 0..2]
    /\ Fields \subseteq DOMAIN stream

\* An array with entries is that of the connection that is open.
ArraysFollow(h) ==
    \A a \in Attempts : h.collected[a] # <<>> =>
        a = h.retryCount /\ a = h.logPusher /\ h.phase = "streaming"

ClosureOK(h) ==
    /\ ArraysFollow(h)
    /\ h.phase = "waiting"   => h.retryCount <= Retries
    /\ h.phase = "streaming" => ~h.didCancel /\ h.logPusher = h.retryCount

\* A chain that is not cancelled.
Live(h) == h.phase \in {"getTask", "streaming", "waiting"} /\ ~h.didCancel

\* Only the chain is not cancelled of the task whose effect has run, and only that
\* of the task in the stream is connected.  An unanswered task has not been shown.
Chained(h, t, eff, st) ==
    /\ ClosureOK(h)
    /\ Live(h) => t = eff
    /\ t = eff => h.phase # "none" /\ ~h.didCancel
    /\ t = taskId /\ t # eff => h.phase = "none"
    /\ Unanswered(t) => h.phase = "none" /\ t # taskId
    /\ h.phase = "streaming" /\ mounted => st = t

Chains(hk, eff, st) ==
    /\ hk \in [Tasks -> Closure]
    /\ \A t \in Tasks : Chained(hk[t], t, eff, st)

\* A task that onComplete was called for has ended well, and so has the one that
\* is shown to.  An effect that is due with callbacks that stay has a new reason.
Reports ==
    /\ \A t \in Tasks : reported[t] > 0 =>
          backend[t].status = "completed" /\ hook[t].phase = "over"
    /\ mounted /\ Succeeded =>
          /\ stream.task \in Tasks
          /\ backend[stream.task].status = "completed"
          /\ hook[stream.task].phase = "over"
    /\ ~fresh /\ due /\ Succeeded => reported[stream.task] = 0
    /\ ~fresh => \A t \in Tasks : reported[t] <= 1

Core == Types /\ Chains(hook, effectTask, stream.task) /\ Reports

Inv == orphans = {} => Core

-----------------------------------------------------------------------------
(* Lemmas about the reducer.                                               *)

LEMMA LogsKeep ==
  ASSUME NEW e
  PROVE  LET st == LOGS(stream, e) IN
         DOMAIN st = DOMAIN stream /\
         (Types => st.task = stream.task /\ st.error = stream.error
                   /\ st.completed = stream.completed)
  BY DEF LOGS, Types, Fields

LEMMA InitSets ==
  ASSUME Types, NEW t
  PROVE  LET st == INIT(stream, t) IN
         /\ DOMAIN st = DOMAIN stream
         /\ st.task = t /\ st.error = NoError /\ st.completed = FALSE
  BY DEF INIT, Types, Fields

LEMMA CancelledKeeps ==
  ASSUME Types
  PROVE  LET c == CANCELLED(stream) IN
         /\ DOMAIN c = DOMAIN stream
         /\ c.task = stream.task /\ c.error = stream.error
         /\ c.completed = stream.completed /\ c.stepLogs = stream.stepLogs
  BY DEF CANCELLED, Types, Fields

LEMMA ErrorIsError ==
  ASSUME NEW t \in Tasks
  PROVE  /\ Error("lost", t) # NoError /\ Error("refused", t) # NoError
         /\ Error("failed", t) # NoError
         /\ Error("refused", t).task = t
  BY DEF Error, NoError

-----------------------------------------------------------------------------
(* Lemmas about the closures.                                              *)

LEMMA NoClosureType ==
  /\ NoClosure \in Closure /\ 1 \in Attempts
  /\ \A a \in Attempts : NoClosure.collected[a] = <<>>
<1>1. Len(Log) \in Nat
  OBVIOUS
<1>2. 1 \in Attempts /\ 0 \in 0..Len(Log)
  BY <1>1 DEF Attempts
<1>3. [a \in Attempts |-> <<>>] \in [Attempts -> Seq(Entries)]
  OBVIOUS
<1> QED
  BY <1>2, <1>3 DEF NoClosure, Closure

\* An effect that begins.
Begun == [NoClosure EXCEPT !.phase = "getTask"]

LEMMA BegunOK ==
  /\ Begun \in Closure /\ ClosureOK(Begun)
  /\ Begun.phase = "getTask" /\ ~Begun.didCancel
<1>1. /\ Begun \in Closure /\ Begun.phase = "getTask"
      /\ Begun.collected = NoClosure.collected
  BY NoClosureType DEF Begun, Closure
<1>2. Begun.didCancel = FALSE
  BY DEF Begun, NoClosure
<1> QED
  BY <1>1, <1>2, NoClosureType DEF ClosureOK, ArraysFollow

LEMMA CleanupOK ==
  ASSUME NEW h \in Closure, ClosureOK(h)
  PROVE  /\ Cleanup(h) \in Closure /\ ClosureOK(Cleanup(h))
         /\ Cleanup(h).didCancel = TRUE
         /\ Cleanup(h).phase = IF h.phase = "streaming" THEN "over" ELSE h.phase
<1> DEFINE left == h.intervals \ {h.logPusher}
           arrays == [a \in Attempts |-> IF a \in left THEN h.collected[a] ELSE <<>>]
           phase == IF h.phase = "streaming" THEN "over" ELSE h.phase
           count == IF h.phase = "getTask" THEN h.retryCount ELSE 1
           c == [NoClosure EXCEPT !.didCancel = TRUE, !.phase = phase, !.retryCount = count,
                                  !.intervals = left, !.collected = arrays]
<1>1. Cleanup(h) = c
  BY DEF Cleanup
<1>2. /\ left \in SUBSET Attempts /\ h.collected \in [Attempts -> Seq(Entries)]
      /\ phase \in {"none", "getTask", "waiting", "over"}
      /\ h.retryCount \in Attempts
  BY DEF Closure
<1>3. count \in Attempts /\ (phase = "waiting" => count <= Retries)
  <2>1. CASE h.phase = "getTask"
    BY <1>2, <2>1
  <2>2. CASE h.phase # "getTask"
    BY <1>2, <2>2, NoClosureType DEF ClosureOK, Attempts
  <2> QED
    BY <2>1, <2>2
<1>4. arrays \in [Attempts -> Seq(Entries)] /\ \A a \in Attempts : arrays[a] = <<>>
  BY <1>2 DEF ClosureOK, ArraysFollow
<1> HIDE DEF left, arrays, phase, count
<1>5. /\ c \in Closure /\ c.phase = phase /\ c.retryCount = count /\ c.collected = arrays
      /\ c.didCancel = TRUE
  BY <1>2, <1>3, <1>4, NoClosureType DEF Closure
<1> HIDE DEF c
<1>6. ClosureOK(c)
  BY <1>2, <1>3, <1>4, <1>5 DEF ClosureOK, ArraysFollow
<1> QED
  BY <1>1, <1>5, <1>6 DEF phase

LEMMA EmittedOK ==
  ASSUME NEW h \in Closure, ClosureOK(h), h.phase = "streaming"
  PROVE  /\ Emitted(h) \in Closure
         /\ \A a \in Attempts : Emitted(h).collected[a] = <<>>
         /\ \A f \in {"phase", "didCancel", "retryCount", "logPusher", "intervals",
                      "delivered"} : Emitted(h)[f] = h[f]
<1>1. h.retryCount \in Attempts /\ h.collected \in [Attempts -> Seq(Entries)]
  BY DEF Closure
<1>2. \A a \in Attempts : a # h.retryCount => h.collected[a] = <<>>
  BY DEF ClosureOK, ArraysFollow
<1>3. [h.collected EXCEPT ![h.retryCount] = <<>>] \in [Attempts -> Seq(Entries)]
  BY <1>1
<1>4. Emitted(h) = [h EXCEPT !.collected = [h.collected EXCEPT ![h.retryCount] = <<>>]]
  BY DEF Emitted
<1> QED
  BY <1>1, <1>2, <1>3, <1>4 DEF Closure

LEMMA NewTaskIsFresh == Tasks \ executed # {} => NewTask \in Tasks /\ NewTask \notin executed
  BY DEF NewTask

\* The effects that run end one chain and begin another.
LEMMA FlushKeeps ==
  ASSUME NEW hk, NEW st, Chains(hk, effectTask, st)
  PROVE  /\ Chains(EffectsRun(hk), taskId, st)
         /\ \A t \in Tasks :
               /\ hk[t].phase = "over" => EffectsRun(hk)[t].phase = "over"
               /\ hk[t].phase # "none" => EffectsRun(hk)[t].phase # "none"
               /\ EffectsRun(hk)[t].phase = "streaming" => EffectsRun(hk)[t] = hk[t]
               /\ taskId = effectTask => EffectsRun(hk)[t] = hk[t]
<1>1. ASSUME NEW t \in Tasks
      PROVE  /\ EffectsRun(hk)[t] \in Closure /\ Chained(EffectsRun(hk)[t], t, taskId, st)
             /\ hk[t].phase = "over" => EffectsRun(hk)[t].phase = "over"
             /\ hk[t].phase # "none" => EffectsRun(hk)[t].phase # "none"
             /\ EffectsRun(hk)[t].phase = "streaming" => EffectsRun(hk)[t] = hk[t]
             /\ taskId = effectTask => EffectsRun(hk)[t] = hk[t]
  <2>1. hk[t] \in Closure /\ Chained(hk[t], t, effectTask, st)
    BY DEF Chains
  <2>2. CASE taskId = effectTask
    <3>1. EffectsRun(hk)[t] = hk[t]
      BY <2>2 DEF EffectsRun
    <3> QED
      BY <2>1, <2>2, <3>1
  <2>3. CASE taskId # effectTask /\ t = effectTask
    <3>1. EffectsRun(hk)[t] = Cleanup(hk[t])
      BY <2>3 DEF EffectsRun
    <3>2. /\ Cleanup(hk[t]) \in Closure /\ ClosureOK(Cleanup(hk[t]))
          /\ Cleanup(hk[t]).didCancel = TRUE
          /\ Cleanup(hk[t]).phase = IF hk[t].phase = "streaming" THEN "over" ELSE hk[t].phase
      BY <2>1, CleanupOK DEF Chained
    <3> QED
      BY <2>1, <2>3, <3>1, <3>2 DEF Chained, Live
  <2>4. CASE taskId # effectTask /\ t = taskId
    <3>1. EffectsRun(hk)[t] = Begun
      BY <2>4 DEF EffectsRun, Begun
    <3> QED
      BY <2>1, <2>4, <3>1, BegunOK DEF Chained, Live
  <2>5. CASE t # effectTask /\ t # taskId
    <3>1. EffectsRun(hk)[t] = hk[t]
      BY <2>5 DEF EffectsRun
    <3> QED
      BY <2>1, <2>5, <3>1 DEF Chained
  <2> QED
    BY <2>2, <2>3, <2>4, <2>5
<1>2. EffectsRun(hk) \in [Tasks -> Closure]
  <2>1. EffectsRun(hk) = [t \in Tasks |-> EffectsRun(hk)[t]]
    BY DEF EffectsRun
  <2> QED
    BY <1>1, <2>1
<1> QED
  BY <1>1, <1>2 DEF Chains

\* A callback of the chain of t.
LEMMA ChainStep ==
  ASSUME NEW t \in Tasks, NEW h \in Closure, NEW st,
         Chains(hook, effectTask, stream.task), ClosureOK(h),
         hook[t].phase \notin {"none", "over"}, h.phase # "none",
         h.didCancel = hook[t].didCancel,
         h.phase = "streaming" /\ mounted => st = t,
         st = stream.task \/ (Live(hook[t]) /\ st = t)
  PROVE  /\ Chains([hook EXCEPT ![t] = h], effectTask, st)
         /\ \A u \in Tasks \ {t} : [hook EXCEPT ![t] = h][u] = hook[u]
         /\ [hook EXCEPT ![t] = h][t] = h
<1> DEFINE hk == [hook EXCEPT ![t] = h]
<1>1. /\ hk \in [Tasks -> Closure] /\ hk[t] = h
      /\ \A u \in Tasks : u # t => hk[u] = hook[u]
  BY DEF Chains
<1> HIDE DEF hk
<1>2. ASSUME NEW u \in Tasks PROVE Chained(hk[u], u, effectTask, st)
  <2>1. Chained(hook[t], t, effectTask, stream.task)
        /\ Chained(hook[u], u, effectTask, stream.task)
    BY DEF Chains
  <2>2. CASE u = t
    <3>1. Live(h) => Live(hook[t])
      BY DEF Chains, Closure, Live
    <3>2. Unanswered(t) => FALSE
      BY <2>1 DEF Chained
    <3> QED
      BY <1>1, <2>1, <2>2, <3>1, <3>2 DEF Chained
  <2>3. CASE u # t
    <3>1. hook[u].phase = "streaming" => u = effectTask
      BY <2>1 DEF Chained, ClosureOK, Live
    <3>2. Live(hook[t]) => t = effectTask
      BY <2>1 DEF Chained
    <3> QED
      BY <1>1, <2>1, <2>3, <3>1, <3>2 DEF Chained
  <2> QED
    BY <2>2, <2>3
<1> QED
  BY <1>1, <1>2 DEF Chains, hk

\* A callback that is connected, or that goes on, is that of the task whose effect
\* has run.
LEMMA Speaker ==
  ASSUME Core, NEW t \in Tasks
  PROVE  /\ hook[t] \in Closure /\ ClosureOK(hook[t]) /\ Types
         /\ Live(hook[t]) => t = effectTask
         /\ hook[t].phase = "streaming" => Live(hook[t])
         /\ hook[t].phase = "streaming" /\ mounted => stream.task = t
  BY DEF Core, Chains, Chained, ClosureOK, Live

-----------------------------------------------------------------------------
(* What a step does to the calls of onComplete.                            *)

\* The effect runs, if it is due, in front of what the step shows.
LEMMA ReportsKeep ==
  ASSUME Core, NEW s, Effect(s), ~fresh /\ due' => DepsChange,
         \A t \in Tasks : hook[t].phase = "over" => hook'[t].phase = "over",
         \A t \in Tasks : backend[t].status = "completed" => backend'[t] = backend[t],
         mounted' => mounted,
         mounted' /\ Succeeded' =>
            \/ Succeeded /\ stream'.task = stream.task /\ ~DepsChange
            \/ /\ stream'.task \in Tasks
               /\ backend'[stream'.task].status = "completed"
               /\ hook'[stream'.task].phase = "over" /\ hook[stream'.task].phase # "over",
         ~mounted' => ~due'
  PROVE  Reports' /\ reported' \in [Tasks -> 0..2]
<1>1. /\ Reports /\ reported \in [Tasks -> 0..2] /\ due \in BOOLEAN /\ (due => mounted)
  BY DEF Core, Types
<1>2. fresh' = fresh
  BY DEF Effect
<1>3. \/ reported' = reported
      \/ /\ due /\ Succeeded
         /\ reported' = [reported EXCEPT ![stream.task] = IF @ = 0 THEN 1 ELSE 2]
  BY DEF Effect
<1>4. CASE reported' = reported
  <2>1. ASSUME NEW t \in Tasks, reported'[t] > 0
        PROVE  backend'[t].status = "completed" /\ hook'[t].phase = "over"
    BY <1>1, <1>4, <2>1 DEF Reports
  <2>2. ASSUME mounted', Succeeded'
        PROVE  /\ stream'.task \in Tasks
               /\ backend'[stream'.task].status = "completed"
               /\ hook'[stream'.task].phase = "over"
    BY <1>1, <2>2 DEF Reports
  <2>3. ASSUME ~fresh, due', Succeeded' PROVE reported'[stream'.task] = 0
    <3>1. stream'.task \in Tasks /\ hook[stream'.task].phase # "over"
      BY <2>3
    <3> QED
      BY <1>1, <1>4, <3>1 DEF Reports
  <2> QED
    BY <1>1, <1>2, <1>4, <2>1, <2>2, <2>3 DEF Reports
<1>5. CASE /\ due /\ Succeeded
           /\ reported' = [reported EXCEPT ![stream.task] = IF @ = 0 THEN 1 ELSE 2]
  <2> DEFINE u == stream.task
  <2>1. /\ u \in Tasks /\ backend[u].status = "completed" /\ hook[u].phase = "over"
        /\ ~fresh => reported[u] = 0
    BY <1>1, <1>5 DEF Reports
  <2>2. /\ reported' \in [Tasks -> 0..2]
        /\ reported'[u] = IF reported[u] = 0 THEN 1 ELSE 2
        /\ \A t \in Tasks \ {u} : reported'[t] = reported[t]
    BY <1>1, <1>5, <2>1
  <2>3. ASSUME NEW t \in Tasks, reported'[t] > 0
        PROVE  backend'[t].status = "completed" /\ hook'[t].phase = "over"
    BY <1>1, <2>1, <2>2, <2>3 DEF Reports
  <2>4. ASSUME mounted', Succeeded'
        PROVE  /\ stream'.task \in Tasks
               /\ backend'[stream'.task].status = "completed"
               /\ hook'[stream'.task].phase = "over"
    BY <1>1, <2>4 DEF Reports
  <2>5. ASSUME ~fresh, due', Succeeded' PROVE reported'[stream'.task] = 0
    <3>1. stream'.task \in Tasks /\ hook[stream'.task].phase # "over"
      BY <2>5
    <3>2. stream'.task # u
      BY <2>1, <3>1
    <3> QED
      BY <1>1, <2>2, <3>1, <3>2 DEF Reports
  <2>6. ASSUME ~fresh, NEW t \in Tasks PROVE reported'[t] <= 1
    BY <1>1, <2>1, <2>2, <2>6 DEF Reports
  <2> QED
    BY <1>2, <2>2, <2>3, <2>4, <2>5, <2>6 DEF Reports
<1> QED
  BY <1>3, <1>4, <1>5

\* Nothing renders, or the component is gone.
LEMMA UnreportedKeep ==
  ASSUME Core, UNCHANGED <<fresh, due, reported>>, mounted' = mounted,
         stream' = stream,
         \A t \in Tasks : hook[t].phase = "over" => hook'[t].phase = "over",
         \A t \in Tasks : backend[t].status = "completed" => backend'[t] = backend[t]
  PROVE  Reports' /\ reported' \in [Tasks -> 0..2]
  BY DEF Core, Types, Reports, Succeeded

-----------------------------------------------------------------------------
(* The callbacks that dispatch.  What a step of theirs says beside the     *)
(* invariant is what OnlyShownTaskSpeaks asks.                             *)

Speaks == stream' # stream =>
            /\ mounted /\ effectTask # NoTask
            /\ stream'.task = effectTask \/ stream'.error.task = effectTask
            /\ effectTask' = taskId

\* What StreamDispatch does beside the action.
Told == IF mounted THEN Render(taskStatus, stream' # stream \/ taskStatus' # taskStatus)
        ELSE UNCHANGED <<fresh, due, taskStatus, reported>>

\* What is shown is of t, and a success only when t is one and its chain over.
Says(t, h, shown) ==
    mounted =>
      /\ shown.task = t \/ (shown.task = stream.task /\ shown.error.task = t)
      /\ h.phase = "streaming" => shown.task = t
      /\ shown.completed /\ shown.error = NoError =>
           \/ /\ Succeeded /\ shown.task = stream.task
              /\ shown.completed = stream.completed /\ shown.error = stream.error
           \/ shown.task = t /\ backend[t].status = "completed" /\ h.phase = "over"

\* A callback of the live chain of t shows `shown` and leaves the closure h.
Spoke(t, h, shown) ==
    /\ Live(hook[t]) /\ h \in Closure
    /\ Dispatch(shown, Rendered([hook EXCEPT ![t] = h]))
    /\ backend' = backend
    /\ ClosureOK(h) /\ h.phase # "none" /\ h.didCancel = hook[t].didCancel
    /\ DOMAIN shown = DOMAIN stream
    /\ Says(t, h, shown)

LEMMA SpokenChains ==
  ASSUME Core, NEW t \in Tasks, NEW h, NEW shown, Spoke(t, h, shown),
         NEW st, st.task = IF mounted THEN shown.task ELSE stream.task
  PROVE  /\ Chains([hook EXCEPT ![t] = h], effectTask, st.task)
         /\ \A u \in Tasks \ {t} : [hook EXCEPT ![t] = h][u] = hook[u]
         /\ [hook EXCEPT ![t] = h][t] = h
<1>1. /\ hook[t].phase \in {"getTask", "streaming", "waiting"} /\ h \in Closure
      /\ Chains(hook, effectTask, stream.task) /\ mounted \in BOOLEAN
      /\ ClosureOK(h) /\ h.phase # "none" /\ h.didCancel = hook[t].didCancel
      /\ Live(hook[t])
  BY DEF Core, Types, Live, Spoke
<1>2. h.phase = "streaming" /\ mounted => st.task = t
  BY DEF Spoke, Says
<1>3. st.task = stream.task \/ st.task = t
  BY <1>1 DEF Spoke, Says
<1> QED
  BY <1>1, <1>2, <1>3, ChainStep

LEMMA SpeakStep ==
  ASSUME Core, NEW t \in Tasks, NEW h, NEW shown, Spoke(t, h, shown), Told,
         UNCHANGED <<inFlight, executed>>
  PROVE  Core' /\ Speaks
<1> USE DEF Says, Spoke
<1> DEFINE hk == [hook EXCEPT ![t] = h]
<1>1. /\ Types /\ t = effectTask /\ t # NoTask /\ mounted \in BOOLEAN
      /\ hook[t].phase \in {"getTask", "streaming", "waiting"}
      /\ Chains(hook, effectTask, stream.task)
  BY Speaker DEF Core, Live, Types
<1>2. /\ stream' = IF mounted THEN shown ELSE stream
      /\ effectTask' = IF mounted THEN taskId ELSE effectTask
      /\ hook' = IF mounted THEN EffectsRun(hk) ELSE hk
      /\ taskId' = taskId /\ mounted' = mounted
  BY DEF Dispatch, Rendered
<1>3. /\ Chains(hk, effectTask, stream'.task)
      /\ \A u \in Tasks \ {t} : hk[u] = hook[u]
      /\ hk[t] = h
  <2>1. stream'.task = IF mounted THEN shown.task ELSE stream.task
    BY <1>1, <1>2
  <2> HIDE DEF Spoke
  <2> QED
    BY <2>1, SpokenChains
<1> HIDE DEF hk
<1>4. /\ Chains(hook', effectTask', stream'.task)
      /\ \A u \in Tasks : hk[u].phase = "over" => hook'[u].phase = "over"
  <2>1. CASE mounted
    BY <1>2, <1>3, <2>1, FlushKeeps
  <2>2. CASE ~mounted
    BY <1>2, <1>3, <2>2
  <2> QED
    BY <1>1, <2>1, <2>2
<1>5. Chains(hook, effectTask, stream.task)'
  BY <1>2, <1>4 DEF Chains, Chained, Unanswered
<1>6. \A u \in Tasks : hook[u].phase = "over" => hook'[u].phase = "over"
  BY <1>1, <1>3, <1>4
<1>7. Reports' /\ reported' \in [Tasks -> 0..2]
  <2>1. CASE ~mounted
    BY <1>2, <1>6, <2>1, UnreportedKeep DEF Told
  <2>2. CASE mounted
    <3>1. Effect(taskStatus) /\ (~fresh /\ due' => DepsChange)
      BY <2>2 DEF Told, Render
    <3>2. ASSUME Succeeded'
          PROVE  \/ Succeeded /\ stream'.task = stream.task /\ ~DepsChange
                 \/ /\ stream'.task \in Tasks
                    /\ backend'[stream'.task].status = "completed"
                    /\ hook'[stream'.task].phase = "over" /\ hook[stream'.task].phase # "over"
      <4>1. stream' = shown /\ shown.completed /\ shown.error = NoError
        BY <1>2, <2>2, <3>2 DEF Succeeded
      <4>2. CASE /\ Succeeded /\ shown.task = stream.task
                 /\ shown.completed = stream.completed /\ shown.error = stream.error
        BY <4>1, <4>2 DEF DepsChange, deps
      <4>3. CASE shown.task = t /\ backend[t].status = "completed" /\ h.phase = "over"
        BY <1>1, <1>3, <1>4, <4>1, <4>3
      <4> QED
        BY <2>2, <4>1, <4>2, <4>3
    <3> QED
      BY <1>2, <1>6, <2>2, <3>1, <3>2, ReportsKeep
  <2> QED
    BY <1>1, <2>1, <2>2
<1>8. Types'
  <2>1. effectTask' \in Tasks \cup {NoTask} /\ Fields \subseteq DOMAIN stream'
    BY <1>1, <1>2 DEF Types
  <2>2. due' \in BOOLEAN /\ fresh' \in BOOLEAN /\ (~mounted => ~due')
    <3>1. CASE mounted
      BY <1>1, <3>1 DEF Told, Render, Effect, DepsChange, Types
    <3>2. CASE ~mounted
      BY <1>1, <3>2 DEF Told, Types
    <3> QED
      BY <1>1, <3>1, <3>2
  <2> QED
    BY <1>1, <1>2, <1>7, <2>1, <2>2 DEF Types, Unanswered
<1>9. Speaks
  BY <1>1, <1>2 DEF Speaks
<1> QED
  BY <1>5, <1>7, <1>8, <1>9 DEF Core

\* A connection that the effects of this step do not clean up.
LEMMA GetTaskSucceedsSpeaks ==
  ASSUME Core, NEW t \in Tasks, getTaskSucceeds(t), orphans' = {}
  PROVE  Spoke(t, Connected(hook[t]), INIT(stream, t))
<1> DEFINE h == Connected(hook[t])
<1>1. /\ hook[t] \in Closure /\ ClosureOK(hook[t]) /\ Types
      /\ hook[t].phase = "getTask" /\ ~hook[t].didCancel
      /\ Live(hook[t]) /\ t = effectTask
  BY Speaker DEF getTaskSucceeds, GoesOn, Live
<1>2. /\ h \in Closure /\ ClosureOK(h) /\ h.phase = "streaming"
      /\ h.didCancel = hook[t].didCancel
  <2>1. 0 \in 0..Len(Log) /\ hook[t].retryCount \in Attempts
    BY <1>1 DEF Closure
  <2> QED
    BY <1>1, <2>1 DEF Connected, Closure, ClosureOK, ArraysFollow
<1>3. ~mounted \/ taskId = effectTask
  <2> SUFFICES ASSUME mounted, taskId # effectTask PROVE FALSE
    OBVIOUS
  <2>1. Rendered(hook)[t] = Cleanup(hook[t])
    BY <1>1 DEF Rendered, EffectsRun
  <2>2. Rendered(hook)[t].didCancel
    BY <1>1, <2>1, CleanupOK
  <2> QED
    BY <2>2 DEF getTaskSucceeds
<1>4. [Rendered(hook) EXCEPT ![t] = Connected(@)] = Rendered([hook EXCEPT ![t] = h])
  <2>1. hook \in [Tasks -> Closure]
    BY DEF Core, Chains
  <2> HIDE DEF h
  <2>2. \A hk \in [Tasks -> Closure] : Rendered(hk) = hk
    BY <1>3 DEF Rendered, EffectsRun
  <2>3. [hook EXCEPT ![t] = h] \in [Tasks -> Closure]
    BY <1>2, <2>1
  <2>4. [hook EXCEPT ![t] = Connected(@)] = [hook EXCEPT ![t] = h]
    BY <2>1 DEF h
  <2> QED
    BY <2>1, <2>2, <2>3, <2>4
<1>5. /\ DOMAIN INIT(stream, t) = DOMAIN stream
      /\ INIT(stream, t).task = t /\ INIT(stream, t).completed = FALSE
  BY <1>1, InitSets
<1>6. Dispatch(INIT(stream, t), Rendered([hook EXCEPT ![t] = h]))
      /\ backend' = backend
  BY <1>4 DEF getTaskSucceeds
<1> HIDE DEF h
<1>7. Says(t, h, INIT(stream, t))
  BY <1>1, <1>2, <1>5, <1>6 DEF Says
<1>8. Spoke(t, h, INIT(stream, t))
  BY <1>1, <1>2, <1>5, <1>6, <1>7 DEF Spoke
<1> QED
  BY <1>8 DEF h

LEMMA SpeaksAtFirst ==
  ASSUME Core, NEW t \in Tasks, getTaskSucceeds(t)
  PROVE  Speaks
<1>1. Types /\ t = effectTask /\ t # NoTask
  BY Speaker DEF getTaskSucceeds, GoesOn, Live
<1>2. stream' # stream => mounted /\ stream' = INIT(stream, t) /\ effectTask' = taskId
  BY DEF getTaskSucceeds, Dispatch
<1>3. INIT(stream, t).task = t
  BY <1>1, InitSets
<1> QED
  BY <1>1, <1>2, <1>3 DEF Speaks

LEMMA GetTaskFailsSpeaks ==
  ASSUME Core, NEW t \in Tasks, getTaskFails(t)
  PROVE  Spoke(t, [hook[t] EXCEPT !.phase = "over"], ERROR(stream, Error("refused", t)))
<1> DEFINE h == [hook[t] EXCEPT !.phase = "over"]
           st == ERROR(stream, Error("refused", t))
<1>1. /\ hook[t] \in Closure /\ ClosureOK(hook[t]) /\ Types
      /\ hook[t].phase = "getTask" /\ ~hook[t].didCancel /\ Live(hook[t])
  BY Speaker DEF getTaskFails, GoesOn, Live
<1>2. /\ h \in Closure /\ ClosureOK(h) /\ h.phase = "over"
      /\ h.didCancel = hook[t].didCancel
  BY <1>1 DEF Closure, ClosureOK, ArraysFollow
<1>3. /\ DOMAIN st = DOMAIN stream /\ st.task = stream.task
      /\ st.error.task = t /\ st.error # NoError
  <2>1. st.error = Error("refused", t) /\ st.task = stream.task /\ DOMAIN st = DOMAIN stream
    BY <1>1 DEF ERROR, Types, Fields
  <2> QED
    BY <2>1, ErrorIsError
<1>4. Dispatch(st, Rendered([hook EXCEPT ![t] = h])) /\ backend' = backend
  BY DEF getTaskFails
<1> HIDE DEF h, st
<1>5. Says(t, h, st)
  BY <1>1, <1>2, <1>3, <1>4 DEF Says
<1>6. Spoke(t, h, st)
  BY <1>1, <1>2, <1>3, <1>4, <1>5 DEF Spoke
<1> QED
  BY <1>6 DEF h, st

LEMMA CancelledSpeaks ==
  ASSUME Core, NEW t \in Tasks, cancelled(t)
  PROVE  Spoke(t, hook[t], CANCELLED(stream))
<1> DEFINE st == CANCELLED(stream)
<1>1. /\ hook[t] \in Closure /\ ClosureOK(hook[t]) /\ Types
      /\ hook[t].phase = "streaming" /\ Live(hook[t])
      /\ mounted => stream.task = t
  BY Speaker DEF cancelled
<1>2. /\ DOMAIN st = DOMAIN stream
      /\ st.task = stream.task /\ st.error = stream.error
      /\ st.completed = stream.completed
  BY <1>1, CancelledKeeps
<1>3. Dispatch(st, Rendered([hook EXCEPT ![t] = hook[t]])) /\ backend' = backend
  <2>1. hook = [hook EXCEPT ![t] = hook[t]]
    BY DEF Core, Chains
  <2> QED
    BY <2>1 DEF cancelled
<1> HIDE DEF st
<1>4. st.completed /\ st.error = NoError => Succeeded
  BY <1>2 DEF Succeeded
<1>5. Says(t, hook[t], st)
  BY <1>1, <1>2, <1>3, <1>4 DEF Says
<1>6. Spoke(t, hook[t], st)
  BY <1>1, <1>2, <1>3, <1>4, <1>5 DEF Spoke
<1> QED
  BY <1>6 DEF st

\* COMPLETED ends the chain.
LEMMA CompletionSpeaks ==
  ASSUME Core, NEW t \in Tasks, completion(t)
  PROVE  Spoke(t, [Emitted(hook[t]) EXCEPT !.phase = "over"],
               EmitAndComplete(t, IF backend[t].status = "failed"
                                  THEN Error("failed", t) ELSE NoError))
<1> DEFINE h == [Emitted(hook[t]) EXCEPT !.phase = "over"]
           e == IF backend[t].status = "failed" THEN Error("failed", t) ELSE NoError
           st == LOGS(stream, Collected(hook[t]))
           shown == COMPLETED(st, e)
<1>1. /\ hook[t] \in Closure /\ ClosureOK(hook[t]) /\ Types
      /\ hook[t].phase = "streaming" /\ Live(hook[t])
      /\ mounted => stream.task = t
  BY Speaker DEF completion
<1>2. /\ h \in Closure /\ ClosureOK(h) /\ h.phase = "over"
      /\ h.didCancel = hook[t].didCancel
  BY <1>1, EmittedOK DEF Closure, ClosureOK, ArraysFollow
<1>3. DOMAIN st = DOMAIN stream /\ st.task = stream.task
  BY <1>1, LogsKeep
<1>4. /\ DOMAIN shown = DOMAIN stream /\ shown.task = stream.task /\ shown.error = e
  <2> HIDE DEF st, e
  <2> QED
    BY <1>1, <1>3 DEF COMPLETED, Types, Fields
<1>5. e = NoError => backend[t].status = "completed"
  BY ErrorIsError DEF completion
<1>6. Dispatch(shown, Rendered([hook EXCEPT ![t] = h])) /\ backend' = backend
  BY DEF completion, EmitAndComplete
<1> HIDE DEF h, e, shown
<1>7. Says(t, h, shown)
  BY <1>1, <1>2, <1>4, <1>5, <1>6 DEF Says
<1>8. Spoke(t, h, shown)
  BY <1>1, <1>2, <1>4, <1>5, <1>6, <1>7 DEF Spoke
<1> QED
  BY <1>8 DEF h, e, st, shown, EmitAndComplete

\* What is left of the closure when its connection is lost.
LEMMA LostOK ==
  ASSUME NEW h \in Closure, ClosureOK(h), h.phase = "streaming"
  PROVE  /\ Lost(h) \in Closure /\ ClosureOK(Lost(h))
         /\ Lost(h).phase = IF h.retryCount <= Retries THEN "waiting" ELSE "over"
         /\ Lost(h).didCancel = h.didCancel /\ Lost(h).retryCount = h.retryCount
         /\ Lost(h).delivered = h.delivered
         /\ \A a \in Attempts : Lost(h).collected[a] = <<>>
<1> DEFINE g == Emitted(h)
           phase == IF h.retryCount <= Retries THEN "waiting" ELSE "over"
<1>1. /\ g \in Closure /\ g.didCancel = h.didCancel /\ g.retryCount = h.retryCount
      /\ g.delivered = h.delivered
      /\ \A a \in Attempts : g.collected[a] = <<>>
  BY EmittedOK
<1>2. Lost(h) = [g EXCEPT !.phase = phase]
  BY <1>1 DEF Lost
<1> HIDE DEF g
<1> QED
  BY <1>1, <1>2 DEF Closure, ClosureOK, ArraysFollow

LEMMA LoseSpeaks ==
  ASSUME Core, NEW t \in Tasks, lose(t)
  PROVE  Spoke(t, Lost(hook[t]),
               ERROR(LOGS(stream, Collected(hook[t])), Error("lost", t)))
<1> DEFINE h == Lost(hook[t])
           st == LOGS(stream, Collected(hook[t]))
           shown == ERROR(st, Error("lost", t))
<1>1. /\ hook[t] \in Closure /\ ClosureOK(hook[t]) /\ Types
      /\ hook[t].phase = "streaming" /\ Live(hook[t])
      /\ mounted => stream.task = t
  BY Speaker DEF lose
<1>2. /\ h \in Closure /\ ClosureOK(h) /\ h.phase \in {"waiting", "over"}
      /\ h.didCancel = hook[t].didCancel
  BY <1>1, LostOK
<1>3. DOMAIN st = DOMAIN stream /\ st.task = stream.task
  BY <1>1, LogsKeep
<1>4. DOMAIN shown = DOMAIN stream /\ shown.task = stream.task /\ shown.error # NoError
  <2> HIDE DEF st
  <2>1. shown.error = Error("lost", t)
    BY <1>1, <1>3 DEF ERROR, Types, Fields
  <2> QED
    BY <1>1, <1>3, <2>1, ErrorIsError DEF ERROR, Types, Fields
<1>5. Dispatch(shown, Rendered([hook EXCEPT ![t] = h])) /\ backend' = backend
  BY DEF lose
<1> HIDE DEF h, shown
<1>6. Says(t, h, shown)
  BY <1>1, <1>2, <1>4, <1>5 DEF Says
<1>7. Spoke(t, h, shown)
  BY <1>1, <1>2, <1>4, <1>5, <1>6 DEF Spoke
<1> QED
  BY <1>7 DEF h, st, shown

\* An interval finds entries only while its connection is open.
LEMMA EmitLogsSpeaks ==
  ASSUME Core, NEW t \in Tasks, NEW a \in Attempts, emitLogs(t, a)
  PROVE  Spoke(t, Emitted(hook[t]), LOGS(stream, Collected(hook[t])))
<1> DEFINE h == Emitted(hook[t])
           st == LOGS(stream, Collected(hook[t]))
<1>1. /\ hook[t] \in Closure /\ ClosureOK(hook[t]) /\ Types
      /\ hook[t].phase = "streaming" /\ a = hook[t].retryCount
  BY Speaker DEF emitLogs, ClosureOK, ArraysFollow
<1>2. Live(hook[t]) /\ (mounted => stream.task = t)
  BY <1>1, Speaker
<1>3. /\ h \in Closure /\ ClosureOK(h) /\ h.phase = "streaming"
      /\ h.didCancel = hook[t].didCancel
  BY <1>1, EmittedOK DEF ClosureOK, ArraysFollow
<1>4. /\ DOMAIN st = DOMAIN stream /\ st.task = stream.task
      /\ st.error = stream.error /\ st.completed = stream.completed
  BY <1>1, LogsKeep
<1>5. Dispatch(st, Rendered([hook EXCEPT ![t] = h])) /\ backend' = backend
  <2>1. [hook EXCEPT ![t].collected[a] = <<>>] = [hook EXCEPT ![t] = h]
    BY <1>1 DEF Core, Chains, Emitted
  <2> QED
    BY <1>1, <2>1 DEF emitLogs, Collected
<1> HIDE DEF h, st
<1>6. st.completed /\ st.error = NoError => Succeeded
  BY <1>4 DEF Succeeded
<1>7. Says(t, h, st)
  BY <1>1, <1>2, <1>3, <1>4, <1>5, <1>6 DEF Says
<1>8. Spoke(t, h, st)
  BY <1>1, <1>2, <1>3, <1>4, <1>5, <1>6, <1>7 DEF Spoke
<1> QED
  BY <1>8 DEF h, st

-----------------------------------------------------------------------------
(* The steps that change nothing of what is shown.                         *)

LEMMA SilentStep ==
  ASSUME Core, NEW t \in Tasks, NEW h \in Closure, hook' = [hook EXCEPT ![t] = h],
         UNCHANGED <<shownVars, stream, backend, fresh, due, reported, inFlight, executed>>,
         ClosureOK(h), hook[t].phase \notin {"none", "over"}, h.phase # "none",
         h.didCancel = hook[t].didCancel,
         h.phase = "streaming" => hook[t].phase = "streaming"
  PROVE  Core' /\ Speaks
<1>1. /\ Types /\ Chains(hook, effectTask, stream.task)
      /\ hook[t].phase = "streaming" /\ mounted => stream.task = t
  BY Speaker DEF Core
<1>2. /\ Chains([hook EXCEPT ![t] = h], effectTask, stream.task)
      /\ \A u \in Tasks \ {t} : [hook EXCEPT ![t] = h][u] = hook[u]
      /\ [hook EXCEPT ![t] = h][t] = h
  BY <1>1, ChainStep
<1>3. Chains(hook, effectTask, stream.task)'
  <2>1. Chains(hook', effectTask, stream.task)
    BY <1>2
  <2> QED
    BY <2>1 DEF Chains, Chained, Unanswered, shownVars
<1>4. \A u \in Tasks : hook[u].phase = "over" => hook'[u].phase = "over"
  BY <1>2
<1>5. Reports' /\ reported' \in [Tasks -> 0..2]
  BY <1>4, UnreportedKeep DEF shownVars
<1>6. Types'
  BY <1>1, <1>5 DEF Types, Unanswered, shownVars
<1> QED
  BY <1>3, <1>5, <1>6 DEF Core, Speaks

\* What a callback that dispatches nothing leaves alone.
Quiet == UNCHANGED <<fresh, due, reported, inFlight, executed>>

LEMMA SilentSteps ==
  ASSUME Core, NEW t \in Tasks, Silent(t), Quiet
  PROVE  Core' /\ Speaks
<1> USE DEF Quiet
<1>1. hook[t] \in Closure /\ ClosureOK(hook[t]) /\ Types
  BY Speaker
<1>2. CASE getTaskIgnored(t)
  <2> DEFINE h == [hook[t] EXCEPT !.phase = "over", !.retryCount = 1]
  <2>1. hook' = [hook EXCEPT ![t] = h]
    BY <1>2 DEF getTaskIgnored, Core, Chains
  <2>2. /\ h \in Closure /\ h.phase = "over" /\ h.didCancel = hook[t].didCancel
        /\ h.collected = hook[t].collected
    BY <1>1, NoClosureType DEF Closure
  <2> HIDE DEF h
  <2>3. ClosureOK(h)
    BY <1>1, <1>2, <2>2 DEF ClosureOK, ArraysFollow, getTaskIgnored
  <2> QED
    BY <1>2, <2>1, <2>2, <2>3, SilentStep DEF getTaskIgnored
<1>3. CASE reconnect(t)
  <2> DEFINE h == [hook[t] EXCEPT !.retryCount = hook[t].retryCount + 1, !.phase = "getTask"]
  <2>1. hook' = [hook EXCEPT ![t] = h]
    BY <1>3 DEF reconnect, Core, Chains
  <2>2. hook[t].retryCount + 1 \in Attempts
    BY <1>1, <1>3 DEF reconnect, Closure, ClosureOK, Attempts
  <2>3. /\ h \in Closure /\ h.phase = "getTask" /\ h.didCancel = hook[t].didCancel
        /\ h.collected = hook[t].collected
    BY <1>1, <2>2 DEF Closure
  <2> HIDE DEF h
  <2>4. ClosureOK(h)
    BY <1>1, <1>3, <2>3 DEF ClosureOK, ArraysFollow, reconnect
  <2> QED
    BY <1>3, <2>1, <2>3, <2>4, SilentStep DEF reconnect
<1>4. CASE log(t)
  <2> DEFINE rc == hook[t].retryCount
             entries == Append(hook[t].collected[rc], hook[t].delivered + 1)
             h == [hook[t] EXCEPT !.delivered = hook[t].delivered + 1,
                                  !.collected[rc] = entries]
  <2>1. hook' = [hook EXCEPT ![t] = h] /\ hook[t].phase = "streaming"
    BY <1>4 DEF log
  <2>2. hook[t].delivered + 1 \in Entries /\ hook[t].delivered + 1 \in 0..Len(Log)
    <3>1. hook[t].delivered \in 0..Len(Log) /\ backend[t].logged \in 0..Len(Log)
      BY <1>1 DEF Closure, Types, BackendTask
    <3>2. hook[t].delivered < backend[t].logged /\ Len(Log) \in Nat
      BY <1>4, LogAssumption DEF log
    <3> QED
      BY <3>1, <3>2 DEF Entries
  <2>3. /\ rc \in Attempts /\ hook[t].collected \in [Attempts -> Seq(Entries)]
        /\ hook[t].collected[rc] \in Seq(Entries)
    BY <1>1 DEF Closure
  <2>4. entries \in Seq(Entries)
    BY <2>2, <2>3
  <2>5. [hook[t].collected EXCEPT ![rc] = entries] \in [Attempts -> Seq(Entries)]
    BY <2>3, <2>4
  <2>6. h \in Closure
    BY <1>1, <2>2, <2>5 DEF Closure
  <2>7. /\ h.phase = "streaming" /\ h.didCancel = hook[t].didCancel
        /\ h.logPusher = rc /\ h.retryCount = rc
        /\ \A a \in Attempts : a # rc => h.collected[a] = <<>>
    BY <1>1, <2>1, <2>3 DEF Closure, ClosureOK, ArraysFollow
  <2>8. ClosureOK(h)
    BY <1>1, <2>1, <2>7 DEF ClosureOK, ArraysFollow
  <2> HIDE DEF h
  <2> QED
    BY <1>4, <2>1, <2>6, <2>7, <2>8, SilentStep DEF log
<1> QED
  BY <1>2, <1>3, <1>4 DEF Silent

\* The backend: a task that is completed stays so.
LEMMA BackendStep ==
  ASSUME Core, NEW t \in Tasks, progress(t) \/ finish(t), Quiet
  PROVE  Core' /\ Speaks
<1>1. PICK task \in BackendTask : Backend(t, task)
  <2>1. Types /\ backend[t] \in BackendTask
    BY DEF Core, Types
  <2>2. CASE progress(t)
    <3>1. [backend[t] EXCEPT !.logged = backend[t].logged + 1] \in BackendTask
      BY <2>1, <2>2 DEF progress, BackendTask
    <3> QED
      BY <2>2, <3>1 DEF progress
  <2>3. CASE finish(t)
    <3>1. /\ [backend[t] EXCEPT !.status = "completed"] \in BackendTask
          /\ [backend[t] EXCEPT !.status = "failed"] \in BackendTask
      BY <2>1 DEF BackendTask
    <3> QED
      BY <2>3, <3>1 DEF finish
  <2> QED
    BY <2>2, <2>3
<1>2. /\ backend[t].status = "processing" /\ backend' = [backend EXCEPT ![t] = task]
      /\ UNCHANGED <<taskId, effectTask, mounted, stream, hook>>
  BY <1>1 DEF Backend, shownVars
<1>3. \A u \in Tasks : backend[u].status = "completed" => backend'[u] = backend[u]
  BY <1>2 DEF Core, Types
<1>4. Reports' /\ reported' \in [Tasks -> 0..2]
  BY <1>2, <1>3, UnreportedKeep DEF Quiet
<1>5. Types'
  BY <1>1, <1>2, <1>4 DEF Core, Types, Unanswered, Quiet
<1>6. Chains(hook, effectTask, stream.task)'
  BY <1>2 DEF Core, Chains, Chained, Unanswered, Quiet
<1> QED
  BY <1>2, <1>4, <1>5, <1>6 DEF Core, Speaks

\* The effects run in front of a render, or by themselves; the render may show
\* another task, which has not been shown, or none.
LEMMA RenderStep ==
  ASSUME Core, RunEffects, NEW s, Effect(s), stream' = stream,
         due' \in BOOLEAN, ~fresh => ~due', mounted' \in BOOLEAN,
         mounted' => mounted, ~mounted' => ~due' /\ taskId' = NoTask,
         \/ taskId' \in {taskId, NoTask}
         \/ taskId' \in Tasks /\ Unanswered(taskId'),
         \A t \in Tasks : Unanswered(t)' => Unanswered(t) /\ t # taskId',
         inFlight' \subseteq executed', executed' \subseteq Tasks,
         backend' \in [Tasks -> BackendTask],
         \A t \in Tasks : /\ Unanswered(t)' => backend'[t].status = "none"
                          /\ backend[t].status = "completed" => backend'[t] = backend[t]
  PROVE  Core' /\ Speaks
<1>1. Types /\ Chains(hook, effectTask, stream.task)
  BY DEF Core
<1>2. hook' = EffectsRun(hook) /\ effectTask' = taskId
  BY DEF RunEffects
<1>3. /\ Chains(hook', taskId, stream.task)
      /\ \A t \in Tasks : hook[t].phase = "over" => hook'[t].phase = "over"
  BY <1>1, <1>2, FlushKeeps
<1>4. Chains(hook, effectTask, stream.task)'
  <2>1. ASSUME NEW t \in Tasks PROVE Chained(hook[t], t, effectTask, stream.task)'
    <3>1. Chained(hook'[t], t, taskId, stream.task)
      BY <1>3 DEF Chains
    <3>2. t = taskId' /\ t # taskId => Unanswered(t)
      OBVIOUS
    <3>3. Unanswered(t)' => Unanswered(t) /\ t # taskId'
      OBVIOUS
    <3> HIDE DEF Unanswered
    <3> QED
      BY <1>2, <3>1, <3>2, <3>3 DEF Chained
  <2> QED
    BY <1>3, <2>1 DEF Chains
<1>5. Reports' /\ reported' \in [Tasks -> 0..2]
  <2>1. ~DepsChange /\ (Succeeded' => Succeeded)
    BY DEF DepsChange, deps, Succeeded
  <2> QED
    BY <1>3, <2>1, ReportsKeep
<1>6. Types'
  <2>1. fresh' \in BOOLEAN
    BY <1>1 DEF Effect, Types
  <2>2. taskId' \in Tasks \cup {NoTask} /\ effectTask' \in Tasks \cup {NoTask}
    BY <1>1, <1>2 DEF Types
  <2> QED
    BY <1>1, <1>5, <2>1, <2>2 DEF Types
<1> QED
  BY <1>4, <1>5, <1>6 DEF Core, Speaks

-----------------------------------------------------------------------------
(* The actions of the run.                                                 *)

\* What they need of the invariant.
LEMMA AtRest ==
  ASSUME Core
  PROVE  /\ Types /\ hook \in [Tasks -> Closure]
         /\ \A t \in Tasks : Unanswered(t) =>
               t # taskId /\ hook[t].phase = "none" /\ backend[t].status = "none"
  BY DEF Core, Chains, Chained, Types

LEMMA FlushStep == Core /\ flushEffects => Core' /\ Speaks
<1> SUFFICES ASSUME Core, flushEffects PROVE Core' /\ Speaks
  OBVIOUS
<1> USE DEF flushEffects, callVars
<1>1. Types /\ \A t \in Tasks : Unanswered(t) => t # taskId /\ backend[t].status = "none"
  BY AtRest
<1>2. ~mounted => taskStatus' = taskStatus
  BY <1>1 DEF Types, Effect
<1>3. due' \in BOOLEAN /\ (~fresh => ~due') /\ (~mounted => ~due')
  BY <1>1, <1>2 DEF Types
<1>4. \A t \in Tasks : Unanswered(t)' <=> Unanswered(t)
  BY DEF Unanswered
<1> QED
  BY <1>1, <1>3, <1>4, RenderStep DEF Types

LEMMA RerenderStep == Core /\ rerender => Core' /\ Speaks
<1> SUFFICES ASSUME Core, rerender PROVE Core' /\ Speaks
  OBVIOUS
<1> USE DEF rerender, Render, callVars
<1>1. Types /\ \A t \in Tasks : Unanswered(t) => t # taskId /\ backend[t].status = "none"
  BY AtRest
<1>2. due' \in BOOLEAN
  BY <1>1 DEF Types
<1>3. \A t \in Tasks : Unanswered(t)' <=> Unanswered(t)
  BY DEF Unanswered
<1> QED
  BY <1>1, <1>2, <1>3, RenderStep DEF Types

\* A render for a setter of a state.
LEMMA Rendering ==
  ASSUME Types, NEW s, Render(s, TRUE), stream' = stream
  PROVE  Effect(s) /\ due' \in BOOLEAN /\ (~fresh => ~due')
  BY DEF Types, Render, DepsChange, deps

LEMMA ExecuteStep == Core /\ execute => Core' /\ Speaks
<1> SUFFICES ASSUME Core, execute PROVE Core' /\ Speaks
  OBVIOUS
<1> USE DEF execute
<1>1. Types /\ \A t \in Tasks : Unanswered(t) => t # taskId /\ backend[t].status = "none"
  BY AtRest
<1>2. NewTask \in Tasks /\ NewTask \notin executed
  BY NewTaskIsFresh
<1>3. \A t \in Tasks : Unanswered(t)' => Unanswered(t)
  BY <1>2 DEF Unanswered
<1>4. inFlight' \subseteq executed' /\ executed' \subseteq Tasks
  BY <1>1, <1>2 DEF Types
<1>5. Effect("pending") /\ due' \in BOOLEAN /\ (~fresh => ~due')
  BY <1>1, Rendering
<1> QED
  BY <1>1, <1>3, <1>4, <1>5, RenderStep DEF Types

\* A call of scaffold is settled that nobody shows.
LEMMA NothingRendersStep ==
  ASSUME Core, NEW t \in Tasks, NothingRenders, UNCHANGED <<mounted, stream, executed>>,
         t \in inFlight, inFlight' = inFlight \ {t},
         backend' \in [Tasks -> BackendTask],
         \A u \in Tasks \ {t} : backend'[u] = backend[u]
  PROVE  Core' /\ Speaks
<1> USE DEF NothingRenders
<1>1. /\ Types /\ t \in executed
      /\ \A u \in Tasks : Unanswered(u) => u # taskId /\ backend[u].status = "none"
  BY AtRest DEF Types
<1>2. Unanswered(t) /\ \A u \in Tasks : Unanswered(u)' <=> Unanswered(u) /\ u # t
  BY <1>1 DEF Unanswered
<1>3. \A u \in Tasks : backend[u].status = "completed" => backend'[u] = backend[u]
  BY <1>1, <1>2
<1>4. Reports' /\ reported' \in [Tasks -> 0..2]
  BY <1>3, UnreportedKeep
<1>5. Types'
  BY <1>1, <1>2, <1>4 DEF Types
<1>6. Chains(hook, effectTask, stream.task)'
  <2>1. ASSUME NEW u \in Tasks PROVE Chained(hook[u], u, effectTask, stream.task)'
    <3>1. Chained(hook[u], u, effectTask, stream.task)
      BY DEF Core, Chains
    <3> HIDE DEF Unanswered
    <3> QED
      BY <1>2, <3>1 DEF Chained
  <2> QED
    BY <2>1 DEF Core, Chains
<1> QED
  BY <1>4, <1>5, <1>6 DEF Core, Speaks

LEMMA ScaffoldResolvesStep ==
  ASSUME Core, NEW t \in Tasks, scaffoldResolves(t)
  PROVE  Core' /\ Speaks
<1> USE DEF scaffoldResolves, Settle
<1>1. /\ Types /\ t \in executed
      /\ \A u \in Tasks : Unanswered(u) => u # taskId /\ backend[u].status = "none"
  BY AtRest DEF Types
<1>2. Unanswered(t) /\ \A u \in Tasks : Unanswered(u)' <=> Unanswered(u) /\ u # t
  BY <1>1 DEF Unanswered
<1>3. /\ backend' \in [Tasks -> BackendTask]
      /\ \A u \in Tasks \ {t} : backend'[u] = backend[u]
  BY <1>1 DEF Types, BackendTask
<1>4. CASE mounted
  <2>1. RunEffects /\ taskId' = t /\ Render(taskStatus, TRUE)
    BY <1>4 DEF SetterRenders
  <2>2. Effect(taskStatus) /\ due' \in BOOLEAN /\ (~fresh => ~due')
    BY <1>1, <2>1, Rendering
  <2>3. \A u \in Tasks : /\ Unanswered(u)' => backend'[u].status = "none"
                         /\ backend[u].status = "completed" => backend'[u] = backend[u]
    BY <1>1, <1>2, <1>3
  <2>4. inFlight' \subseteq executed' /\ executed' \subseteq Tasks /\ mounted' = TRUE
    BY <1>1, <1>4 DEF Types
  <2> QED
    BY <1>2, <1>3, <1>4, <2>1, <2>2, <2>3, <2>4, RenderStep
<1>5. CASE ~mounted
  BY <1>3, <1>5, NothingRendersStep
<1> QED
  BY <1>4, <1>5

LEMMA ScaffoldRejectsStep ==
  ASSUME Core, NEW t \in Tasks, scaffoldRejects(t)
  PROVE  Core' /\ Speaks
<1> USE DEF scaffoldRejects, Settle
<1>1. /\ Types /\ t \in executed /\ backend \in [Tasks -> BackendTask]
      /\ \A u \in Tasks : Unanswered(u) => u # taskId /\ backend[u].status = "none"
  BY AtRest DEF Types
<1>2. \A u \in Tasks : Unanswered(u)' <=> Unanswered(u) /\ u # t
  BY <1>1 DEF Unanswered
<1>3. CASE mounted /\ t = latest
  <2>1. RunEffects /\ taskId' = taskId /\ Render(taskStatus, TRUE)
    BY <1>3 DEF SetterRenders
  <2>2. Effect(taskStatus) /\ due' \in BOOLEAN /\ (~fresh => ~due')
    BY <1>1, <2>1, Rendering
  <2>3. inFlight' \subseteq executed' /\ executed' \subseteq Tasks /\ mounted' = TRUE
    BY <1>1, <1>3 DEF Types
  <2> QED
    BY <1>1, <1>2, <1>3, <2>1, <2>2, <2>3, RenderStep
<1>4. CASE ~(mounted /\ t = latest)
  BY <1>1, <1>4, NothingRendersStep
<1> QED
  BY <1>3, <1>4

LEMMA ResetStep == Core /\ reset => Core' /\ Speaks
<1> SUFFICES ASSUME Core, reset PROVE Core' /\ Speaks
  OBVIOUS
<1> USE DEF reset, SetterRenders, callVars
<1>1. Types /\ \A t \in Tasks : Unanswered(t) => t # taskId /\ backend[t].status = "none"
  BY AtRest
<1>2. Effect("idle") /\ due' \in BOOLEAN /\ (~fresh => ~due')
  BY <1>1, Rendering
<1>3. \A t \in Tasks : Unanswered(t)' <=> Unanswered(t)
  BY DEF Unanswered
<1> QED
  BY <1>1, <1>2, <1>3, RenderStep DEF Types

LEMMA UnmountStep == Core /\ unmount => Core' /\ Speaks
<1> SUFFICES ASSUME Core, unmount PROVE Core' /\ Speaks
  OBVIOUS
<1> USE DEF unmount, callVars
<1>1. Types /\ \A t \in Tasks : Unanswered(t) => t # taskId /\ backend[t].status = "none"
  BY AtRest
<1>2. \A t \in Tasks : Unanswered(t)' <=> Unanswered(t)
  BY DEF Unanswered
<1> QED
  BY <1>1, <1>2, RenderStep DEF Types

-----------------------------------------------------------------------------
(* The theorems.                                                           *)

LEMMA InitInv == Init => Core
<1> SUFFICES ASSUME Init PROVE Core
  OBVIOUS
<1> USE DEF Init, StreamInit
<1>1. NoBackendTask \in BackendTask
  BY DEF NoBackendTask, BackendTask
<1>2. Types
  <2>1. Fields \subseteq DOMAIN stream
    BY DEF Fields, NoStream
  <2>2. \A t \in Tasks : backend[t].status = "none"
    BY DEF NoBackendTask
  <2>3. /\ taskId = NoTask /\ effectTask = NoTask /\ mounted \in BOOLEAN
        /\ mounted /\ due \in BOOLEAN /\ fresh \in BOOLEAN
    OBVIOUS
  <2>4. backend \in [Tasks -> BackendTask] /\ reported \in [Tasks -> 0..2]
    BY <1>1
  <2>5. inFlight = {} /\ executed = {}
    OBVIOUS
  <2> HIDE DEF Fields, Init, StreamInit
  <2> QED
    BY <2>1, <2>2, <2>3, <2>4, <2>5 DEF Types
<1>3. \A t \in Tasks : hook[t] = NoClosure
  OBVIOUS
<1>4. ClosureOK(NoClosure) /\ NoClosure.phase = "none"
  <2>1. NoClosure.phase = "none"
    BY DEF NoClosure
  <2> QED
    BY <2>1, NoClosureType DEF ClosureOK, ArraysFollow
<1>5. Chains(hook, effectTask, stream.task)
  BY <1>3, <1>4, NoClosureType DEF Chains, Chained, Live
<1>6. stream.completed = FALSE
  BY DEF NoStream
<1>7. Reports
  BY <1>6 DEF Reports, Succeeded
<1> QED
  BY <1>2, <1>5, <1>7 DEF Core

\* A connection that is never ended stays.
LEMMA OrphansStay ==
  ASSUME [Next]_vars, orphans' = {}
  PROVE  orphans = {}
<1>1. CASE UNCHANGED vars
  BY <1>1 DEF vars, streamVars
<1>2. ASSUME NEW t \in Tasks,
             \/ StreamDispatch(Dispatching(t))
             \/ \E a \in Attempts : StreamDispatch(emitLogs(t, a))
             \/ StreamStep(Silent(t))
             \/ StreamStep(progress(t) \/ finish(t))
             \/ scaffoldResolves(t) \/ scaffoldRejects(t)
      PROVE  orphans = {}
  BY <1>2 DEF StreamDispatch, StreamStep, Dispatching, Silent, getTaskSucceeds, getTaskFails,
     cancelled, completion, lose, emitLogs, getTaskIgnored, log, reconnect, progress, finish,
     Backend, scaffoldResolves, scaffoldRejects, Settle
<1>3. CASE flushEffects \/ rerender \/ execute \/ reset \/ unmount
  BY <1>3 DEF flushEffects, rerender, execute, reset, unmount
<1> QED
  BY <1>1, <1>2, <1>3 DEF Next, Step

LEMMA NextInv ==
  ASSUME Core, [Next]_vars
  PROVE  /\ Speaks \/ UNCHANGED vars
         /\ orphans' = {} => Core'
<1>1. CASE UNCHANGED vars
  <2>1. Types' /\ Reports'
    BY <1>1 DEF vars, streamVars, shownVars, callVars, Core, Types, Reports, Succeeded, Unanswered
  <2>2. Chains(hook, effectTask, stream.task)'
    BY <1>1 DEF vars, streamVars, shownVars, callVars, Core, Chains, Chained, Unanswered
  <2> QED
    BY <1>1, <2>1, <2>2 DEF Core
<1>2. ASSUME NEW t \in Tasks, StreamDispatch(Dispatching(t))
      PROVE  Speaks /\ (orphans' = {} => Core')
  <2>1. Dispatching(t) /\ Told /\ inFlight' = inFlight /\ executed' = executed
    BY <1>2 DEF StreamDispatch, Told, callVars
  <2>2. CASE getTaskSucceeds(t)
    <3>1. Speaks
      BY <2>2, SpeaksAtFirst
    <3> QED
      BY <2>1, <2>2, <3>1, GetTaskSucceedsSpeaks, SpeakStep
  <2>3. CASE ~getTaskSucceeds(t)
    BY <2>1, <2>3, GetTaskFailsSpeaks, CancelledSpeaks, CompletionSpeaks, LoseSpeaks,
       SpeakStep DEF Dispatching
  <2> QED
    BY <2>2, <2>3
<1>3. ASSUME NEW t \in Tasks, NEW a \in Attempts, StreamDispatch(emitLogs(t, a))
      PROVE  Speaks /\ Core'
  BY <1>3, EmitLogsSpeaks, SpeakStep DEF StreamDispatch, Told, callVars
<1>4. ASSUME NEW t \in Tasks, StreamStep(Silent(t)) \/ StreamStep(progress(t) \/ finish(t))
      PROVE  Speaks /\ Core'
  BY <1>4, SilentSteps, BackendStep DEF StreamStep, Quiet, callVars
<1>5. ASSUME NEW t \in Tasks, scaffoldResolves(t) \/ scaffoldRejects(t)
      PROVE  Speaks /\ Core'
  BY <1>5, ScaffoldResolvesStep, ScaffoldRejectsStep
<1>6. CASE flushEffects \/ rerender \/ execute \/ reset \/ unmount
  BY <1>6, FlushStep, RerenderStep, ExecuteStep, ResetStep, UnmountStep
<1> QED
  BY <1>1, <1>2, <1>3, <1>4, <1>5, <1>6 DEF Next, Step

LEMMA InvHolds == Inv /\ [Next]_vars => Inv'
<1> SUFFICES ASSUME Inv, [Next]_vars, orphans' = {} PROVE Core'
  BY DEF Inv
<1>1. Core
  BY OrphansStay DEF Inv
<1> QED
  BY <1>1, NextInv

\* What the hook shows changes through the task only whose effect has not been
\* cleaned up, but for a callback that comes between the render of another task and
\* that cleanup, and with which the cleanup is done: none comes after it.
THEOREM OnlyShownSpeaks == Spec => OnlyShownTaskSpeaks
<1> DEFINE S == stream' # stream /\ orphans = {} =>
                  /\ mounted /\ effectTask # NoTask
                  /\ stream'.task = effectTask \/ stream'.error.task = effectTask
                  /\ effectTask' = taskId
<1>1. Inv /\ [Next]_vars => Inv' /\ [S]_vars
  <2> SUFFICES ASSUME Inv, [Next]_vars PROVE Inv' /\ [S]_vars
    OBVIOUS
  <2>1. orphans = {} => Speaks \/ UNCHANGED vars
    BY NextInv DEF Inv
  <2> QED
    BY <2>1, InvHolds DEF Speaks
<1>2. Init => Inv
  BY InitInv DEF Inv
<1> QED
  BY <1>1, <1>2, PTL DEF Spec, OnlyShownTaskSpeaks

\* onComplete is called for tasks only that succeeded, whatever the callbacks are;
\* and for each of them once, when they stay.
THEOREM ReportedOncePerTask == Spec => []ReportedOnce
<1>1. Inv => ReportedOnce
  BY DEF Inv, Core, Reports, ReportedOnce
<1>2. Init => Inv
  BY InitInv DEF Inv
<1> QED
  BY <1>1, <1>2, InvHolds, PTL DEF Spec

-----------------------------------------------------------------------------
(* The logs that are shown.                                                *)

\* The numbers of the first n entries of a log.
UpTo(n) == [i \in 1..n |-> i]

Shown(logs, k) == \A s \in DOMAIN logs : logs[s] = OfStep(UpTo(k), s)

IsConclusion(st) == st.completed /\ st.error.kind \in {"none", "failed"}

\* What is shown of the task in the stream is a beginning of its logs.
ShowsBeginning(hk, st, be) ==
    /\ st.task \in Tasks /\ hk[st.task].phase # "none"
    /\ \E k \in 0..be[st.task].logged : Shown(st.stepLogs, k)
    /\ IsConclusion(st) =>
          /\ be[st.task].status \in {"completed", "failed"}
          /\ Shown(st.stepLogs, be[st.task].logged)

\* What is shown together with what the connection h has collected is what it
\* delivered.
Gathers(h, st, task) ==
    /\ ~st.completed
    /\ h.delivered <= task.logged
    /\ \A s \in DOMAIN st.stepLogs :
          st.stepLogs[s] \o OfStep(Collected(h), s) = OfStep(UpTo(h.delivered), s)

Follows(hk, st, be) ==
    /\ Fields \subseteq DOMAIN st
    /\ IF st.task = NoTask THEN ~IsConclusion(st) ELSE ShowsBeginning(hk, st, be)
    /\ \A t \in Tasks : hk[t].phase = "streaming" => Gathers(hk[t], st, be[t])

LogsFollow == mounted => Follows(hook, stream, backend)

LEMMA UpToGrows ==
  ASSUME NEW n \in 0..Len(Log)
  PROVE  /\ UpTo(n) \in Seq(Entries)
         /\ UpTo(0) = <<>>
         /\ n < Len(Log) => UpTo(n + 1) = Append(UpTo(n), n + 1)
<1>1. n \in Nat /\ Len(Log) \in Nat
  BY LenProperties
<1>2. UpTo(n) \in [1..n -> Entries]
  BY <1>1 DEF UpTo, Entries
<1>3. UpTo(n) \in Seq(Entries) /\ Len(UpTo(n)) = n
  BY <1>1, <1>2, FunctionIsSeq
<1>4. UpTo(0) = <<>>
  BY DEF UpTo
<1>5. ASSUME n < Len(Log) PROVE UpTo(n + 1) = Append(UpTo(n), n + 1)
  <2>1. n + 1 \in Entries /\ n + 1 \in Nat
    BY <1>1, <1>5 DEF Entries
  <2>2. UpTo(n + 1) \in [1..(n + 1) -> Entries]
    BY <1>1, <2>1 DEF UpTo, Entries
  <2>3. UpTo(n + 1) \in Seq(Entries) /\ Len(UpTo(n + 1)) = n + 1
    BY <2>1, <2>2, FunctionIsSeq
  <2>4. /\ Append(UpTo(n), n + 1) \in Seq(Entries) /\ Len(Append(UpTo(n), n + 1)) = n + 1
        /\ \A i \in 1..n : Append(UpTo(n), n + 1)[i] = UpTo(n)[i]
        /\ Append(UpTo(n), n + 1)[n + 1] = n + 1
    BY <1>1, <1>3, <2>1, AppendProperties
  <2>5. \A i \in 1..(n + 1) : UpTo(n + 1)[i] = Append(UpTo(n), n + 1)[i]
    <3> SUFFICES ASSUME NEW i \in 1..(n + 1)
                 PROVE  UpTo(n + 1)[i] = Append(UpTo(n), n + 1)[i]
      OBVIOUS
    <3>1. UpTo(n + 1)[i] = i
      BY DEF UpTo
    <3>2. i = n + 1 \/ (i \in 1..n /\ UpTo(n)[i] = i)
      BY <1>1 DEF UpTo
    <3> QED
      BY <2>4, <3>1, <3>2
  <2> QED
    BY <2>3, <2>4, <2>5, SeqEqual
<1> QED
  BY <1>3, <1>4, <1>5

LEMMA OfStepType ==
  ASSUME NEW e \in Seq(Entries), NEW s
  PROVE  OfStep(e, s) \in Seq(Entries)
<1> DEFINE each == [i \in DOMAIN e |-> IF Log[e[i]].step = s THEN <<e[i]>> ELSE <<>>]
<1>1. Len(e) \in Nat /\ DOMAIN e = 1..Len(e) /\ \A i \in 1..Len(e) : e[i] \in Entries
  BY LenProperties
<1>2. each \in [1..Len(e) -> Seq(Entries)]
  BY <1>1
<1> HIDE DEF each
<1>3. each \in Seq(Seq(Entries))
  BY <1>1, <1>2, FunctionIsSeq
<1>4. FlattenSeq(each) \in Seq(Entries)
  BY <1>3, FlattenType
<1> QED
  BY <1>4 DEF OfStep, each

\* OfStep goes through the entries one by one.
LEMMA OfStepGrows ==
  ASSUME NEW e \in Seq(Entries), NEW k \in Entries, NEW s
  PROVE  /\ OfStep(<<>>, s) = <<>>
         /\ OfStep(e, s) \in Seq(Entries)
         /\ OfStep(Append(e, k), s) =
                OfStep(e, s) \o (IF Log[k].step = s THEN <<k>> ELSE <<>>)
<1> DEFINE one(x) == IF Log[x].step = s THEN <<x>> ELSE <<>>
           each(f) == [i \in DOMAIN f |-> one(f[i])]
<1>1. \A x \in Entries : one(x) \in Seq(Entries)
  OBVIOUS
<1>2. ASSUME NEW f \in Seq(Entries)
      PROVE  each(f) \in Seq(Seq(Entries)) /\ Len(each(f)) = Len(f)
  <2>1. Len(f) \in Nat /\ DOMAIN f = 1..Len(f) /\ \A i \in 1..Len(f) : f[i] \in Entries
    BY LenProperties
  <2>2. each(f) \in [1..Len(f) -> Seq(Entries)]
    BY <1>1, <2>1
  <2> HIDE DEF each
  <2> QED
    BY <2>1, <2>2, FunctionIsSeq
<1>3. each(<<>>) = <<>>
  OBVIOUS
<1>4. each(Append(e, k)) = Append(each(e), one(k))
  <2>1. /\ Append(e, k) \in Seq(Entries) /\ Len(Append(e, k)) = Len(e) + 1
        /\ \A i \in 1..Len(e) : Append(e, k)[i] = e[i]
        /\ Append(e, k)[Len(e) + 1] = k
        /\ Len(e) \in Nat
    BY AppendProperties, LenProperties
  <2>2. /\ each(e) \in Seq(Seq(Entries)) /\ Len(each(e)) = Len(e)
        /\ each(Append(e, k)) \in Seq(Seq(Entries))
        /\ Len(each(Append(e, k))) = Len(e) + 1
    <3> HIDE DEF each
    <3> QED
      BY <1>2, <2>1
  <2>3. \A i \in DOMAIN e : each(e)[i] = one(e[i])
    OBVIOUS
  <2>4. \A i \in DOMAIN Append(e, k) : each(Append(e, k))[i] = one(Append(e, k)[i])
    OBVIOUS
  <2>5. /\ Append(each(e), one(k)) \in Seq(Seq(Entries))
        /\ Len(Append(each(e), one(k))) = Len(e) + 1
        /\ \A i \in 1..Len(e) : Append(each(e), one(k))[i] = each(e)[i]
        /\ Append(each(e), one(k))[Len(e) + 1] = one(k)
    <3>1. one(k) \in Seq(Entries)
      BY <1>1
    <3> HIDE DEF each, one
    <3>2. PICK seqs \in Seq(Seq(Entries)), last \in Seq(Entries) :
            seqs = each(e) /\ last = one(k)
      BY <2>2, <3>1
    <3>3. /\ Append(seqs, last) \in Seq(Seq(Entries))
          /\ Len(Append(seqs, last)) = Len(seqs) + 1
          /\ \A i \in 1..Len(seqs) : Append(seqs, last)[i] = seqs[i]
          /\ Append(seqs, last)[Len(seqs) + 1] = last
      BY AppendProperties
    <3> QED
      BY <2>2, <3>2, <3>3
  <2>6. DOMAIN e = 1..Len(e) /\ DOMAIN Append(e, k) = 1..(Len(e) + 1)
    BY <2>1, LenProperties
  <2> HIDE DEF each, one
  <2>7. ASSUME NEW i \in 1..(Len(e) + 1)
        PROVE  each(Append(e, k))[i] = Append(each(e), one(k))[i]
    <3>1. CASE i = Len(e) + 1
      BY <2>1, <2>4, <2>5, <2>6, <3>1
    <3>2. CASE i # Len(e) + 1
      <4>1. i \in 1..Len(e)
        BY <2>1, <3>2
      <4> QED
        BY <2>1, <2>3, <2>4, <2>5, <2>6, <4>1
    <3> QED
      BY <3>1, <3>2
  <2> QED
    BY <2>2, <2>5, <2>7, SeqEqual
<1>5. \A f : OfStep(f, s) = FlattenSeq(each(f))
  BY DEF OfStep
<1>6. one(k) \in Seq(Entries) /\ each(e) \in Seq(Seq(Entries))
  BY <1>1, <1>2
<1> HIDE DEF each
<1>7. OfStep(<<>>, s) = <<>>
  BY <1>3, <1>5, FlattenEmpty
<1>8. OfStep(e, s) \in Seq(Entries)
  BY <1>5, <1>6, FlattenType
<1>9. OfStep(Append(e, k), s) = OfStep(e, s) \o one(k)
  <2> HIDE DEF one
  <2>1. PICK seqs \in Seq(Seq(Entries)), last \in Seq(Entries) :
          seqs = each(e) /\ last = one(k)
    BY <1>6
  <2>2. FlattenSeq(Append(seqs, last)) = FlattenSeq(seqs) \o last
    BY FlattenAppend
  <2> QED
    BY <1>4, <1>5, <2>1, <2>2
<1> QED
  BY <1>7, <1>8, <1>9

\* LOGS adds to each step's lines, and to nothing else that matters here.
LEMMA LogsAdd ==
  ASSUME Fields \subseteq DOMAIN stream, NEW e
  PROVE  LET st == LOGS(stream, e) IN
         /\ DOMAIN st = DOMAIN stream
         /\ st.task = stream.task /\ st.error = stream.error /\ st.completed = stream.completed
         /\ DOMAIN st.stepLogs = DOMAIN stream.stepLogs
         /\ \A s \in DOMAIN st.stepLogs : st.stepLogs[s] = stream.stepLogs[s] \o OfStep(e, s)
<1> DEFINE open == [s \in DOMAIN stream.steps |-> LastStatus(OfStep(e, s), stream.steps[s])]
           lines == [s \in DOMAIN stream.stepLogs |-> stream.stepLogs[s] \o OfStep(e, s)]
<1>1. LOGS(stream, e) = [stream EXCEPT !.steps = open, !.stepLogs = lines]
  BY DEF LOGS
<1>2. /\ DOMAIN lines = DOMAIN stream.stepLogs
      /\ \A s \in DOMAIN lines : lines[s] = stream.stepLogs[s] \o OfStep(e, s)
  OBVIOUS
<1> HIDE DEF open, lines
<1> QED
  BY <1>1, <1>2 DEF Fields

LEMMA OfStepEmpty == \A s : OfStep(<<>>, s) = <<>>
<1> SUFFICES ASSUME NEW s PROVE OfStep(<<>>, s) = <<>>
  OBVIOUS
<1>1. [i \in DOMAIN <<>> |-> IF Log[<<>>[i]].step = s THEN <<<<>>[i]>> ELSE <<>>] = <<>>
  OBVIOUS
<1> QED
  BY <1>1, FlattenEmpty DEF OfStep


\* The effects that run open no connection.
LEMMA FlushFollows ==
  ASSUME NEW hk, NEW st, NEW be, Chains(hk, effectTask, st.task), Follows(hk, st, be)
  PROVE  Follows(EffectsRun(hk), st, be)
<1>1. \A t \in Tasks :
        /\ hk[t].phase # "none" => EffectsRun(hk)[t].phase # "none"
        /\ EffectsRun(hk)[t].phase = "streaming" => EffectsRun(hk)[t] = hk[t]
  BY FlushKeeps
<1>2. ASSUME st.task # NoTask PROVE ShowsBeginning(EffectsRun(hk), st, be)
  BY <1>1, <1>2 DEF Follows, ShowsBeginning
<1>3. ASSUME NEW t \in Tasks, EffectsRun(hk)[t].phase = "streaming"
      PROVE  Gathers(EffectsRun(hk)[t], st, be[t])
  BY <1>1, <1>3 DEF Follows
<1> QED
  BY <1>2, <1>3 DEF Follows

\* A callback that dispatches: what it shows, and its closure with it, is followed
\* by the effects that are due.
LEMMA SpokenFollows ==
  ASSUME Core, mounted, NEW t \in Tasks, NEW h, NEW shown, Spoke(t, h, shown),
         Follows([hook EXCEPT ![t] = h], shown, backend)
  PROVE  LogsFollow'
<1>1. Chains([hook EXCEPT ![t] = h], effectTask, shown.task)
  BY SpokenChains
<1>2. stream' = shown /\ hook' = EffectsRun([hook EXCEPT ![t] = h]) /\ backend' = backend
  BY DEF Spoke, Dispatch, Rendered
<1> QED
  BY <1>1, <1>2, FlushFollows DEF LogsFollow

LEMMA LoggedIsNat ==
  ASSUME Types
  PROVE  /\ Len(Log) \in Nat
         /\ \A t \in Tasks : backend[t].logged \in 0..Len(Log) /\ backend[t].logged \in Nat
<1>1. \A t \in Tasks : backend[t].logged \in 0..Len(Log)
  BY DEF Types, BackendTask
<1> QED
  BY <1>1, LenProperties

\* Only one chain is connected.
LEMMA OneConnection ==
  ASSUME Core, NEW t \in Tasks, Live(hook[t]), NEW u \in Tasks, hook[u].phase = "streaming"
  PROVE  u = t
  BY Speaker

\* The backend may be ahead of what is shown; a task that has ended is as it was.
LEMMA AheadFollows ==
  ASSUME Core, Follows(hook, stream, backend), NEW be,
         \A t \in Tasks :
            hook[t].phase # "none" =>
               /\ backend[t].logged <= be[t].logged /\ be[t].logged \in Nat
               /\ backend[t].status \in {"completed", "failed"} => be[t] = backend[t]
  PROVE  Follows(hook, stream, be)
<1>1. Types /\ hook \in [Tasks -> Closure]
  BY DEF Core, Chains
<1>2. ASSUME stream.task # NoTask PROVE ShowsBeginning(hook, stream, be)
  <2>1. PICK task : task = stream.task
    OBVIOUS
  <2>2. /\ task \in Tasks /\ hook[task].phase # "none"
        /\ \E k \in 0..backend[task].logged : Shown(stream.stepLogs, k)
        /\ IsConclusion(stream) =>
              /\ backend[task].status \in {"completed", "failed"}
              /\ Shown(stream.stepLogs, backend[task].logged)
    BY <1>2, <2>1 DEF Follows, ShowsBeginning
  <2>3. /\ backend[task].logged \in Nat /\ be[task].logged \in Nat
        /\ backend[task].logged <= be[task].logged
    BY <1>1, <2>2, LoggedIsNat
  <2>4. 0..backend[task].logged \subseteq 0..be[task].logged
    BY <2>3
  <2> QED
    BY <2>1, <2>2, <2>4 DEF ShowsBeginning
<1>3. ASSUME NEW t \in Tasks, hook[t].phase = "streaming"
      PROVE  Gathers(hook[t], stream, be[t])
  <2>1. Gathers(hook[t], stream, backend[t])
    BY <1>3 DEF Follows
  <2>2. /\ hook[t].delivered \in Nat /\ backend[t].logged \in Nat /\ be[t].logged \in Nat
        /\ backend[t].logged <= be[t].logged
    BY <1>1, <1>3, LoggedIsNat DEF Closure
  <2>3. PICK d \in Nat, m \in Nat, n \in Nat :
          d = hook[t].delivered /\ m = backend[t].logged /\ n = be[t].logged
    BY <2>2
  <2>4. hook[t].delivered <= be[t].logged
    <3>1. d <= m /\ m <= n
      BY <2>1, <2>2, <2>3 DEF Gathers
    <3> QED
      BY <2>3, <3>1
  <2> QED
    BY <2>1, <2>4 DEF Gathers
<1> QED
  BY <1>2, <1>3 DEF Follows

\* A closure that is not connected, behind a stream that shows no line more.
LEMMA RestFollows ==
  ASSUME Core, Follows(hook, stream, backend), NEW t \in Tasks, NEW h, NEW st,
         hook[t].phase # "none", h.phase # "none",
         h.phase = "streaming" => h = hook[t],
         DOMAIN st = DOMAIN stream, st.task = stream.task, st.stepLogs = stream.stepLogs,
         IsConclusion(st) => IsConclusion(stream),
         \A u \in Tasks :
            [hook EXCEPT ![t] = h][u].phase = "streaming" => st.completed = stream.completed
  PROVE  Follows([hook EXCEPT ![t] = h], st, backend)
<1> DEFINE hk == [hook EXCEPT ![t] = h]
<1>1. hk[t] = h /\ \A u \in Tasks \ {t} : hk[u] = hook[u]
  BY DEF Core, Chains
<1> HIDE DEF hk
<1>2. ASSUME st.task # NoTask PROVE ShowsBeginning(hk, st, backend)
  BY <1>1, <1>2 DEF Follows, ShowsBeginning
<1>3. ASSUME NEW u \in Tasks, hk[u].phase = "streaming"
      PROVE  Gathers(hk[u], st, backend[u])
  <2>1. hk[u] = hook[u] /\ Gathers(hook[u], stream, backend[u])
    BY <1>1, <1>3 DEF Follows
  <2>2. st.completed = stream.completed
    BY <1>3 DEF hk
  <2> QED
    BY <2>1, <2>2 DEF Gathers
<1>4. Fields \subseteq DOMAIN st
  BY DEF Follows
<1>5. st.task = NoTask => ~IsConclusion(st)
  BY DEF Follows
<1> QED
  BY <1>2, <1>3, <1>4, <1>5 DEF Follows, hk


\* A callback of the chain that is not cancelled: there is no other connection.
LEMMA ChainFollows ==
  ASSUME Core, NEW t \in Tasks, Live(hook[t]), NEW h, NEW st,
         h.phase # "none", Fields \subseteq DOMAIN st, st.task = t,
         \E k \in 0..backend[t].logged : Shown(st.stepLogs, k),
         IsConclusion(st) => /\ backend[t].status \in {"completed", "failed"}
                             /\ Shown(st.stepLogs, backend[t].logged),
         h.phase = "streaming" => Gathers(h, st, backend[t])
  PROVE  Follows([hook EXCEPT ![t] = h], st, backend)
<1> DEFINE hk == [hook EXCEPT ![t] = h]
<1>1. hk[t] = h /\ \A u \in Tasks \ {t} : hk[u] = hook[u]
  BY DEF Core, Chains
<1> HIDE DEF hk
<1>2. ShowsBeginning(hk, st, backend)
  BY <1>1 DEF ShowsBeginning
<1>3. ASSUME NEW u \in Tasks, hk[u].phase = "streaming" PROVE Gathers(hk[u], st, backend[u])
  <2>1. u = t
    BY <1>1, <1>3, OneConnection
  <2> QED
    BY <1>1, <1>3, <2>1
<1> QED
  BY <1>2, <1>3 DEF Follows, hk

\* Nothing is shown of a task before its connection tells it, nor afterwards of
\* what was shown before.
LEMMA GetTaskSucceedsFollows ==
  ASSUME Core, LogsFollow, mounted, NEW t \in Tasks, getTaskSucceeds(t), orphans' = {}
  PROVE  LogsFollow'
<1> DEFINE h == Connected(hook[t])
           st == INIT(stream, t)
<1>1. /\ hook[t] \in Closure /\ ClosureOK(hook[t]) /\ Types
      /\ hook[t].phase = "getTask" /\ Live(hook[t])
  BY Speaker DEF getTaskSucceeds, GoesOn, Live
<1>2. /\ h.phase = "streaming" /\ h.delivered = 0
      /\ h.retryCount = hook[t].retryCount /\ h.collected = hook[t].collected
  BY <1>1 DEF Connected, Closure
<1>3. Fields \subseteq DOMAIN st /\ st.task = t /\ st.completed = FALSE
      /\ st.stepLogs = [s \in Steps |-> <<>>]
  BY <1>1 DEF INIT, Types, Fields
<1> HIDE DEF h, st
<1>4. Collected(h) = <<>>
  BY <1>1, <1>2 DEF Collected, Closure, ClosureOK, ArraysFollow
<1>5. \A s \in DOMAIN st.stepLogs : st.stepLogs[s] = <<>> /\ OfStep(UpTo(0), s) = <<>>
  BY <1>3, OfStepEmpty DEF UpTo
<1>6. backend[t].logged \in Nat
  BY <1>1, LoggedIsNat
<1>7. Shown(st.stepLogs, 0) /\ 0 \in 0..backend[t].logged
  BY <1>5, <1>6 DEF Shown
<1>8. Gathers(h, st, backend[t])
  <2>1. ~st.completed /\ h.delivered <= backend[t].logged
    BY <1>2, <1>3, <1>6
  <2>2. \A s \in DOMAIN st.stepLogs :
          st.stepLogs[s] \o OfStep(Collected(h), s) = OfStep(UpTo(0), s)
    <3>1. <<>> \in Seq(Entries) /\ <<>> \o <<>> = <<>>
      BY ConcatEmptySeq
    <3> QED
      BY <1>4, <1>5, <3>1, OfStepEmpty
  <2>3. \A s \in DOMAIN st.stepLogs :
          st.stepLogs[s] \o OfStep(Collected(h), s) = OfStep(UpTo(h.delivered), s)
    BY <1>2, <2>2
  <2> QED
    BY <2>1, <2>3 DEF Gathers
<1>9. Follows([hook EXCEPT ![t] = h], st, backend)
  BY <1>1, <1>2, <1>3, <1>7, <1>8, ChainFollows DEF IsConclusion
<1>10. Spoke(t, h, st)
  BY GetTaskSucceedsSpeaks DEF h, st
<1> QED
  BY <1>9, <1>10, SpokenFollows

LEMMA GetTaskFailsFollows ==
  ASSUME Core, LogsFollow, mounted, NEW t \in Tasks, getTaskFails(t)
  PROVE  LogsFollow'
<1> DEFINE h == [hook[t] EXCEPT !.phase = "over"]
           st == ERROR(stream, Error("refused", t))
<1>1. /\ hook[t] \in Closure /\ Types /\ hook[t].phase = "getTask" /\ Live(hook[t])
      /\ hook \in [Tasks -> Closure]
  BY Speaker DEF getTaskFails, GoesOn, Live, Core, Chains
<1>2. h.phase = "over"
  BY <1>1 DEF Closure
<1>3. /\ DOMAIN st = DOMAIN stream /\ st.task = stream.task /\ st.stepLogs = stream.stepLogs
      /\ st.error.kind = "refused"
  BY <1>1 DEF ERROR, Error, Types, Fields
<1> HIDE DEF h, st
<1>4. \A u \in Tasks : [hook EXCEPT ![t] = h][u].phase # "streaming"
  BY <1>1, <1>2, OneConnection
<1>5. Follows(hook, stream, backend)
  BY DEF LogsFollow
<1>6. Follows([hook EXCEPT ![t] = h], st, backend)
  BY <1>1, <1>2, <1>3, <1>4, <1>5, RestFollows DEF IsConclusion
<1>7. Spoke(t, h, st)
  BY GetTaskFailsSpeaks DEF h, st
<1> QED
  BY <1>6, <1>7, SpokenFollows

LEMMA CancelledFollows ==
  ASSUME Core, LogsFollow, mounted, NEW t \in Tasks, cancelled(t)
  PROVE  LogsFollow'
<1> DEFINE st == CANCELLED(stream)
<1>1. Types /\ hook[t].phase = "streaming"
  BY DEF Core, cancelled
<1>2. /\ DOMAIN st = DOMAIN stream /\ st.task = stream.task /\ st.stepLogs = stream.stepLogs
      /\ st.completed = stream.completed /\ st.error = stream.error
  BY <1>1, CancelledKeeps
<1> HIDE DEF st
<1>3. Follows(hook, stream, backend)
  BY DEF LogsFollow
<1>4. Follows([hook EXCEPT ![t] = hook[t]], st, backend)
  BY <1>1, <1>2, <1>3, RestFollows DEF IsConclusion
<1>5. Spoke(t, hook[t], st)
  BY CancelledSpeaks DEF st
<1> QED
  BY <1>4, <1>5, SpokenFollows

\* What is collected is shown behind what was: all that was delivered.
LEMMA EmitsTheRest ==
  ASSUME Core, Follows(hook, stream, backend), mounted, NEW t \in Tasks,
         hook[t].phase = "streaming"
  PROVE  LET st == LOGS(stream, Collected(hook[t])) IN
         /\ DOMAIN st = DOMAIN stream
         /\ st.task = t /\ st.error = stream.error /\ st.completed = FALSE
         /\ Shown(st.stepLogs, hook[t].delivered)
         /\ hook[t].delivered \in 0..backend[t].logged
<1>1. Fields \subseteq DOMAIN stream
  BY DEF Follows
<1>2. PICK e : e = Collected(hook[t])
  OBVIOUS
<1>3. PICK st : st = LOGS(stream, e)
  OBVIOUS
<1>4. /\ DOMAIN st = DOMAIN stream
      /\ st.task = stream.task /\ st.error = stream.error /\ st.completed = stream.completed
      /\ DOMAIN st.stepLogs = DOMAIN stream.stepLogs
      /\ \A s \in DOMAIN st.stepLogs : st.stepLogs[s] = stream.stepLogs[s] \o OfStep(e, s)
  BY <1>1, <1>3, LogsAdd
<1>5. stream.task = t /\ hook[t] \in Closure /\ Types
  BY Speaker
<1>6. Gathers(hook[t], stream, backend[t])
  BY DEF Follows
<1>7. stream.completed = FALSE
  BY <1>6 DEF Gathers
<1>8. \A s \in DOMAIN stream.stepLogs :
        stream.stepLogs[s] \o OfStep(e, s) = OfStep(UpTo(hook[t].delivered), s)
  BY <1>2, <1>6 DEF Gathers
<1>9. hook[t].delivered \in 0..backend[t].logged
  <2>1. hook[t].delivered \in Nat /\ backend[t].logged \in Nat
    BY <1>5, LoggedIsNat DEF Closure
  <2>2. hook[t].delivered <= backend[t].logged
    BY <1>6 DEF Gathers
  <2> QED
    BY <2>1, <2>2
<1> QED
  BY <1>2, <1>3, <1>4, <1>5, <1>7, <1>8, <1>9 DEF Shown

\* The connection of t emits what it has collected.
LEMMA Emits ==
  ASSUME Core, Follows(hook, stream, backend), mounted, NEW t \in Tasks,
         hook[t].phase = "streaming", NEW h, NEW st,
         h.phase # "none", h.phase = "streaming" => ~st.completed,
         h.delivered = hook[t].delivered, Collected(h) = <<>>,
         DOMAIN st = DOMAIN stream, st.task = t,
         Shown(st.stepLogs, hook[t].delivered),
         IsConclusion(st) => /\ backend[t].status \in {"completed", "failed"}
                             /\ hook[t].delivered = backend[t].logged
  PROVE  Follows([hook EXCEPT ![t] = h], st, backend)
<1>1. /\ hook[t] \in Closure /\ Types /\ Live(hook[t])
      /\ Follows(hook, stream, backend) /\ Gathers(hook[t], stream, backend[t])
  BY Speaker DEF Follows
<1>2. /\ hook[t].delivered \in 0..Len(Log) /\ hook[t].delivered \in 0..backend[t].logged
      /\ hook[t].delivered <= backend[t].logged
  BY <1>1, EmitsTheRest DEF Closure, Gathers
<1>3. ASSUME NEW s \in DOMAIN st.stepLogs
      PROVE  st.stepLogs[s] \o OfStep(Collected(h), s) = OfStep(UpTo(hook[t].delivered), s)
  <2>1. PICK all \in Seq(Entries) : all = OfStep(UpTo(hook[t].delivered), s)
    <3>1. UpTo(hook[t].delivered) \in Seq(Entries)
      BY <1>2, UpToGrows
    <3> QED
      BY <3>1, OfStepType
  <2>2. st.stepLogs[s] = all
    BY <2>1 DEF Shown
  <2>3. all \o <<>> = all
    BY ConcatEmptySeq
  <2>4. OfStep(Collected(h), s) = <<>>
    BY OfStepEmpty
  <2> QED
    BY <2>1, <2>2, <2>3, <2>4
<1>4. h.phase = "streaming" => Gathers(h, st, backend[t])
  BY <1>2, <1>3 DEF Gathers
<1>5. Fields \subseteq DOMAIN st
  BY DEF Follows
<1>6. \E k \in 0..backend[t].logged : Shown(st.stepLogs, k)
  BY <1>2
<1>7. IsConclusion(st) => /\ backend[t].status \in {"completed", "failed"}
                          /\ Shown(st.stepLogs, backend[t].logged)
  OBVIOUS
<1> QED
  BY <1>1, <1>4, <1>5, <1>6, <1>7, ChainFollows


LEMMA CompletionFollows ==
  ASSUME Core, LogsFollow, mounted, NEW t \in Tasks, completion(t)
  PROVE  LogsFollow'
<1> DEFINE g == Emitted(hook[t])
           h == [g EXCEPT !.phase = "over"]
           e == IF backend[t].status = "failed" THEN Error("failed", t) ELSE NoError
           logs == LOGS(stream, Collected(hook[t]))
           st == EmitAndComplete(t, e)
<1>1. /\ hook[t] \in Closure /\ ClosureOK(hook[t]) /\ Follows(hook, stream, backend)
      /\ hook[t].phase = "streaming" /\ hook[t].delivered = backend[t].logged
      /\ backend[t].status \in {"completed", "failed"} /\ Fields \subseteq DOMAIN stream
  BY Speaker DEF completion, LogsFollow, Follows
<1>2. /\ g \in Closure /\ g.delivered = hook[t].delivered /\ g.retryCount = hook[t].retryCount
      /\ \A a \in Attempts : g.collected[a] = <<>>
  BY <1>1, EmittedOK
<1> HIDE DEF g
<1>3. /\ h.phase = "over" /\ h.delivered = g.delivered /\ h.retryCount = g.retryCount
      /\ h.collected = g.collected /\ g.retryCount \in Attempts
  BY <1>2 DEF Closure
<1> HIDE DEF h
<1>4. h.delivered = hook[t].delivered /\ Collected(h) = <<>>
  BY <1>2, <1>3 DEF Collected
<1>5. DOMAIN logs = DOMAIN stream /\ logs.task = t /\ Shown(logs.stepLogs, hook[t].delivered)
  BY <1>1, EmitsTheRest
<1>6. st = COMPLETED(logs, e)
  BY DEF EmitAndComplete
<1> HIDE DEF logs, e, st
<1>7. DOMAIN st = DOMAIN stream /\ st.task = t /\ st.stepLogs = logs.stepLogs
  BY <1>1, <1>5, <1>6 DEF COMPLETED, Fields
<1>8. Follows([hook EXCEPT ![t] = h], st, backend)
  BY <1>1, <1>3, <1>4, <1>5, <1>7, Emits
<1>9. Spoke(t, h, st)
  BY CompletionSpeaks DEF h, g, st, e
<1> QED
  BY <1>8, <1>9, SpokenFollows

LEMMA LoseFollows ==
  ASSUME Core, LogsFollow, mounted, NEW t \in Tasks, lose(t)
  PROVE  LogsFollow'
<1> DEFINE h == Lost(hook[t])
           logs == LOGS(stream, Collected(hook[t]))
           st == ERROR(logs, Error("lost", t))
<1>1. /\ hook[t] \in Closure /\ ClosureOK(hook[t]) /\ Follows(hook, stream, backend)
      /\ hook[t].phase = "streaming" /\ Fields \subseteq DOMAIN stream
  BY Speaker DEF lose, LogsFollow, Follows
<1>2. /\ h.phase \in {"waiting", "over"} /\ h.delivered = hook[t].delivered
      /\ h.retryCount \in Attempts /\ \A a \in Attempts : h.collected[a] = <<>>
  BY <1>1, LostOK DEF Closure
<1>3. DOMAIN logs = DOMAIN stream /\ logs.task = t /\ Shown(logs.stepLogs, hook[t].delivered)
  BY <1>1, EmitsTheRest
<1> HIDE DEF logs, h
<1>4. Collected(h) = <<>>
  BY <1>2 DEF Collected
<1>5. /\ DOMAIN st = DOMAIN stream /\ st.task = t /\ st.stepLogs = logs.stepLogs
      /\ st.error.kind = "lost"
  BY <1>1, <1>3 DEF ERROR, Error, Fields
<1> HIDE DEF st
<1>6. Follows([hook EXCEPT ![t] = h], st, backend)
  BY <1>1, <1>2, <1>3, <1>4, <1>5, Emits DEF IsConclusion
<1>7. Spoke(t, h, st)
  BY LoseSpeaks DEF h, st, logs
<1> QED
  BY <1>6, <1>7, SpokenFollows

LEMMA EmitLogsFollows ==
  ASSUME Core, LogsFollow, mounted, NEW t \in Tasks, NEW a \in Attempts, emitLogs(t, a)
  PROVE  LogsFollow'
<1> DEFINE h == Emitted(hook[t])
           st == LOGS(stream, Collected(hook[t]))
<1>1. /\ hook[t] \in Closure /\ ClosureOK(hook[t]) /\ Follows(hook, stream, backend)
      /\ hook[t].phase = "streaming"
  BY Speaker DEF emitLogs, ClosureOK, ArraysFollow, LogsFollow
<1>2. /\ h.phase = "streaming" /\ h.delivered = hook[t].delivered
      /\ h.retryCount \in Attempts /\ \A b \in Attempts : h.collected[b] = <<>>
  BY <1>1, EmittedOK DEF Closure
<1>3. /\ DOMAIN st = DOMAIN stream /\ st.task = t /\ st.completed = FALSE
      /\ Shown(st.stepLogs, hook[t].delivered)
  BY <1>1, EmitsTheRest
<1> HIDE DEF h, st
<1>4. Collected(h) = <<>>
  BY <1>2 DEF Collected
<1>5. Follows([hook EXCEPT ![t] = h], st, backend)
  BY <1>1, <1>2, <1>3, <1>4, Emits DEF IsConclusion
<1>6. Spoke(t, h, st)
  BY EmitLogsSpeaks DEF h, st
<1> QED
  BY <1>5, <1>6, SpokenFollows

\* An entry that is delivered is collected behind those before it.
LEMMA LogFollows ==
  ASSUME Core, LogsFollow, mounted, NEW t \in Tasks, log(t)
  PROVE  LogsFollow'
<1> DEFINE rc == hook[t].retryCount
           d == hook[t].delivered
<1>1. PICK before : before = hook[t].collected[rc]
  OBVIOUS
<1>2. PICK after : after = Append(before, d + 1)
  OBVIOUS
<1> DEFINE h == [hook[t] EXCEPT !.delivered = d + 1, !.collected[rc] = after]
<1>3. /\ hook[t] \in Closure /\ hook[t].phase = "streaming" /\ Types
      /\ hook' = [hook EXCEPT ![t] = h] /\ UNCHANGED <<stream, backend, mounted>>
      /\ d < backend[t].logged
  BY <1>1, <1>2 DEF log, Core, Chains, shownVars
<1>4. /\ rc \in Attempts /\ before \in Seq(Entries)
      /\ hook[t].collected \in [Attempts -> Seq(Entries)]
      /\ d \in 0..Len(Log) /\ backend[t].logged \in 0..Len(Log)
      /\ d < Len(Log) /\ d + 1 \in Entries /\ d + 1 <= backend[t].logged
  <2>1. /\ rc \in Attempts /\ hook[t].collected \in [Attempts -> Seq(Entries)]
        /\ d \in 0..Len(Log)
    BY <1>3 DEF Closure
  <2>2. backend[t].logged \in 0..Len(Log) /\ Len(Log) \in Nat
    BY <1>3, LoggedIsNat
  <2> QED
    BY <1>1, <1>3, <2>1, <2>2 DEF Entries
<1>5. /\ h.phase = "streaming" /\ h.delivered = d + 1
      /\ Collected(h) = after
  <2>1. h.retryCount = rc /\ h.collected = [hook[t].collected EXCEPT ![rc] = after]
        /\ h.phase = "streaming" /\ h.delivered = d + 1
    BY <1>3 DEF Closure
  <2> HIDE DEF h
  <2> QED
    BY <1>4, <2>1 DEF Collected
<1> HIDE DEF h
<1>6. /\ Live(hook[t]) /\ stream.task = t /\ Follows(hook, stream, backend)
      /\ stream.task # NoTask /\ Gathers(hook[t], stream, backend[t])
  BY <1>3, Speaker DEF Follows, LogsFollow
<1>7. /\ ShowsBeginning(hook, stream, backend) /\ Fields \subseteq DOMAIN stream
      /\ ~stream.completed
  BY <1>6 DEF Follows, Gathers
<1>8. ASSUME NEW s \in DOMAIN stream.stepLogs
      PROVE  stream.stepLogs[s] \o OfStep(after, s) = OfStep(UpTo(d + 1), s)
  <2> DEFINE line == IF Log[d + 1].step = s THEN <<d + 1>> ELSE <<>>
  <2>1. PICK k \in 0..backend[t].logged : stream.stepLogs[s] = OfStep(UpTo(k), s)
    BY <1>6, <1>7 DEF ShowsBeginning, Shown
  <2>2. k \in 0..Len(Log)
    BY <1>4, <2>1, LenProperties
  <2>3. stream.stepLogs[s] \in Seq(Entries)
    <3>1. UpTo(k) \in Seq(Entries)
      BY <2>2, UpToGrows
    <3> QED
      BY <2>1, <3>1, OfStepType
  <2>4. line \in Seq(Entries)
    BY <1>4
  <2>5. stream.stepLogs[s] \o OfStep(before, s) = OfStep(UpTo(d), s)
    BY <1>1, <1>6 DEF Gathers, Collected
  <2>6. OfStep(before, s) \in Seq(Entries) /\ OfStep(after, s) = OfStep(before, s) \o line
    BY <1>2, <1>4, OfStepGrows
  <2>7. OfStep(UpTo(d + 1), s) = OfStep(UpTo(d), s) \o line
    <3>1. UpTo(d) \in Seq(Entries) /\ UpTo(d + 1) = Append(UpTo(d), d + 1)
      BY <1>4, UpToGrows
    <3>2. PICK e \in Seq(Entries), x \in Entries : e = UpTo(d) /\ x = d + 1
      BY <1>4, <3>1
    <3>3. OfStep(Append(e, x), s) = OfStep(e, s) \o (IF Log[x].step = s THEN <<x>> ELSE <<>>)
      BY OfStepGrows
    <3> QED
      BY <3>1, <3>2, <3>3
  <2> HIDE DEF line
  <2>8. PICK shown \in Seq(Entries), own \in Seq(Entries), last \in Seq(Entries) :
          shown = stream.stepLogs[s] /\ own = OfStep(before, s) /\ last = line
    BY <2>3, <2>4, <2>6
  <2>9. (shown \o own) \o last = shown \o (own \o last)
    BY ConcatAssociative
  <2> QED
    BY <2>5, <2>6, <2>7, <2>8, <2>9
<1>9. Gathers(h, stream, backend[t])
  <2>1. \A s \in DOMAIN stream.stepLogs :
          stream.stepLogs[s] \o OfStep(Collected(h), s) = OfStep(UpTo(h.delivered), s)
    BY <1>5, <1>8
  <2>2. h.delivered <= backend[t].logged
    BY <1>4, <1>5
  <2> QED
    BY <1>7, <2>1, <2>2 DEF Gathers
<1>10. /\ \E k \in 0..backend[t].logged : Shown(stream.stepLogs, k)
       /\ ~IsConclusion(stream)
  BY <1>6, <1>7 DEF ShowsBeginning, IsConclusion
<1>11. Follows([hook EXCEPT ![t] = h], stream, backend)
  BY <1>5, <1>6, <1>7, <1>9, <1>10, ChainFollows
<1> QED
  BY <1>3, <1>11 DEF LogsFollow

LEMMA SilentFollows ==
  ASSUME Core, LogsFollow, mounted, NEW t \in Tasks, getTaskIgnored(t) \/ reconnect(t)
  PROVE  LogsFollow'
<1>1. hook[t] \in Closure /\ hook \in [Tasks -> Closure] /\ Types
      /\ Follows(hook, stream, backend)
  BY DEF Core, Chains, LogsFollow
<1>2. PICK h : /\ hook' = [hook EXCEPT ![t] = h] /\ h.phase \in {"getTask", "over"}
               /\ hook[t].phase # "none"
  <2>1. CASE getTaskIgnored(t)
    <3> DEFINE h == [hook[t] EXCEPT !.phase = "over", !.retryCount = 1]
    <3>1. hook' = [hook EXCEPT ![t] = h] /\ h.phase = "over" /\ hook[t].phase # "none"
      BY <1>1, <2>1 DEF getTaskIgnored, Closure
    <3> QED
      BY <3>1
  <2>2. CASE reconnect(t)
    <3> DEFINE h == [hook[t] EXCEPT !.retryCount = hook[t].retryCount + 1, !.phase = "getTask"]
    <3>1. hook' = [hook EXCEPT ![t] = h] /\ h.phase = "getTask" /\ hook[t].phase # "none"
      BY <1>1, <2>2 DEF reconnect, Closure
    <3> QED
      BY <3>1
  <2> QED
    BY <2>1, <2>2
<1>3. UNCHANGED <<stream, backend, mounted>>
  BY DEF getTaskIgnored, reconnect, shownVars
<1>4. Follows([hook EXCEPT ![t] = h], stream, backend)
  BY <1>1, <1>2, RestFollows
<1> QED
  BY <1>2, <1>3, <1>4 DEF LogsFollow


\* The backend logs and ends its tasks, and no task any more that has ended.
LEMMA BackendFollows ==
  ASSUME Core, LogsFollow, mounted, NEW t \in Tasks, progress(t) \/ finish(t)
  PROVE  LogsFollow'
<1>1. PICK task : /\ Backend(t, task)
                  /\ task.logged = backend[t].logged \/ task.logged = backend[t].logged + 1
  <2>1. backend[t] \in BackendTask
    BY DEF Core, Types
  <2>2. CASE progress(t)
    <3> DEFINE task == [backend[t] EXCEPT !.logged = backend[t].logged + 1]
    <3>1. Backend(t, task) /\ task.logged = backend[t].logged + 1
      BY <2>1, <2>2 DEF progress, BackendTask
    <3> QED
      BY <3>1
  <2>3. CASE finish(t)
    <3> DEFINE good == [backend[t] EXCEPT !.status = "completed"]
               bad == [backend[t] EXCEPT !.status = "failed"]
    <3>1. good.logged = backend[t].logged /\ bad.logged = backend[t].logged
      BY <2>1 DEF BackendTask
    <3>2. Backend(t, good) \/ Backend(t, bad)
      BY <2>3 DEF finish
    <3> QED
      BY <3>1, <3>2
  <2> QED
    BY <2>2, <2>3
<1>2. /\ backend[t].status = "processing" /\ UNCHANGED <<stream, hook, mounted>>
      /\ backend'[t] = task /\ \A u \in Tasks \ {t} : backend'[u] = backend[u]
  BY <1>1 DEF Backend, Core, Types, shownVars
<1>3. \A u \in Tasks : backend[u].logged \in Nat
  BY LoggedIsNat DEF Core
<1>4. \A u \in Tasks : backend[u].logged <= backend'[u].logged /\ backend'[u].logged \in Nat
  <2> SUFFICES ASSUME NEW u \in Tasks
               PROVE  backend[u].logged <= backend'[u].logged /\ backend'[u].logged \in Nat
    OBVIOUS
  <2>1. PICK n \in Nat : n = backend[u].logged
    BY <1>3
  <2>2. backend'[u].logged = n \/ backend'[u].logged = n + 1
    BY <1>1, <1>2, <2>1
  <2> QED
    BY <2>1, <2>2
<1>5. \A u \in Tasks : backend[u].status \in {"completed", "failed"} => backend'[u] = backend[u]
  BY <1>2
<1>6. PICK be : be = backend'
  OBVIOUS
<1>7. Follows(hook, stream, be)
  BY <1>4, <1>5, <1>6, AheadFollows DEF LogsFollow
<1> QED
  BY <1>2, <1>6, <1>7 DEF LogsFollow

\* A step in front of which the effects run, if at all.
LEMMA RunFollows ==
  ASSUME Core, LogsFollow, mounted, hook' \in {hook, EffectsRun(hook)},
         UNCHANGED stream,
         \A t \in Tasks : hook[t].phase # "none" => backend'[t] = backend[t]
  PROVE  LogsFollow'
<1>1. Follows(hook, stream, backend) /\ Chains(hook, effectTask, stream.task)
  BY DEF LogsFollow, Core
<1>2. PICK be, hk : be = backend' /\ hk = hook'
  OBVIOUS
<1>3. \A t \in Tasks : /\ backend[t].logged \in Nat
                       /\ backend[t].logged <= backend[t].logged
  BY LoggedIsNat DEF Core
<1>4. \A t \in Tasks : hook[t].phase # "none" =>
        /\ backend[t].logged <= be[t].logged /\ be[t].logged \in Nat
        /\ backend[t].status \in {"completed", "failed"} => be[t] = backend[t]
  BY <1>2, <1>3
<1>5. Follows(hook, stream, be)
  BY <1>1, <1>4, AheadFollows
<1>6. Follows(EffectsRun(hook), stream, be)
  BY <1>1, <1>5, FlushFollows
<1>7. hk \in {hook, EffectsRun(hook)}
  BY <1>2
<1>8. Follows(hk, stream, be)
  BY <1>5, <1>6, <1>7
<1> QED
  BY <1>2, <1>8 DEF LogsFollow

\* The logs follow through every step that opens no connection behind its cleanup.
LEMMA NextLogs ==
  ASSUME Core, LogsFollow, [Next]_vars, orphans' = {}
  PROVE  LogsFollow'
<1> SUFFICES ASSUME mounted PROVE LogsFollow'
  <2>1. mounted' => mounted
    <3>1. ASSUME NEW t \in Tasks, Dispatching(t) \/ (\E a \in Attempts : emitLogs(t, a))
                 \/ Silent(t) \/ progress(t) \/ finish(t)
          PROVE  mounted' = mounted
      BY <3>1 DEF Dispatching, Silent, getTaskSucceeds, getTaskFails, cancelled, completion,
         lose, emitLogs, getTaskIgnored, log, reconnect, progress, finish, Backend,
         Dispatch, shownVars
    <3>2. CASE UNCHANGED vars
      BY <3>2 DEF vars, streamVars, shownVars
    <3>3. CASE \E t \in Tasks : scaffoldResolves(t) \/ scaffoldRejects(t)
      BY <3>3 DEF scaffoldResolves, scaffoldRejects, Settle
    <3>4. CASE flushEffects \/ rerender \/ execute \/ reset \/ unmount
      BY <3>4 DEF flushEffects, rerender, execute, reset, unmount
    <3> QED
      BY <3>1, <3>2, <3>3, <3>4 DEF Next, Step, StreamDispatch, StreamStep
  <2> QED
    BY <2>1 DEF LogsFollow
<1>1. ASSUME NEW t \in Tasks, StreamDispatch(Dispatching(t)) PROVE LogsFollow'
  BY <1>1, GetTaskSucceedsFollows, GetTaskFailsFollows, CancelledFollows, CompletionFollows,
     LoseFollows DEF StreamDispatch, Dispatching
<1>2. ASSUME NEW t \in Tasks, NEW a \in Attempts, StreamDispatch(emitLogs(t, a))
      PROVE  LogsFollow'
  BY <1>2, EmitLogsFollows DEF StreamDispatch
<1>3. ASSUME NEW t \in Tasks, StreamStep(Silent(t)) \/ StreamStep(progress(t) \/ finish(t))
      PROVE  LogsFollow'
  BY <1>3, SilentFollows, LogFollows, BackendFollows DEF StreamStep, Silent
<1>4. ASSUME NEW t \in Tasks, scaffoldResolves(t) PROVE LogsFollow'
  <2>1. hook[t].phase = "none"
    BY <1>4, AtRest DEF scaffoldResolves, Settle, Unanswered
  <2>2. \A u \in Tasks \ {t} : backend'[u] = backend[u]
    BY <1>4, AtRest DEF scaffoldResolves, Types
  <2>3. stream' = stream /\ hook' = EffectsRun(hook)
    BY <1>4 DEF scaffoldResolves, Settle, SetterRenders, RunEffects
  <2> QED
    BY <2>1, <2>2, <2>3, RunFollows
<1>5. ASSUME NEW t \in Tasks, scaffoldRejects(t) PROVE LogsFollow'
  <2>1. stream' = stream /\ backend' = backend /\ hook' \in {hook, EffectsRun(hook)}
    BY <1>5 DEF scaffoldRejects, Settle, SetterRenders, RunEffects, NothingRenders
  <2> QED
    BY <2>1, RunFollows
<1>6. CASE flushEffects \/ rerender \/ execute \/ reset \/ unmount
  <2>1. stream' = stream /\ backend' = backend /\ hook' = EffectsRun(hook)
    BY <1>6 DEF flushEffects, rerender, execute, reset, unmount, SetterRenders, RunEffects
  <2> QED
    BY <2>1, RunFollows
<1>7. CASE UNCHANGED vars
  <2>1. stream' = stream /\ backend' = backend /\ hook' = hook
    BY <1>7 DEF vars, streamVars
  <2> QED
    BY <2>1, RunFollows
<1> QED
  BY <1>1, <1>2, <1>3, <1>4, <1>5, <1>6, <1>7 DEF Next, Step

LEMMA InitLogs == Init => LogsFollow
<1> SUFFICES ASSUME Init PROVE LogsFollow
  OBVIOUS
<1>1. /\ Fields \subseteq DOMAIN stream /\ stream.task = NoTask /\ stream.completed = FALSE
      /\ \A t \in Tasks : hook[t].phase = "none"
  BY DEF Init, StreamInit, NoStream, NoClosure, Fields
<1> QED
  BY <1>1 DEF LogsFollow, Follows, IsConclusion

\* The logs that are shown of a task are a beginning of its logs, in order, none
\* twice and none left out, across reconnects and with the intervals of several
\* connections running; and they are all there when the task is shown to be over.
THEOREM LogsAreTheTasks == Spec => []ShowsTheTasksLogs
<1> DEFINE I == orphans = {} => Core /\ LogsFollow
<1>1. Init => I
  BY InitInv, InitLogs
<1>2. I /\ [Next]_vars => I'
  BY OrphansStay, NextInv, NextLogs
<1>3. I => ShowsTheTasksLogs
  <2> SUFFICES ASSUME LogsFollow, mounted PROVE ShowsTheTasksLogs
    BY DEF ShowsTheTasksLogs
  <2>1. \A k : Shown(stream.stepLogs, k) => ShownUpTo(k)
    BY DEF Shown, ShownUpTo, UpTo
  <2> QED
    BY <2>1 DEF LogsFollow, Follows, ShowsBeginning, ShowsTheTasksLogs, IsConclusion
<1> QED
  BY <1>1, <1>2, <1>3, PTL DEF Spec


-----------------------------------------------------------------------------
(* What is pending goes on, and comes to an end.                           *)

Underway(t) == hook[t].phase \in {"getTask", "streaming", "waiting"}

\* The chain of a task waits for an answer, for its timer, or for an event that
\* the backend has or is working for, and nobody has cancelled it.
CanGoOn(t) ==
    /\ Underway(t) /\ ~hook[t].didCancel
    /\ backend[t].status # "none"
    /\ hook[t].phase = "streaming" => hook[t].delivered \in 0..backend[t].logged

\* The effect that begins a chain for the task is due.
Begins(t) == taskId = t /\ effectTask # t

\* The effect that turns what is shown into a status is due.
Tells == due /\ (stream.error # NoError \/ Succeeded)

\* A run that is pending waits for the scaffolder's answer to the last call of
\* execute, for an effect that is due, or shows a task whose chain can go on.
PendingIsOwed ==
    taskStatus = "pending" /\ state # "error" /\ mounted /\ orphans = {} =>
        \/ latest \in inFlight
        \/ Tells
        \/ \E t \in Tasks : Begins(t) \/ (taskId = t /\ CanGoOn(t))

\* The task that is shown is shown to its end, its connection is lost for the last
\* time, or its chain can go on.
ShownIsOwed ==
    orphans = {} =>
        \A t \in Tasks :
            taskId = t => \/ Concluded(t) \/ GaveUp(t)
                          \/ refusals > 0
                          \/ Begins(t) \/ CanGoOn(t)

\* What is left of a task: attempts, what the chain of callbacks still goes through
\* in this one, events, and what the backend has to do.  A chain that is cancelled
\* has its timer or its request in front of it, and nothing behind.
AttemptsLeft(h) ==
    IF h.phase = "none" THEN Retries + 1
    ELSE IF h.didCancel THEN 0
    ELSE Retries + 1 - h.retryCount
PhasesLeft(h) ==
    CASE h.phase = "getTask"   -> IF h.didCancel THEN 1 ELSE 3
      [] h.phase = "streaming" -> 2
      [] h.phase = "waiting"   -> IF h.didCancel THEN 2 ELSE 1
      [] OTHER                 -> 0
EventsLeft(h) == IF h.phase = "streaming" THEN Len(Log) - h.delivered ELSE 0
WorkLeft(task) ==
    CASE task.status = "none"       -> Len(Log) + 2
      [] task.status = "processing" -> Len(Log) + 1 - task.logged
      [] OTHER                      -> 0

Left(h, task) == <<AttemptsLeft(h), PhasesLeft(h), EventsLeft(h), WorkLeft(task)>>

LeftIsCounted ==
    orphans = {} => \A t \in Tasks : Left(hook[t], backend[t]) \in Nat \X Nat \X Nat \X Nat

\* Less is left where the two differ first.
Less(m, n) == \E k \in 1..4 : m[k] < n[k] /\ \A i \in 1..(k - 1) : m[i] = n[i]

\* A callback of a task's chain, or a step of the backend for it, leaves less of
\* the task, and nothing else that happens leaves more of it.
ComesToAnEnd ==
    [][orphans' = {} =>
        \A t \in Tasks :
          \/ Less(Left(hook'[t], backend'[t]), Left(hook[t], backend[t]))
          \/ /\ Left(hook'[t], backend'[t]) = Left(hook[t], backend[t])
             /\ ~Chain(t) /\ ~progress(t) /\ ~finish(t)]_vars

\* The task that is shown is in the backend; an error of a refusal is the last of
\* its task; and where a chain is over, the status and the stream have told, or the
\* effect that tells is due.
Owed ==
    /\ refusals \in Nat
    /\ \A t \in Tasks :
         /\ taskId = t \/ hook[t].phase # "none" => backend[t].status # "none"
         /\ stream.error.kind = "refused" /\ stream.error.task = t => hook[t].phase = "over"
         /\ taskId = t => \/ Begins(t) \/ Underway(t) \/ Concluded(t) \/ GaveUp(t)
                          \/ refusals > 0
    /\ taskStatus = "pending" /\ state # "error" /\ mounted =>
          latest \in inFlight \/ Tells \/ \E t \in Tasks : Begins(t) \/ (taskId = t /\ Underway(t))

LEMMA InitOwed == Init => Owed
<1> SUFFICES ASSUME Init PROVE Owed
  OBVIOUS
<1>1. /\ refusals = 0 /\ taskId = NoTask /\ taskStatus = "idle"
      /\ stream.error.kind = "none" /\ \A t \in Tasks : hook[t].phase = "none"
  BY DEF Init, StreamInit, NoStream, NoError, NoClosure
<1> QED
  BY <1>1 DEF Owed

\* A callback that dispatches nothing ends no chain that is shown.
LEMMA SilentOwed ==
  ASSUME Core, Owed, NEW t \in Tasks, Silent(t),
         UNCHANGED <<due, taskStatus, state, inFlight, latest>>
  PROVE  Owed'
<1>1. /\ UNCHANGED <<taskId, effectTask, mounted, stream, backend, refusals>>
      /\ Underway(t) /\ hook \in [Tasks -> Closure]
  BY DEF Silent, getTaskIgnored, log, reconnect, shownVars, boundVars, Underway, Core, Chains
<1>2. /\ \A u \in Tasks \ {t} : hook'[u] = hook[u]
      /\ hook'[t].phase \in {"getTask", "streaming", "over"}
      /\ hook'[t].phase = "over" => t # effectTask
  <2>1. CASE getTaskIgnored(t)
    <3>1. hook[t].didCancel
      BY <2>1 DEF getTaskIgnored, GoesOn
    <3>2. t # effectTask
      BY <3>1 DEF Core, Chains, Chained
    <3> QED
      BY <1>1, <2>1, <3>2 DEF getTaskIgnored, Closure
  <2>2. CASE log(t)
    BY <1>1, <2>2 DEF log, Closure
  <2>3. CASE reconnect(t)
    BY <1>1, <2>3 DEF reconnect, Closure
  <2> QED
    BY <2>1, <2>2, <2>3 DEF Silent
<1>3. \A u \in Tasks : u = effectTask /\ Underway(u) => Underway(u)'
  BY <1>2 DEF Underway
<1>4. \A u \in Tasks : /\ hook[u].phase = "over" => hook'[u].phase = "over"
                       /\ hook'[u].phase # "none" => hook[u].phase # "none"
  BY <1>1, <1>2 DEF Underway
<1>5. \A u \in Tasks : /\ Begins(u)' <=> Begins(u)
                       /\ Concluded(u)' <=> Concluded(u)
                       /\ GaveUp(u)' <=> GaveUp(u)
  BY <1>1 DEF Begins, Concluded, GaveUp
<1>6. Tells' <=> Tells
  BY <1>1 DEF Tells, Succeeded
<1> QED
  BY <1>1, <1>3, <1>4, <1>5, <1>6 DEF Owed, Begins

\* Nothing is rendered and no chain moves.
LEMMA StillOwed ==
  ASSUME Owed,
         UNCHANGED <<taskId, effectTask, mounted, stream, hook, refusals, due, taskStatus,
                     latest>>,
         \A t \in Tasks : backend[t].status # "none" => backend'[t].status # "none",
         mounted /\ state' # "error" => state # "error",
         mounted /\ state' # "error" /\ latest \in inFlight =>
            latest \in inFlight' \/ Tells \/ \E t \in Tasks : Begins(t)
  PROVE  Owed'
<1>1. \A u \in Tasks : /\ Begins(u)' <=> Begins(u)
                       /\ Concluded(u)' <=> Concluded(u)
                       /\ GaveUp(u)' <=> GaveUp(u)
                       /\ Underway(u)' <=> Underway(u)
  BY DEF Begins, Concluded, GaveUp, Underway
<1>2. Tells' <=> Tells
  BY DEF Tells, Succeeded
<1> QED
  BY <1>1, <1>2 DEF Owed

\* The effects run in front of a render.
LEMMA RunOwed ==
  ASSUME Core, Owed, RunEffects, NEW s, Effect(s), UNCHANGED <<stream, refusals>>,
         \A t \in Tasks : backend[t].status # "none" => backend'[t].status # "none",
         \/ taskId' \in {taskId, NoTask}
         \/ /\ taskId' \in Tasks /\ taskId' # taskId
            /\ hook[taskId'].phase = "none" /\ backend'[taskId'].status # "none",
         taskStatus' = "pending" /\ state' # "error" /\ mounted' =>
            \/ latest' \in inFlight'
            \/ taskId' # taskId /\ taskId' \in Tasks
            \/ /\ taskId' = taskId /\ s = taskStatus /\ state # "error" /\ mounted
               /\ latest \in inFlight => latest' \in inFlight'
  PROVE  Owed'
<1>1. hook' = EffectsRun(hook) /\ effectTask' = taskId
  BY DEF RunEffects
<1>2. Chains(hook, effectTask, stream.task) /\ Types
  BY DEF Core
<1>3. \A t \in Tasks : /\ hook[t].phase = "over" => hook'[t].phase = "over"
                       /\ taskId = effectTask => hook'[t] = hook[t]
                       /\ Begins(t) => hook'[t].phase = "getTask"
                       /\ hook'[t].phase # "none" => hook[t].phase # "none" \/ t = taskId
  <2> SUFFICES ASSUME NEW t \in Tasks
               PROVE  /\ hook[t].phase = "over" => hook'[t].phase = "over"
                      /\ taskId = effectTask => hook'[t] = hook[t]
                      /\ Begins(t) => hook'[t].phase = "getTask"
                      /\ hook'[t].phase # "none" => hook[t].phase # "none" \/ t = taskId
    OBVIOUS
  <2>1. /\ hook[t].phase = "over" => hook'[t].phase = "over"
        /\ taskId = effectTask => hook'[t] = hook[t]
    BY <1>1, <1>2, FlushKeeps
  <2>2. Begins(t) => hook'[t].phase = "getTask"
    BY <1>1, BegunOK DEF Begins, EffectsRun, Begun
  <2>3. ASSUME t # taskId, hook[t].phase = "none" PROVE hook'[t].phase = "none"
    <3>1. t # effectTask
      BY <1>2, <2>3 DEF Chains, Chained
    <3> QED
      BY <1>1, <2>3, <3>1 DEF EffectsRun
  <2> QED
    BY <2>1, <2>2, <2>3
<1>4. \A t \in Tasks : /\ Concluded(t)' <=> Concluded(t)
                       /\ GaveUp(t)' <=> GaveUp(t)
  BY DEF Concluded, GaveUp
<1>5. \A t \in Tasks : taskId = t /\ (Begins(t) \/ Underway(t)) => Underway(t)'
  BY <1>3 DEF Underway, Begins
<1>6. \A t \in Tasks : taskId' = t /\ taskId' # taskId => Begins(t)'
  BY <1>1 DEF Begins
<1>7. \A t \in Tasks : taskId' = t => \/ Begins(t)' \/ Underway(t)' \/ Concluded(t)'
                                      \/ GaveUp(t)' \/ refusals' > 0
  BY <1>4, <1>5, <1>6 DEF Owed
<1>8. \A t \in Tasks : taskId' = t \/ hook'[t].phase # "none" => backend'[t].status # "none"
  BY <1>3 DEF Owed
<1>9. ASSUME taskStatus' = "pending", state' # "error", mounted'
      PROVE  \/ latest' \in inFlight' \/ Tells'
             \/ \E t \in Tasks : Begins(t)' \/ (taskId' = t /\ Underway(t)')
  <2>1. CASE taskId' # taskId /\ taskId' \in Tasks
    BY <1>6, <2>1
  <2>2. CASE /\ taskId' = taskId /\ s = taskStatus /\ state # "error" /\ mounted
             /\ latest \in inFlight => latest' \in inFlight'
    <3>1. ~Tells /\ taskStatus = "pending"
      BY <1>9, <2>2 DEF Effect, Tells
    <3>2. latest \in inFlight \/ \E t \in Tasks : Begins(t) \/ (taskId = t /\ Underway(t))
      BY <2>2, <3>1 DEF Owed
    <3> QED
      BY <1>5, <2>2, <3>2 DEF Begins
  <2> QED
    BY <1>9, <2>1, <2>2
<1> QED
  BY <1>3, <1>7, <1>8, <1>9 DEF Owed

\* What a callback of the chain of t leaves owed: when the chain is over the effect
\* is due that tells, and the stream or a refusal says why.
Leaves(t, h, shown) ==
    /\ h.phase \in {"getTask", "streaming", "waiting", "over"}
    /\ refusals' \in {refusals, refusals + 1}
    /\ mounted /\ shown.error.kind = "refused" =>
          shown.error = stream.error \/ (shown.error.task = t /\ h.phase = "over")
    /\ mounted /\ h.phase = "over" =>
          /\ shown.error # stream.error \/ shown.completed # stream.completed
          /\ shown.error # NoError \/ shown.completed
          /\ \/ refusals' = refusals + 1
             \/ /\ shown.task = t /\ shown.completed
                /\ shown.error.kind \in {"none", "failed"}
             \/ shown.error = [kind |-> "lost", task |-> t, attempt |-> Retries + 1]

LEMMA SpokeOwed ==
  ASSUME Core, Owed, NEW t \in Tasks, NEW h, NEW shown, Spoke(t, h, shown), Told,
         Leaves(t, h, shown), UNCHANGED <<state, inFlight, latest>>
  PROVE  Owed'
<1> DEFINE hk == [hook EXCEPT ![t] = h]
<1>1. /\ Live(hook[t]) /\ t = effectTask /\ Types /\ mounted \in BOOLEAN /\ backend' = backend
      /\ refusals \in Nat /\ refusals' \in Nat /\ (refusals > 0 => refusals' > 0)
      /\ taskId' = taskId /\ mounted' = mounted
  BY Speaker DEF Spoke, Dispatch, Types, Owed, Leaves
<1>2. Chains(hk, effectTask, IF mounted THEN shown.task ELSE stream.task)
      /\ hk[t] = h /\ \A u \in Tasks \ {t} : hk[u] = hook[u]
  <2>1. PICK st : st = [task |-> IF mounted THEN shown.task ELSE stream.task]
    OBVIOUS
  <2>2. st.task = IF mounted THEN shown.task ELSE stream.task
    BY <2>1
  <2> QED
    BY <2>2, SpokenChains
<1> HIDE DEF hk
<1>3. \A u \in Tasks : hook[u].phase = "over" => u # t /\ hk[u].phase = "over"
  BY <1>1, <1>2 DEF Live
<1>4. CASE ~mounted
  <2>1. /\ UNCHANGED <<stream, effectTask, due, taskStatus>> /\ hook' = hk /\ taskId = NoTask
    BY <1>1, <1>4 DEF Spoke, Dispatch, Rendered, Told, Types, hk
  <2>2. \A u \in Tasks : hk[u].phase # "none" => hook[u].phase # "none"
    BY <1>1, <1>2 DEF Live
  <2>3. \A u \in Tasks : taskId # u
    BY <2>1
  <2>4. \A u \in Tasks : hook'[u].phase # "none" => backend'[u].status # "none"
    BY <1>1, <2>1, <2>2 DEF Owed
  <2>5. \A u \in Tasks :
          stream'.error.kind = "refused" /\ stream'.error.task = u => hook'[u].phase = "over"
    BY <1>3, <2>1 DEF Owed
  <2> QED
    BY <1>1, <1>4, <2>3, <2>4, <2>5 DEF Owed
<1>5. CASE mounted
  <2>1. stream' = shown /\ effectTask' = taskId /\ hook' = EffectsRun(hk)
    BY <1>5 DEF Spoke, Dispatch, Rendered, hk
  <2>2. Chains(hk, effectTask, shown.task)
    BY <1>2, <1>5
  <2>3. \A u \in Tasks : /\ hk[u].phase = "over" => hook'[u].phase = "over"
                         /\ taskId = effectTask => hook'[u] = hk[u]
    BY <2>1, <2>2, FlushKeeps
  <2>4. ASSUME NEW u \in Tasks, Begins(u) PROVE Underway(u)'
    <3>1. hook'[u].phase = "getTask"
      BY <2>1, <2>4, BegunOK DEF Begins, EffectsRun, Begun
    <3> QED
      BY <3>1 DEF Underway
  <2>5. \A u \in Tasks : taskId = u \/ hook'[u].phase # "none" => backend'[u].status # "none"
    <3> SUFFICES ASSUME NEW u \in Tasks, hook'[u].phase # "none", taskId # u
                 PROVE  hook[u].phase # "none"
      BY <1>1 DEF Owed
    <3>1. CASE u = t
      BY <1>1, <3>1 DEF Live
    <3>2. CASE u # t
      <4>1. hook'[u] = hook[u]
        BY <1>1, <1>2, <2>1, <3>2 DEF EffectsRun
      <4> QED
        BY <4>1
    <3> QED
      BY <3>1, <3>2
  <2>6. ASSUME NEW u \in Tasks, shown.error.kind = "refused", shown.error.task = u
        PROVE  hook'[u].phase = "over"
    <3>1. CASE shown.error = stream.error
      BY <1>3, <2>3, <2>6, <3>1 DEF Owed
    <3>2. CASE shown.error # stream.error
      BY <1>2, <1>5, <2>3, <2>6, <3>2 DEF Leaves
    <3> QED
      BY <3>1, <3>2
  <2>7. ASSUME h.phase = "over" PROVE Tells'
    <3>1. DepsChange
      BY <1>5, <2>1, <2>7 DEF Leaves, DepsChange, deps
    <3>2. due'
      BY <1>5, <3>1 DEF Told, Render
    <3> QED
      BY <1>5, <2>1, <2>7, <3>2 DEF Leaves, Tells, Succeeded
  <2>8. ASSUME NEW u \in Tasks, taskId = u
        PROVE  Underway(u)' \/ Concluded(u)' \/ GaveUp(u)' \/ refusals' > 0
    <3>1. CASE u # t
      BY <1>1, <2>4, <2>8, <3>1 DEF Begins
    <3>2. CASE u = t
      <4>1. hook'[t] = h
        BY <1>1, <1>2, <2>3, <2>8, <3>2
      <4>2. CASE h.phase # "over"
        BY <3>2, <4>1, <4>2 DEF Leaves, Underway
      <4>3. CASE h.phase = "over"
        <5>1. refusals' = refusals + 1 => refusals' > 0
          BY <1>1
        <5> QED
          BY <1>5, <2>1, <3>2, <4>3, <5>1 DEF Leaves, Concluded, GaveUp
      <4> QED
        BY <4>2, <4>3
    <3> QED
      BY <3>1, <3>2
  <2>9. ASSUME taskStatus' = "pending", state # "error"
        PROVE  \/ latest \in inFlight \/ Tells'
               \/ \E u \in Tasks : taskId = u /\ Underway(u)'
    <3>1. Effect(taskStatus)
      BY <1>5 DEF Told, Render
    <3>2. taskStatus = "pending" /\ ~Tells
      BY <2>9, <3>1 DEF Effect, Tells
    <3>3. CASE \E u \in Tasks : Begins(u)
      BY <2>4, <3>3 DEF Begins
    <3>4. CASE \E u \in Tasks : taskId = u /\ Underway(u) /\ ~Begins(u)
      <4>1. taskId = t /\ effectTask = t /\ hook'[t] = h
        BY <1>1, <1>2, <2>3, <3>4 DEF Begins
      <4> QED
        BY <2>7, <4>1 DEF Leaves, Underway
    <3> QED
      BY <1>5, <2>9, <3>2, <3>3, <3>4 DEF Owed
  <2> QED
    BY <1>1, <2>1, <2>5, <2>6, <2>8, <2>9 DEF Owed
<1> QED
  BY <1>1, <1>4, <1>5


LEMMA GetTaskSucceedsLeaves ==
  ASSUME Core, Owed, NEW t \in Tasks, getTaskSucceeds(t)
  PROVE  Leaves(t, Connected(hook[t]), INIT(stream, t))
<1>1. hook[t] \in Closure /\ Types
  BY Speaker
<1>2. Connected(hook[t]).phase = "streaming"
  BY <1>1 DEF Connected, Closure
<1>3. INIT(stream, t).error.kind = "none"
  <2>1. INIT(stream, t).error = NoError
    BY <1>1, InitSets
  <2> QED
    BY <2>1 DEF NoError
<1>4. refusals' = refusals
  BY DEF getTaskSucceeds, boundVars
<1> QED
  BY <1>2, <1>3, <1>4 DEF Leaves

LEMMA GetTaskFailsLeaves ==
  ASSUME Core, Owed, NEW t \in Tasks, getTaskFails(t)
  PROVE  Leaves(t, [hook[t] EXCEPT !.phase = "over"], ERROR(stream, Error("refused", t)))
<1> DEFINE h == [hook[t] EXCEPT !.phase = "over"]
           shown == ERROR(stream, Error("refused", t))
<1>1. hook[t] \in Closure /\ Types /\ hook[t].phase = "getTask" /\ refusals' = refusals + 1
  BY Speaker DEF getTaskFails
<1>2. h.phase = "over"
  BY <1>1 DEF Closure
<1>3. shown.error = Error("refused", t)
  BY <1>1 DEF ERROR, Types, Fields
<1> HIDE DEF h, shown
<1>4. shown.error.kind = "refused" /\ shown.error.task = t /\ shown.error # NoError
  BY <1>3, ErrorIsError DEF Error
<1>5. shown.error # stream.error
  BY <1>1, <1>4 DEF Owed
<1> QED
  BY <1>1, <1>2, <1>4, <1>5 DEF Leaves, h, shown

LEMMA CancelledLeaves ==
  ASSUME Core, Owed, NEW t \in Tasks, cancelled(t)
  PROVE  Leaves(t, hook[t], CANCELLED(stream))
<1>1. Types /\ hook[t].phase = "streaming" /\ refusals' = refusals
  BY Speaker DEF cancelled, boundVars
<1>2. CANCELLED(stream).error = stream.error
  BY <1>1, CancelledKeeps
<1> QED
  BY <1>1, <1>2 DEF Leaves

LEMMA EmitLogsLeaves ==
  ASSUME Core, Owed, NEW t \in Tasks, NEW a \in Attempts, emitLogs(t, a)
  PROVE  Leaves(t, Emitted(hook[t]), LOGS(stream, Collected(hook[t])))
<1>1. /\ hook[t] \in Closure /\ ClosureOK(hook[t]) /\ Types /\ refusals' = refusals
      /\ hook[t].phase = "streaming"
  BY Speaker DEF emitLogs, boundVars, ClosureOK, ArraysFollow
<1>2. Emitted(hook[t]).phase = "streaming"
  BY <1>1, EmittedOK
<1>3. LOGS(stream, Collected(hook[t])).error = stream.error
  BY <1>1, LogsKeep
<1> QED
  BY <1>1, <1>2, <1>3 DEF Leaves

\* The connection of the task that is shown ends: it is not shown as completed
\* before.
LEMMA CompletionLeaves ==
  ASSUME Core, LogsFollow, Owed, NEW t \in Tasks, completion(t)
  PROVE  Leaves(t, [Emitted(hook[t]) EXCEPT !.phase = "over"],
                EmitAndComplete(t, IF backend[t].status = "failed"
                                   THEN Error("failed", t) ELSE NoError))
<1> DEFINE h == [Emitted(hook[t]) EXCEPT !.phase = "over"]
           e == IF backend[t].status = "failed" THEN Error("failed", t) ELSE NoError
           st == LOGS(stream, Collected(hook[t]))
           shown == EmitAndComplete(t, e)
<1>1. /\ hook[t] \in Closure /\ ClosureOK(hook[t]) /\ Types /\ refusals' = refusals
      /\ hook[t].phase = "streaming" /\ (mounted => stream.task = t /\ ~stream.completed)
  BY Speaker DEF completion, boundVars, LogsFollow, Follows, Gathers
<1>2. h.phase = "over"
  BY <1>1, EmittedOK DEF Closure
<1>3. DOMAIN st = DOMAIN stream /\ st.task = stream.task
  BY <1>1, LogsKeep
<1>4. shown = COMPLETED(st, e)
  BY DEF EmitAndComplete
<1>5. e.kind \in {"failed", "none"}
  BY DEF Error, NoError
<1> HIDE DEF st, e, h, shown
<1>6. shown.task = stream.task /\ shown.error = e /\ shown.completed = TRUE
  BY <1>1, <1>3, <1>4 DEF COMPLETED, Types, Fields
<1> QED
  BY <1>1, <1>2, <1>5, <1>6 DEF Leaves, h, e, shown

LEMMA LoseLeaves ==
  ASSUME Core, LogsFollow, Owed, NEW t \in Tasks, lose(t)
  PROVE  Leaves(t, Lost(hook[t]),
                ERROR(LOGS(stream, Collected(hook[t])), Error("lost", t)))
<1> DEFINE h == Lost(hook[t])
           st == LOGS(stream, Collected(hook[t]))
           shown == ERROR(st, Error("lost", t))
<1>1. /\ hook[t] \in Closure /\ ClosureOK(hook[t]) /\ Types /\ refusals' = refusals
      /\ hook[t].phase = "streaming" /\ (mounted => ~stream.completed)
  BY Speaker DEF lose, LogsFollow, Follows, Gathers
<1>2. h.phase = IF hook[t].retryCount <= Retries THEN "waiting" ELSE "over"
  BY <1>1, LostOK
<1>3. hook[t].retryCount \in 1..(Retries + 1)
  BY <1>1 DEF Closure, Attempts
<1>4. h.phase = "over" => hook[t].retryCount = Retries + 1
  BY <1>2, <1>3
<1>5. DOMAIN st = DOMAIN stream
  BY <1>1, LogsKeep
<1>6. shown.error = Error("lost", t) /\ shown.completed = TRUE
  <2> HIDE DEF st
  <2> QED
    BY <1>1, <1>5 DEF ERROR, Types, Fields
<1> HIDE DEF h, shown
<1>7. h.phase \in {"waiting", "over"}
  BY <1>2
<1>8. /\ shown.error.kind = "lost"
      /\ h.phase = "over" => shown.error = [kind |-> "lost", task |-> t, attempt |-> Retries + 1]
  BY <1>4, <1>6 DEF Error
<1> QED
  BY <1>1, <1>6, <1>7, <1>8 DEF Leaves, h, shown, st

LEMMA BackendGrows ==
  ASSUME Core, NEW t \in Tasks, progress(t) \/ finish(t)
  PROVE  \A u \in Tasks : backend[u].status # "none" => backend'[u].status # "none"
<1>1. backend \in [Tasks -> BackendTask]
  BY DEF Core, Types
<1> QED
  BY <1>1 DEF progress, finish, Backend, BackendTask

LEMMA NextOwed ==
  ASSUME Core, LogsFollow, Owed, [Next]_vars, orphans' = {}
  PROVE  Owed'
<1>0. Types /\ \A t \in Tasks : Unanswered(t) => t # taskId /\ hook[t].phase = "none"
  BY AtRest
<1>1. ASSUME NEW t \in Tasks, StreamDispatch(Dispatching(t)) PROVE Owed'
  <2>1. Dispatching(t) /\ Told /\ UNCHANGED <<state, inFlight, latest>>
    BY <1>1 DEF StreamDispatch, Told, callVars
  <2>2. CASE getTaskSucceeds(t)
    BY <2>1, <2>2, GetTaskSucceedsSpeaks, GetTaskSucceedsLeaves, SpokeOwed
  <2>3. CASE getTaskFails(t)
    BY <2>1, <2>3, GetTaskFailsSpeaks, GetTaskFailsLeaves, SpokeOwed
  <2>4. CASE cancelled(t)
    BY <2>1, <2>4, CancelledSpeaks, CancelledLeaves, SpokeOwed
  <2>5. CASE completion(t)
    BY <2>1, <2>5, CompletionSpeaks, CompletionLeaves, SpokeOwed
  <2>6. CASE lose(t)
    BY <2>1, <2>6, LoseSpeaks, LoseLeaves, SpokeOwed
  <2> QED
    BY <2>1, <2>2, <2>3, <2>4, <2>5, <2>6 DEF Dispatching
<1>2. ASSUME NEW t \in Tasks, NEW a \in Attempts, StreamDispatch(emitLogs(t, a)) PROVE Owed'
  <2>1. emitLogs(t, a) /\ Told /\ UNCHANGED <<state, inFlight, latest>>
    BY <1>2 DEF StreamDispatch, Told, callVars
  <2> QED
    BY <2>1, EmitLogsSpeaks, EmitLogsLeaves, SpokeOwed
<1>3. ASSUME NEW t \in Tasks, StreamStep(Silent(t)) PROVE Owed'
  BY <1>3, SilentOwed DEF StreamStep, callVars
<1>4. ASSUME NEW t \in Tasks, StreamStep(progress(t) \/ finish(t)) PROVE Owed'
  <2>1. /\ UNCHANGED <<taskId, effectTask, mounted, stream, hook, refusals>>
        /\ UNCHANGED <<due, taskStatus, state, latest, inFlight>>
    BY <1>4 DEF StreamStep, progress, finish, Backend, shownVars, boundVars, callVars
  <2>2. \A u \in Tasks : backend[u].status # "none" => backend'[u].status # "none"
    BY <1>4, BackendGrows DEF StreamStep
  <2> QED
    BY <2>1, <2>2, StillOwed
<1>5. ASSUME NEW t \in Tasks, scaffoldResolves(t) PROVE Owed'
  <2> USE DEF scaffoldResolves, Settle
  <2>1. /\ UNCHANGED <<stream, refusals, mounted, latest>> /\ t \in inFlight
        /\ backend'[t].status # "none"
        /\ \A u \in Tasks : backend[u].status # "none" => backend'[u].status # "none"
    BY <1>0, <1>5 DEF Types, BackendTask, boundVars
  <2>2. CASE mounted
    <3>1. /\ RunEffects /\ taskId' = t /\ Effect(taskStatus)
          /\ t # taskId /\ hook[t].phase = "none"
      BY <1>0, <1>5, <2>1, <2>2 DEF SetterRenders, Render, Unanswered
    <3> QED
      BY <2>1, <3>1, RunOwed
  <2>3. CASE ~mounted
    BY <1>5, <2>1, <2>3, StillOwed DEF NothingRenders
  <2> QED
    BY <2>2, <2>3
<1>6. ASSUME NEW t \in Tasks, scaffoldRejects(t) PROVE Owed'
  <2> USE DEF scaffoldRejects, Settle
  <2>1. /\ UNCHANGED <<stream, refusals, mounted, latest, backend>>
        /\ inFlight' = inFlight \ {t}
        /\ state' = IF mounted /\ t = latest THEN "error" ELSE state
    BY <1>6 DEF boundVars
  <2>2. CASE mounted /\ t = latest
    <3>1. RunEffects /\ taskId' = taskId /\ Effect(taskStatus)
      BY <1>6, <2>2 DEF SetterRenders, Render
    <3> QED
      BY <2>1, <2>2, <3>1, RunOwed
  <2>3. CASE ~(mounted /\ t = latest)
    <3>1. NothingRenders
      BY <1>6, <2>3
    <3> QED
      BY <2>1, <2>3, <3>1, StillOwed DEF NothingRenders
  <2> QED
    BY <2>2, <2>3
<1>7. CASE flushEffects \/ rerender
  <2>1. /\ RunEffects /\ Effect(taskStatus)
        /\ UNCHANGED <<taskId, mounted, stream, refusals, backend, state, latest, inFlight>>
    BY <1>7 DEF flushEffects, rerender, Render, boundVars, callVars
  <2> QED
    BY <2>1, RunOwed
<1>8. CASE execute
  <2>1. /\ RunEffects /\ Effect("pending") /\ latest' \in inFlight'
        /\ UNCHANGED <<taskId, mounted, stream, refusals, backend>>
    BY <1>8 DEF execute, Render, boundVars
  <2> QED
    BY <2>1, RunOwed
<1>9. CASE reset
  <2>1. /\ RunEffects /\ Effect("idle") /\ taskId' = NoTask
        /\ UNCHANGED <<mounted, stream, refusals, backend>>
    BY <1>9 DEF reset, SetterRenders, Render, boundVars
  <2>2. taskStatus' # "pending"
    BY <2>1 DEF Effect
  <2> QED
    BY <2>1, <2>2, RunOwed
<1>10. CASE unmount
  <2>1. /\ RunEffects /\ Effect(taskStatus) /\ taskId' = NoTask /\ ~mounted'
        /\ UNCHANGED <<stream, refusals, backend>>
    BY <1>10 DEF unmount, boundVars
  <2> QED
    BY <2>1, RunOwed
<1>11. CASE UNCHANGED vars
  <2>1. /\ UNCHANGED <<taskId, effectTask, mounted, stream, hook, refusals, backend>>
        /\ UNCHANGED <<due, taskStatus, state, latest, inFlight>>
    BY <1>11 DEF vars, streamVars, shownVars, boundVars, callVars
  <2> QED
    BY <2>1, StillOwed
<1> QED
  BY <1>1, <1>2, <1>3, <1>4, <1>5, <1>6, <1>7, <1>8, <1>9, <1>10, <1>11 DEF Next, Step

\* All that is known of the run.
RunInv == orphans = {} => Core /\ LogsFollow /\ Owed

LEMMA InitRun == Init => RunInv
  BY InitInv, InitLogs, InitOwed DEF RunInv

LEMMA NextRun == RunInv /\ [Next]_vars => RunInv'
  BY OrphansStay, NextInv, NextLogs, NextOwed DEF RunInv

LEMMA ShownCanGoOn ==
  ASSUME Core, LogsFollow, Owed, NEW t \in Tasks, taskId = t, ~Begins(t), Underway(t)
  PROVE  CanGoOn(t)
<1>1. hook[t] \in Closure /\ Types /\ t = effectTask /\ mounted
  BY DEF Begins, Core, Chains, Types
<1>2. ~hook[t].didCancel /\ backend[t].status # "none"
  BY <1>1 DEF Owed, Core, Chains, Chained
<1>3. ASSUME hook[t].phase = "streaming" PROVE hook[t].delivered \in 0..backend[t].logged
  <2>1. hook[t].delivered <= backend[t].logged
    BY <1>1, <1>3 DEF LogsFollow, Follows, Gathers
  <2>2. hook[t].delivered \in Nat /\ backend[t].logged \in Nat
    BY <1>1, LoggedIsNat DEF Closure
  <2> QED
    BY <2>1, <2>2
<1> QED
  BY <1>2, <1>3 DEF CanGoOn

\* A run does not hang between the scaffolder's answer and the end of its task:
\* whatever calls, resets and tasks of other calls overlap, a run that is pending
\* waits for the last call, for an effect that is due, or shows a task whose chain
\* of callbacks can go on.
THEOREM PendingGoesOn == Spec => []PendingIsOwed
<1>1. RunInv => PendingIsOwed
  BY ShownCanGoOn DEF PendingIsOwed, RunInv, Owed
<1> QED
  BY InitRun, NextRun, <1>1, PTL DEF Spec

\* The chain of the task that is shown is never given up in between: the task is
\* shown to its end, a call of getTask failed, the last connection was lost, or the
\* chain can go on.
THEOREM ShownGoesOn == Spec => []ShownIsOwed
<1>1. RunInv => ShownIsOwed
  BY ShownCanGoOn DEF ShownIsOwed, RunInv, Owed
<1> QED
  BY InitRun, NextRun, <1>1, PTL DEF Spec


LEMMA LessMeans ==
  ASSUME NEW m, NEW n
  PROVE  Less(m, n) <=> \/ m[1] < n[1]
                        \/ m[1] = n[1] /\ m[2] < n[2]
                        \/ m[1] = n[1] /\ m[2] = n[2] /\ m[3] < n[3]
                        \/ m[1] = n[1] /\ m[2] = n[2] /\ m[3] = n[3] /\ m[4] < n[4]
<1>1. /\ \A i \in 1..(1 - 1) : FALSE
      /\ \A i : i \in 1..(2 - 1) <=> i = 1
      /\ \A i : i \in 1..(3 - 1) <=> i = 1 \/ i = 2
      /\ \A i : i \in 1..(4 - 1) <=> i = 1 \/ i = 2 \/ i = 3
      /\ \A k : k \in 1..4 <=> k = 1 \/ k = 2 \/ k = 3 \/ k = 4
  OBVIOUS
<1> QED
  BY <1>1 DEF Less

Numbers == Nat \X Nat \X Nat \X Nat

LEMMA LessTransitive ==
  ASSUME NEW m \in Numbers, NEW n \in Numbers, NEW o \in Numbers, Less(m, n), Less(n, o)
  PROVE  Less(m, o)
<1>1. /\ m[1] \in Nat /\ m[2] \in Nat /\ m[3] \in Nat /\ m[4] \in Nat
      /\ n[1] \in Nat /\ n[2] \in Nat /\ n[3] \in Nat /\ n[4] \in Nat
      /\ o[1] \in Nat /\ o[2] \in Nat /\ o[3] \in Nat /\ o[4] \in Nat
  BY DEF Numbers
<1>2. /\ \/ m[1] < n[1]
         \/ m[1] = n[1] /\ m[2] < n[2]
         \/ m[1] = n[1] /\ m[2] = n[2] /\ m[3] < n[3]
         \/ m[1] = n[1] /\ m[2] = n[2] /\ m[3] = n[3] /\ m[4] < n[4]
      /\ \/ n[1] < o[1]
         \/ n[1] = o[1] /\ n[2] < o[2]
         \/ n[1] = o[1] /\ n[2] = o[2] /\ n[3] < o[3]
         \/ n[1] = o[1] /\ n[2] = o[2] /\ n[3] = o[3] /\ n[4] < o[4]
  BY LessMeans
<1>3. \/ m[1] < o[1]
      \/ m[1] = o[1] /\ m[2] < o[2]
      \/ m[1] = o[1] /\ m[2] = o[2] /\ m[3] < o[3]
      \/ m[1] = o[1] /\ m[2] = o[2] /\ m[3] = o[3] /\ m[4] < o[4]
  BY <1>1, <1>2
<1> QED
  BY <1>3, LessMeans

\* The parts of what is left of a task.
LEMMA LeftParts ==
  ASSUME NEW h, NEW task
  PROVE  LET l == Left(h, task) IN
         l[1] = AttemptsLeft(h) /\ l[2] = PhasesLeft(h) /\ l[3] = EventsLeft(h)
         /\ l[4] = WorkLeft(task)
  BY DEF Left

LEMMA LeftIsNumbers ==
  ASSUME NEW h \in Closure, NEW task \in BackendTask
  PROVE  /\ AttemptsLeft(h) \in Nat /\ PhasesLeft(h) \in Nat /\ EventsLeft(h) \in Nat
         /\ WorkLeft(task) \in Nat
         /\ Left(h, task) \in Numbers
<1>1. Len(Log) \in Nat
  BY LenProperties
<1>2. AttemptsLeft(h) \in Nat
  BY DEF AttemptsLeft, Closure, Attempts
<1>3. EventsLeft(h) \in Nat
  BY <1>1 DEF EventsLeft, Closure
<1>4. WorkLeft(task) \in Nat
  BY <1>1 DEF WorkLeft, BackendTask
<1>5. PhasesLeft(h) \in Nat
  BY DEF PhasesLeft
<1> QED
  BY <1>2, <1>3, <1>4, <1>5 DEF Left, Numbers

\* A chain that moves on to a later phase of its attempt, or to the next attempt.
LEMMA LaterPhase ==
  ASSUME NEW h, NEW g, NEW task,
         \/ AttemptsLeft(g) < AttemptsLeft(h)
         \/ AttemptsLeft(g) = AttemptsLeft(h) /\ PhasesLeft(g) < PhasesLeft(h)
         \/ /\ AttemptsLeft(g) = AttemptsLeft(h) /\ PhasesLeft(g) = PhasesLeft(h)
            /\ EventsLeft(g) < EventsLeft(h)
  PROVE  Less(Left(g, task), Left(h, task))
<1>1. PICK m, n : m = Left(g, task) /\ n = Left(h, task)
  OBVIOUS
<1>2. \/ m[1] < n[1]
      \/ m[1] = n[1] /\ m[2] < n[2]
      \/ m[1] = n[1] /\ m[2] = n[2] /\ m[3] < n[3]
  BY <1>1, LeftParts
<1> QED
  BY <1>1, <1>2, LessMeans

\* What is left depends on these only.
LEMMA LeftIsSame ==
  ASSUME NEW h, NEW g, NEW task, g.phase = h.phase, g.didCancel = h.didCancel,
         g.retryCount = h.retryCount, g.delivered = h.delivered
  PROVE  Left(g, task) = Left(h, task)
  BY DEF Left, AttemptsLeft, PhasesLeft, EventsLeft

\* The effects that run leave no more of any task.
LEMMA FlushCounts ==
  ASSUME NEW hk, NEW st, Chains(hk, effectTask, st), NEW t \in Tasks, NEW task
  PROVE  \/ Less(Left(EffectsRun(hk)[t], task), Left(hk[t], task))
         \/ Left(EffectsRun(hk)[t], task) = Left(hk[t], task)
<1>1. hk[t] \in Closure /\ Chained(hk[t], t, effectTask, st)
  BY DEF Chains
<1>2. CASE taskId # effectTask /\ t = effectTask
  <2>1. EffectsRun(hk)[t] = Cleanup(hk[t])
    BY <1>2 DEF EffectsRun
  <2>2. PICK h \in Closure, c \in Closure : h = hk[t] /\ c = Cleanup(hk[t])
    BY <1>1, CleanupOK DEF Chained
  <2>3. /\ h.phase # "none" /\ h.didCancel \in BOOLEAN /\ ~h.didCancel /\ c.didCancel
        /\ h.phase = "waiting" => h.retryCount <= Retries
        /\ c.phase = IF h.phase = "streaming" THEN "over" ELSE h.phase
        /\ h.retryCount \in 1..(Retries + 1)
        /\ h.phase \in {"none", "getTask", "streaming", "waiting", "over"}
    BY <1>1, <1>2, <2>2, CleanupOK DEF Chained, ClosureOK, Closure, Attempts
  <2>4. AttemptsLeft(c) = 0 /\ AttemptsLeft(h) = Retries + 1 - h.retryCount
    BY <2>3 DEF AttemptsLeft
  <2>5. \/ AttemptsLeft(c) < AttemptsLeft(h)
        \/ AttemptsLeft(c) = AttemptsLeft(h) /\ h.phase # "waiting"
    BY <2>3, <2>4
  <2>6. CASE h.phase \in {"getTask", "streaming"}
    <3>1. PhasesLeft(c) < PhasesLeft(h)
      BY <2>3, <2>6 DEF PhasesLeft
    <3> QED
      BY <2>1, <2>2, <2>5, <3>1, LaterPhase
  <2>7. CASE h.phase = "over"
    <3>1. PhasesLeft(c) = PhasesLeft(h) /\ EventsLeft(c) = EventsLeft(h)
      BY <2>3, <2>7 DEF PhasesLeft, EventsLeft
    <3>2. CASE AttemptsLeft(c) < AttemptsLeft(h)
      BY <2>1, <2>2, <3>2, LaterPhase
    <3>3. CASE AttemptsLeft(c) = AttemptsLeft(h)
      BY <2>1, <2>2, <3>1, <3>3 DEF Left
    <3> QED
      BY <2>5, <3>2, <3>3
  <2>8. CASE h.phase = "waiting"
    BY <2>1, <2>2, <2>5, <2>8, LaterPhase
  <2> QED
    BY <2>3, <2>6, <2>7, <2>8
<1>3. CASE taskId # effectTask /\ t = taskId /\ t # effectTask
  <2>1. EffectsRun(hk)[t] = Begun
    BY <1>3 DEF EffectsRun, Begun
  <2>2. hk[t].phase = "none"
    BY <1>1, <1>3 DEF Chained
  <2>3. Begun.retryCount = 1
    BY DEF Begun, NoClosure
  <2>4. AttemptsLeft(Begun) = Retries /\ AttemptsLeft(hk[t]) = Retries + 1
    BY <2>2, <2>3, BegunOK DEF AttemptsLeft
  <2>5. AttemptsLeft(Begun) < AttemptsLeft(hk[t])
    BY <2>4
  <2> QED
    BY <2>1, <2>5, LaterPhase
<1>4. CASE taskId = effectTask \/ (t # taskId /\ t # effectTask)
  BY <1>4 DEF EffectsRun
<1> QED
  BY <1>2, <1>3, <1>4

\* A callback that dispatches nothing.
LEMMA SilentCounts ==
  ASSUME Core, NEW t \in Tasks, Silent(t)
  PROVE  /\ Less(Left(hook'[t], backend'[t]), Left(hook[t], backend[t]))
         /\ \A u \in Tasks \ {t} : Left(hook'[u], backend'[u]) = Left(hook[u], backend[u])
<1>1. /\ hook[t] \in Closure /\ ClosureOK(hook[t]) /\ backend' = backend
      /\ hook[t].didCancel \in BOOLEAN /\ hook[t].retryCount \in 1..(Retries + 1)
      /\ hook \in [Tasks -> Closure]
  BY Speaker DEF Silent, getTaskIgnored, log, reconnect, Closure, Attempts, Core, Chains
<1>2. \A u \in Tasks \ {t} : hook'[u] = hook[u]
  BY <1>1 DEF Silent, getTaskIgnored, log, reconnect
<1>3. CASE getTaskIgnored(t)
  <2>1. /\ hook[t].phase = "getTask" /\ hook[t].didCancel /\ hook'[t].phase = "over"
        /\ hook'[t].didCancel = hook[t].didCancel
    BY <1>1, <1>3 DEF getTaskIgnored, GoesOn, Closure
  <2>2. AttemptsLeft(hook'[t]) = AttemptsLeft(hook[t]) /\ PhasesLeft(hook'[t]) < PhasesLeft(hook[t])
    BY <2>1 DEF AttemptsLeft, PhasesLeft
  <2> QED
    BY <1>1, <1>2, <2>2, LaterPhase
<1>4. CASE reconnect(t)
  <2>1. /\ hook[t].phase = "waiting" /\ hook'[t].phase = "getTask"
        /\ hook'[t].didCancel = hook[t].didCancel
        /\ hook'[t].retryCount = hook[t].retryCount + 1
    BY <1>1, <1>4 DEF reconnect, Closure
  <2>2. CASE hook[t].didCancel
    <3>1. AttemptsLeft(hook'[t]) = AttemptsLeft(hook[t])
      BY <2>1, <2>2 DEF AttemptsLeft
    <3>2. PhasesLeft(hook'[t]) < PhasesLeft(hook[t])
      BY <2>1, <2>2 DEF PhasesLeft
    <3> QED
      BY <1>1, <1>2, <3>1, <3>2, LaterPhase
  <2>3. CASE ~hook[t].didCancel
    <3>1. AttemptsLeft(hook'[t]) < AttemptsLeft(hook[t])
      BY <1>1, <2>1, <2>3 DEF AttemptsLeft
    <3> QED
      BY <1>1, <1>2, <3>1, LaterPhase
  <2> QED
    BY <2>2, <2>3
<1>5. CASE log(t)
  <2>1. /\ hook'[t].phase = "streaming" /\ hook[t].phase = "streaming"
        /\ hook'[t].didCancel = hook[t].didCancel
        /\ hook'[t].retryCount = hook[t].retryCount
        /\ hook'[t].delivered = hook[t].delivered + 1
    BY <1>1, <1>5 DEF log, Closure
  <2>2. hook[t].delivered \in Nat /\ Len(Log) \in Nat
    BY <1>1, LenProperties DEF Closure
  <2>3. AttemptsLeft(hook'[t]) = AttemptsLeft(hook[t])
    BY <2>1 DEF AttemptsLeft
  <2>4. PhasesLeft(hook'[t]) = PhasesLeft(hook[t])
    BY <2>1 DEF PhasesLeft
  <2>5. EventsLeft(hook'[t]) < EventsLeft(hook[t])
    BY <2>1, <2>2 DEF EventsLeft
  <2> QED
    BY <1>1, <1>2, <2>3, <2>4, <2>5, LaterPhase
<1> QED
  BY <1>3, <1>4, <1>5 DEF Silent

\* A callback that dispatches: what it leaves of its task, and then the effects.
LEMMA SpokeCounts ==
  ASSUME Core, NEW t \in Tasks, NEW h, NEW shown, Spoke(t, h, shown),
         \/ Less(Left(h, backend[t]), Left(hook[t], backend[t]))
         \/ Left(h, backend[t]) = Left(hook[t], backend[t])
  PROVE  /\ \A u \in Tasks :
              \/ Less(Left(hook'[u], backend'[u]), Left(hook[u], backend[u]))
              \/ Left(hook'[u], backend'[u]) = Left(hook[u], backend[u])
         /\ Less(Left(h, backend[t]), Left(hook[t], backend[t])) =>
              Less(Left(hook'[t], backend'[t]), Left(hook[t], backend[t]))
<1> DEFINE hk == [hook EXCEPT ![t] = h]
<1>1. /\ hook \in [Tasks -> Closure] /\ backend \in [Tasks -> BackendTask] /\ Types
      /\ hook' = IF mounted THEN EffectsRun(hk) ELSE hk
      /\ backend' = backend /\ h \in Closure
  BY DEF Core, Chains, Types, Spoke, Dispatch, Rendered
<1>2. PICK st : Chains(hk, effectTask, st) /\ hk[t] = h /\ \A u \in Tasks \ {t} : hk[u] = hook[u]
  <2>1. PICK s : s = [task |-> IF mounted THEN shown.task ELSE stream.task]
    OBVIOUS
  <2>2. s.task = IF mounted THEN shown.task ELSE stream.task
    BY <2>1
  <2> QED
    BY <2>2, SpokenChains
<1> HIDE DEF hk
<1>3. \A u \in Tasks : \/ Less(Left(hook'[u], backend[u]), Left(hk[u], backend[u]))
                       \/ Left(hook'[u], backend[u]) = Left(hk[u], backend[u])
  BY <1>1, <1>2, FlushCounts
<1>4. hook' \in [Tasks -> Closure] /\ hk \in [Tasks -> Closure]
  BY <1>1, <1>2, FlushKeeps DEF Chains
<1>5. \A u \in Tasks : /\ Left(hook'[u], backend[u]) \in Numbers
                       /\ Left(hk[u], backend[u]) \in Numbers
                       /\ Left(hook[u], backend[u]) \in Numbers
  BY <1>1, <1>4, LeftIsNumbers
<1>6. PICK n1 \in Numbers, n2 \in Numbers, n3 \in Numbers :
        /\ n1 = Left(hook'[t], backend[t]) /\ n2 = Left(hk[t], backend[t])
        /\ n3 = Left(hook[t], backend[t])
  BY <1>5
<1>7. /\ Less(n1, n2) \/ n1 = n2
      /\ Less(n2, n3) \/ n2 = n3
  BY <1>2, <1>3, <1>6
<1>8. (Less(n1, n3) \/ n1 = n3) /\ (Less(n2, n3) => Less(n1, n3))
  BY <1>7, LessTransitive
<1>9. /\ \/ Less(Left(hook'[t], backend'[t]), Left(hook[t], backend[t]))
         \/ Left(hook'[t], backend'[t]) = Left(hook[t], backend[t])
      /\ Less(Left(h, backend[t]), Left(hook[t], backend[t])) =>
              Less(Left(hook'[t], backend'[t]), Left(hook[t], backend[t]))
  BY <1>1, <1>2, <1>6, <1>8
<1>10. ASSUME NEW u \in Tasks \ {t}
       PROVE  \/ Less(Left(hook'[u], backend'[u]), Left(hook[u], backend[u]))
              \/ Left(hook'[u], backend'[u]) = Left(hook[u], backend[u])
  BY <1>1, <1>2, <1>3
<1> QED
  BY <1>9, <1>10


\* The callbacks of a chain, in front of the effects.
LEMMA DispatchCounts ==
  ASSUME Core, NEW t \in Tasks, Dispatching(t), orphans' = {}
  PROVE  /\ \A u \in Tasks :
              \/ Less(Left(hook'[u], backend'[u]), Left(hook[u], backend[u]))
              \/ Left(hook'[u], backend'[u]) = Left(hook[u], backend[u])
         /\ getTaskSucceeds(t) \/ getTaskFails(t) \/ completion(t) \/ lose(t) =>
              Less(Left(hook'[t], backend'[t]), Left(hook[t], backend[t]))
<1> DEFINE NoMore ==
             \A u \in Tasks :
               \/ Less(Left(hook'[u], backend'[u]), Left(hook[u], backend[u]))
               \/ Left(hook'[u], backend'[u]) = Left(hook[u], backend[u])
           Fewer == Less(Left(hook'[t], backend'[t]), Left(hook[t], backend[t]))
<1>1. hook[t] \in Closure /\ ClosureOK(hook[t])
  BY Speaker
<1>2. ASSUME getTaskSucceeds(t) PROVE NoMore /\ Fewer
  <2> DEFINE h == Connected(hook[t])
  <2>1. /\ h.phase = "streaming" /\ h.retryCount = hook[t].retryCount
        /\ h.didCancel = hook[t].didCancel /\ hook[t].phase = "getTask"
        /\ ~hook[t].didCancel
    BY <1>1, <1>2 DEF Connected, Closure, getTaskSucceeds, GoesOn
  <2>2. Spoke(t, h, INIT(stream, t))
    BY <1>2, GetTaskSucceedsSpeaks
  <2> HIDE DEF h
  <2>3. AttemptsLeft(h) = AttemptsLeft(hook[t])
    BY <2>1 DEF AttemptsLeft
  <2>4. PhasesLeft(h) < PhasesLeft(hook[t])
    BY <2>1 DEF PhasesLeft
  <2>5. Less(Left(h, backend[t]), Left(hook[t], backend[t]))
    BY <2>3, <2>4, LaterPhase
  <2> QED
    BY <2>2, <2>5, SpokeCounts
<1>3. ASSUME getTaskFails(t) PROVE NoMore /\ Fewer
  <2> DEFINE h == [hook[t] EXCEPT !.phase = "over"]
  <2>1. /\ h.phase = "over" /\ h.retryCount = hook[t].retryCount
        /\ h.didCancel = hook[t].didCancel /\ hook[t].phase = "getTask"
    BY <1>1, <1>3 DEF Closure, getTaskFails
  <2>2. Spoke(t, h, ERROR(stream, Error("refused", t)))
    BY <1>3, GetTaskFailsSpeaks
  <2> HIDE DEF h
  <2>3. AttemptsLeft(h) = AttemptsLeft(hook[t])
    BY <2>1 DEF AttemptsLeft
  <2>4. PhasesLeft(h) < PhasesLeft(hook[t])
    BY <2>1 DEF PhasesLeft
  <2>5. Less(Left(h, backend[t]), Left(hook[t], backend[t]))
    BY <2>3, <2>4, LaterPhase
  <2> QED
    BY <2>2, <2>5, SpokeCounts
<1>4. ASSUME completion(t) PROVE NoMore /\ Fewer
  <2> DEFINE h == [Emitted(hook[t]) EXCEPT !.phase = "over"]
  <2>1. hook[t].phase = "streaming"
    BY <1>4 DEF completion
  <2>2. /\ h.phase = "over" /\ h.retryCount = hook[t].retryCount
        /\ h.didCancel = hook[t].didCancel
    BY <1>1, <2>1, EmittedOK DEF Closure
  <2>3. PICK shown : Spoke(t, h, shown)
    BY <1>4, CompletionSpeaks
  <2> HIDE DEF h
  <2>4. AttemptsLeft(h) = AttemptsLeft(hook[t])
    BY <2>1, <2>2 DEF AttemptsLeft
  <2>5. PhasesLeft(h) < PhasesLeft(hook[t])
    BY <2>1, <2>2 DEF PhasesLeft
  <2>6. Less(Left(h, backend[t]), Left(hook[t], backend[t]))
    BY <2>4, <2>5, LaterPhase
  <2> QED
    BY <2>3, <2>6, SpokeCounts
<1>5. ASSUME lose(t) PROVE NoMore /\ Fewer
  <2> DEFINE h == Lost(hook[t])
  <2>1. hook[t].phase = "streaming" /\ ~hook[t].didCancel
    BY <1>1, <1>5 DEF lose, ClosureOK
  <2>2. /\ h.phase \in {"waiting", "over"} /\ h.retryCount = hook[t].retryCount
        /\ h.didCancel = hook[t].didCancel
    BY <1>1, <2>1, LostOK
  <2>3. PICK shown : Spoke(t, h, shown)
    BY <1>5, LoseSpeaks
  <2> HIDE DEF h
  <2>4. AttemptsLeft(h) = AttemptsLeft(hook[t])
    BY <2>1, <2>2 DEF AttemptsLeft
  <2>5. PhasesLeft(h) < PhasesLeft(hook[t])
    BY <2>1, <2>2 DEF PhasesLeft
  <2>6. Less(Left(h, backend[t]), Left(hook[t], backend[t]))
    BY <2>4, <2>5, LaterPhase
  <2> QED
    BY <2>3, <2>6, SpokeCounts
<1>6. ASSUME cancelled(t) PROVE NoMore
  <2>1. Spoke(t, hook[t], CANCELLED(stream))
    BY <1>6, CancelledSpeaks
  <2> QED
    BY <1>6, <2>1, SpokeCounts
<1> QED
  BY <1>2, <1>3, <1>4, <1>5, <1>6 DEF Dispatching

LEMMA EmitLogsCounts ==
  ASSUME Core, NEW t \in Tasks, NEW a \in Attempts, emitLogs(t, a)
  PROVE  \A u \in Tasks :
            \/ Less(Left(hook'[u], backend'[u]), Left(hook[u], backend[u]))
            \/ Left(hook'[u], backend'[u]) = Left(hook[u], backend[u])
<1>1. hook[t] \in Closure /\ ClosureOK(hook[t]) /\ hook[t].phase = "streaming"
  BY Speaker DEF emitLogs, ClosureOK, ArraysFollow
<1>2. PICK h : h = Emitted(hook[t])
  OBVIOUS
<1>3. PICK shown : Spoke(t, h, shown)
  BY <1>2, EmitLogsSpeaks
<1>4. /\ h.phase = hook[t].phase /\ h.didCancel = hook[t].didCancel
      /\ h.retryCount = hook[t].retryCount /\ h.delivered = hook[t].delivered
  BY <1>1, <1>2, EmittedOK
<1>5. Left(h, backend[t]) = Left(hook[t], backend[t])
  BY <1>4, LeftIsSame
<1> QED
  BY <1>3, <1>5, SpokeCounts

LEMMA LessWork ==
  ASSUME NEW h, NEW task, NEW done, WorkLeft(done) < WorkLeft(task)
  PROVE  Less(Left(h, done), Left(h, task))
<1>1. PICK m, n : m = Left(h, done) /\ n = Left(h, task)
  OBVIOUS
<1>2. m[1] = n[1] /\ m[2] = n[2] /\ m[3] = n[3] /\ m[4] < n[4]
  BY <1>1, LeftParts
<1> QED
  BY <1>1, <1>2, LessMeans

\* The backend works a task off.
LEMMA BackendCounts ==
  ASSUME Core, NEW t \in Tasks, progress(t) \/ finish(t)
  PROVE  /\ Less(Left(hook'[t], backend'[t]), Left(hook[t], backend[t]))
         /\ \A u \in Tasks \ {t} : Left(hook'[u], backend'[u]) = Left(hook[u], backend[u])
<1>1. /\ backend \in [Tasks -> BackendTask] /\ backend[t] \in BackendTask
      /\ hook' = hook /\ backend[t].status = "processing" /\ Len(Log) \in Nat
  BY LenProperties DEF Core, Types, progress, finish, Backend
<1>2. \A u \in Tasks \ {t} : backend'[u] = backend[u]
  BY <1>1 DEF progress, finish, Backend
<1>3. \/ backend'[t].status = "processing" /\ backend'[t].logged = backend[t].logged + 1
      \/ backend'[t].status \in {"completed", "failed"}
  BY <1>1 DEF progress, finish, Backend, BackendTask
<1>4. backend[t].logged \in 0..Len(Log)
  BY <1>1 DEF BackendTask
<1>5. WorkLeft(backend'[t]) < WorkLeft(backend[t])
  BY <1>1, <1>3, <1>4 DEF WorkLeft
<1> QED
  BY <1>1, <1>2, <1>5, LessWork

LEMMA RunCounts ==
  ASSUME Core, hook' \in {hook, EffectsRun(hook)}, backend' = backend
  PROVE  \A u \in Tasks :
            \/ Less(Left(hook'[u], backend'[u]), Left(hook[u], backend[u]))
            \/ Left(hook'[u], backend'[u]) = Left(hook[u], backend[u])
<1>1. Chains(hook, effectTask, stream.task)
  BY DEF Core
<1> QED
  BY <1>1, FlushCounts

\* The scaffolder creates a task.
LEMMA ResolveCounts ==
  ASSUME Core, NEW t \in Tasks, scaffoldResolves(t)
  PROVE  \A u \in Tasks :
            \/ Less(Left(hook'[u], backend'[u]), Left(hook[u], backend[u]))
            \/ Left(hook'[u], backend'[u]) = Left(hook[u], backend[u])
<1> USE DEF scaffoldResolves, Settle
<1>1. /\ Types /\ t # taskId /\ hook[t].phase = "none" /\ backend[t].status = "none"
      /\ Chains(hook, effectTask, stream.task) /\ backend \in [Tasks -> BackendTask]
      /\ Len(Log) \in Nat
  BY AtRest, LenProperties DEF Unanswered, Core, Types
<1>2. hook' \in {hook, EffectsRun(hook)}
  BY DEF SetterRenders, RunEffects, NothingRenders
<1>3. hook'[t] = hook[t]
  <2>1. t # effectTask
    BY <1>1 DEF Chains, Chained
  <2> QED
    BY <1>1, <1>2, <2>1 DEF EffectsRun
<1>4. /\ backend'[t].status = "processing" /\ backend'[t].logged \in 0..Len(Log)
      /\ \A u \in Tasks \ {t} : backend'[u] = backend[u]
  BY <1>1 DEF BackendTask
<1>5. WorkLeft(backend'[t]) < WorkLeft(backend[t])
  BY <1>1, <1>4 DEF WorkLeft
<1>6. Less(Left(hook'[t], backend'[t]), Left(hook[t], backend[t]))
  BY <1>3, <1>5, LessWork
<1>7. ASSUME NEW u \in Tasks \ {t}
      PROVE  \/ Less(Left(hook'[u], backend'[u]), Left(hook[u], backend[u]))
             \/ Left(hook'[u], backend'[u]) = Left(hook[u], backend[u])
  BY <1>1, <1>2, <1>4, FlushCounts
<1> QED
  BY <1>6, <1>7

LEMMA StepCounts ==
  ASSUME Core, [Next]_vars, orphans' = {}, NEW t \in Tasks
  PROVE  /\ \/ Less(Left(hook'[t], backend'[t]), Left(hook[t], backend[t]))
            \/ Left(hook'[t], backend'[t]) = Left(hook[t], backend[t])
         /\ Chain(t) \/ progress(t) \/ finish(t) =>
              Less(Left(hook'[t], backend'[t]), Left(hook[t], backend[t]))
<1> DEFINE NoMore(u) ==
             \/ Less(Left(hook'[u], backend'[u]), Left(hook[u], backend[u]))
             \/ Left(hook'[u], backend'[u]) = Left(hook[u], backend[u])
<1>1. ASSUME Chain(t)
      PROVE  Less(Left(hook'[t], backend'[t]), Left(hook[t], backend[t]))
  <2>1. CASE Silent(t)
    BY <2>1, SilentCounts
  <2>2. CASE getTaskSucceeds(t) \/ getTaskFails(t) \/ completion(t) \/ lose(t)
    BY <2>2, DispatchCounts DEF Dispatching
  <2> QED
    BY <1>1, <2>1, <2>2 DEF Chain, StreamDispatch, StreamStep
<1>2. ASSUME NEW u \in Tasks, StreamDispatch(Dispatching(u)) PROVE NoMore(t)
  BY <1>2, DispatchCounts DEF StreamDispatch
<1>3. ASSUME NEW u \in Tasks, NEW a \in Attempts, StreamDispatch(emitLogs(u, a))
      PROVE  NoMore(t)
  BY <1>3, EmitLogsCounts DEF StreamDispatch
<1>4. ASSUME NEW u \in Tasks, StreamStep(Silent(u)) \/ StreamStep(progress(u) \/ finish(u))
      PROVE  NoMore(t)
  BY <1>4, SilentCounts, BackendCounts DEF StreamStep
<1>5. ASSUME NEW u \in Tasks, scaffoldResolves(u) PROVE NoMore(t)
  BY <1>5, ResolveCounts
<1>6. ASSUME NEW u \in Tasks, scaffoldRejects(u) PROVE NoMore(t)
  <2>1. hook' \in {hook, EffectsRun(hook)} /\ backend' = backend
    BY <1>6 DEF scaffoldRejects, Settle, SetterRenders, RunEffects, NothingRenders
  <2> QED
    BY <2>1, RunCounts
<1>7. ASSUME flushEffects \/ rerender \/ execute \/ reset \/ unmount PROVE NoMore(t)
  <2>1. hook' = EffectsRun(hook) /\ backend' = backend
    BY <1>7 DEF flushEffects, rerender, execute, reset, unmount, SetterRenders, RunEffects
  <2> QED
    BY <2>1, RunCounts
<1>8. ASSUME UNCHANGED vars PROVE NoMore(t)
  BY <1>8 DEF vars, streamVars
<1>9. NoMore(t)
  BY <1>2, <1>3, <1>4, <1>5, <1>6, <1>7, <1>8 DEF Next, Step
<1> QED
  BY <1>1, <1>9, BackendCounts

\* The chain of a task takes a bounded number of callbacks, however many
\* connections are lost and whatever other tasks, calls and resets come between:
\* each leaves fewer attempts, phases, events or work of the backend, and nothing
\* else gives a task any of it back.
THEOREM TasksRunOut == Spec => ComesToAnEnd /\ []LeftIsCounted
<1>1. Inv => LeftIsCounted
  <2> SUFFICES ASSUME Core, NEW t \in Tasks
               PROVE  Left(hook[t], backend[t]) \in Nat \X Nat \X Nat \X Nat
    BY DEF Inv, LeftIsCounted
  <2>1. hook[t] \in Closure /\ backend[t] \in BackendTask
    BY DEF Core, Chains, Types
  <2> QED
    BY <2>1, LeftIsNumbers DEF Numbers
<1>2. ASSUME Inv, [Next]_vars, orphans' = {}, NEW t \in Tasks
      PROVE  \/ Less(Left(hook'[t], backend'[t]), Left(hook[t], backend[t]))
             \/ /\ Left(hook'[t], backend'[t]) = Left(hook[t], backend[t])
                /\ ~Chain(t) /\ ~progress(t) /\ ~finish(t)
  <2>1. Core
    BY <1>2, OrphansStay DEF Inv
  <2> QED
    BY <1>2, <2>1, StepCounts
<1>3. Inv /\ [Next]_vars =>
        [orphans' = {} =>
          \A t \in Tasks :
            \/ Less(Left(hook'[t], backend'[t]), Left(hook[t], backend[t]))
            \/ /\ Left(hook'[t], backend'[t]) = Left(hook[t], backend[t])
               /\ ~Chain(t) /\ ~progress(t) /\ ~finish(t)]_vars
  BY <1>2
<1>4. Init => Inv
  BY InitInv DEF Inv
<1> QED
  BY <1>1, <1>3, <1>4, InvHolds, PTL DEF Spec, ComesToAnEnd
=============================================================================
