------------------------ MODULE IncrementalIngestion ------------------------
(***************************************************************************)
(* One incremental entity provider of plugins/incremental-ingestion-       *)
(* backend: the engine that every backend replica runs                     *)
(* (IncrementalIngestionEngine), the three tables of the `ingestion`       *)
(* schema it keeps its progress in (IncrementalIngestionDatabaseManager),  *)
(* the catalog it mutates and the task scheduler that calls it.            *)
(*                                                                         *)
(* Every database method of the code runs in one transaction and is one    *)
(* step here; the engine awaits between them, so the steps of two replicas *)
(* interleave.  Every query of the engine filters on its provider's name,  *)
(* so the providers of an installation do not meet and one is modelled.    *)
(*                                                                         *)
(* Time is abstracted to whether `next_action_at` has passed (`due`), a    *)
(* page cursor to the number of pages already consumed.                    *)
(***************************************************************************)
EXTENDS Integers, Sequences, FiniteSets

CONSTANTS
    Replicas,   \* the backend processes that share the database
    NoReplica,  \* the task's lock is free
    Ids,        \* ingestion ids (uuid v4)
    NoId,       \* no ingestion
    Entities,   \* entity refs
    Listings,   \* what the data source may hold: sequences of pages
    MaxFaults   \* bound on thrown errors, cancellations and crashes

ASSUME ReplicasAssumption == NoReplica \notin Replicas
ASSUME IdsAssumption      == NoId \notin Ids
ASSUME ListingsAssumption ==
    \A l \in Listings : l \in Seq(SUBSET Entities) /\ Len(l) > 0
ASSUME MaxFaultsAssumption == MaxFaults \in Nat

VARIABLES
    ingestions, \* table ingestion.ingestions, the rows of this provider
    marks,      \* table ingestion_marks joined with ingestion_mark_entities
    catalog,    \* the catalog entities annotated with this provider's name
    source,     \* the pages the data source holds
    lease,      \* the replica that holds the scheduled task's lock
    pc,         \* what each replica's task does next
    job,        \* the local variables of each replica's task
    aborted,    \* the AbortSignal given to each replica's task
    faults      \* errors, cancellations and crashes so far

db       == <<ingestions, marks>>
engine   == <<pc, job>>
vars     == <<ingestions, marks, catalog, source, lease, pc, job, aborted, faults>>

-----------------------------------------------------------------------------
(* The tables.                                                             *)

Statuses    == {"complete", "bursting", "resting", "canceling",
                "interstitial", "backing off"}
NextActions == {"rest", "ingest", "backoff", "cancel",
                "nothing (done)", "nothing (canceled)"}

\* `open`: completion_ticket is 'open'.  `restCompleted`: rest_completed_at
\* is not null.  `due`: next_action_at has passed.
Row == [present: BOOLEAN, open: BOOLEAN, status: Statuses,
        nextAction: NextActions, due: BOOLEAN, attempts: Nat,
        restCompleted: BOOLEAN]

\* What stands for an id that is not in the table.
NoRow == [present |-> FALSE, open |-> FALSE, status |-> "complete",
          nextAction |-> "nothing (done)", due |-> TRUE, attempts |-> 0,
          restCompleted |-> FALSE]

\* The row createProviderIngestionRecord inserts.
NewRow == [present |-> TRUE, open |-> TRUE, status |-> "bursting",
           nextAction |-> "ingest", due |-> TRUE, attempts |-> 0,
           restCompleted |-> FALSE]

IsOpen(i) == ingestions[i].open
OpenIds   == {i \in Ids : IsOpen(i)}
Closed(i) == ingestions[i].present /\ ~ingestions[i].open

\* A mark and the refs of the entities marked with it.  `by` stands for the
\* mark's uuid: a replica never writes one sequence of an ingestion twice.
Mark == [ingestion: Ids, sequence: Nat, by: Replicas, cursor: Nat,
         refs: SUBSET Entities]

MarksOf(i)    == {m \in marks : m.ingestion = i}
MarkedRefs(i) == UNION {m.refs : m \in MarksOf(i)}

\* A uuid that no row, no mark and no running task refers to.
FreshIds == {i \in Ids : /\ ~ingestions[i].present
                         /\ MarksOf(i) = {}
                         /\ \A r \in Replicas : job[r].ingestion # i}

\* Which of them v4() draws makes no difference.  The size of Ids bounds the
\* rows and the ids of deleted rows that something still refers to.
NewId == CHOOSE i \in FreshIds : TRUE

updateIngestionRecordById(i, row) ==
    ingestions' = IF ingestions[i].present
                  THEN [ingestions EXCEPT ![i] = row]
                  ELSE ingestions

\* Faulty: the marks of the open ingestion go as well.
KeepNoMarks == {}

\* The rows left and the marks left by clearFinishedIngestions.
KeptRows  == [i \in Ids |-> IF Closed(i) THEN NoRow ELSE ingestions[i]]
KeptMarks == {m \in marks : ~Closed(m.ingestion)}

\* Faulty: the index is missing.
NoIndex == TRUE

\* Inserting a second open row breaks the unique index on
\* (provider_name, completion_ticket).
UniqueIndexAllows == OpenIds = {}

\* Faulty: nothing is swept, or the last page alone counts as marked.
SweepNothing(i) == {}
SweepAllButLastPage(i) ==
    catalog \ UNION {m.refs : m \in {x \in MarksOf(i) :
                        \A n \in MarksOf(i) : n.sequence <= x.sequence}}

computeRemoved(i) == catalog \ MarkedRefs(i)

-----------------------------------------------------------------------------
(* The data source, paged the way GithubRepositoryEntityProvider.next pages *)
(* the GitHub search: asked for what follows the last page it answers an   *)
(* empty last page and no end cursor, and without a cursor it starts over. *)

\* Faulty: one page further, and done one page too early.
PageAfter(c)  == IF c + 1 < Len(source) THEN source[c + 2] ELSE {}
DoneEarly(c)  == c + 2 >= Len(source)

Page(c)   == IF c < Len(source) THEN source[c + 1] ELSE {}
After(c)  == IF c < Len(source) THEN c + 1 ELSE 0
IsDone(c) == c + 1 >= Len(source)

SourceEntities == UNION {source[k] : k \in 1..Len(source)}

-----------------------------------------------------------------------------
(* The task of a replica.                                                  *)

Job == [ingestion: Ids \cup {NoId}, attempts: Nat, cursor: Nat,
        sequence: Nat, batch: SUBSET Entities, done: BOOLEAN,
        removed: SUBSET Entities]

NoJob == [ingestion |-> NoId, attempts |-> 0, cursor |-> 0, sequence |-> 0,
          batch |-> {}, done |-> FALSE, removed |-> {}]

\* The steps inside the try block of the 'ingest' branch.
TrySteps == {"setProviderBursting", "getLastMark", "next", "createMark",
             "createMarkEntities", "computeRemoved", "applyMutation", "settle"}

Steps == TrySteps \cup
         {"idle", "getCurrentAction", "createProviderIngestionRecord",
          "clearFinishedIngestions", "setProviderComplete",
          "setProviderIngesting", "setProviderCanceled",
          "setProviderCanceling", "setProviderBackoff"}

Init ==
    /\ ingestions = [i \in Ids |-> NoRow]
    /\ marks = {}
    /\ catalog = {}
    /\ source \in Listings
    /\ lease = NoReplica
    /\ pc = [r \in Replicas |-> "idle"]
    /\ job = [r \in Replicas |-> NoJob]
    /\ aborted = [r \in Replicas |-> FALSE]
    /\ faults = 0

Goto(r, step) == pc' = [pc EXCEPT ![r] = step]

\* The task function returns: the scheduler takes its lock back, unless it
\* already expired.
EndTick(r) ==
    /\ Goto(r, "idle")
    /\ job' = [job EXCEPT ![r] = NoJob]
    /\ lease' = IF lease = r THEN NoReplica ELSE lease
    /\ UNCHANGED aborted

\* The scheduler calls taskFn on one replica, the one that takes the lock.
BeginTick(r) ==
    /\ pc[r] = "idle"
    /\ lease = NoReplica
    /\ lease' = r
    /\ aborted' = [aborted EXCEPT ![r] = FALSE]
    /\ Goto(r, "getCurrentAction")
    /\ UNCHANGED <<db, catalog, source, job, faults>>

\* Faulty: the stored action is taken as it is, or a wait is over before its
\* time and never after it.
RawAction(row) == row.nextAction
WaitReversed(row) ==
    CASE row.nextAction = "rest"    /\ ~row.due -> "clearFinishedIngestions"
      [] row.nextAction = "ingest"              -> "setProviderBursting"
      [] row.nextAction = "backoff" /\ ~row.due -> "setProviderIngesting"
      [] row.nextAction = "cancel"              -> "setProviderCanceled"
      [] OTHER                                  -> "idle"

\* handleNextAction: what the record read says is to be done, or "idle".
Branch(row) ==
    CASE row.nextAction = "rest"    /\ row.due -> "clearFinishedIngestions"
      [] row.nextAction = "ingest"             -> "setProviderBursting"
      [] row.nextAction = "backoff" /\ row.due -> "setProviderIngesting"
      [] row.nextAction = "cancel"             -> "setProviderCanceled"
      [] OTHER                                 -> "idle"

getCurrentAction(r) ==
    /\ pc[r] = "getCurrentAction"
    /\ \/ /\ OpenIds = {}
          /\ Goto(r, "createProviderIngestionRecord")
          /\ UNCHANGED <<job, lease, aborted>>
       \/ \E i \in OpenIds :
             IF Branch(ingestions[i]) = "idle"
             THEN EndTick(r)
             ELSE /\ Goto(r, Branch(ingestions[i]))
                  /\ job' = [job EXCEPT ![r] = [NoJob EXCEPT
                               !.ingestion = i,
                               !.attempts  = ingestions[i].attempts]]
                  /\ UNCHANGED <<lease, aborted>>
    /\ UNCHANGED <<db, catalog, source, faults>>

createProviderIngestionRecord(r) ==
    /\ pc[r] = "createProviderIngestionRecord"
    /\ \/ /\ UniqueIndexAllows
          /\ FreshIds # {}
          /\ ingestions' = [ingestions EXCEPT ![NewId] = NewRow]
          /\ job' = [job EXCEPT ![r] = [NoJob EXCEPT !.ingestion = NewId]]
          /\ Goto(r, "setProviderBursting")
          /\ UNCHANGED <<lease, aborted>>
       \/ /\ ~UniqueIndexAllows
          /\ EndTick(r)
          /\ UNCHANGED ingestions
    /\ UNCHANGED <<marks, catalog, source, faults>>

\* The 'rest' branch: two transactions.
clearFinishedIngestions(r) ==
    /\ pc[r] = "clearFinishedIngestions"
    /\ ingestions' = KeptRows
    /\ marks' = KeptMarks
    /\ Goto(r, "setProviderComplete")
    /\ UNCHANGED <<catalog, source, lease, job, aborted, faults>>

setProviderComplete(r) ==
    LET i == job[r].ingestion IN
    /\ pc[r] = "setProviderComplete"
    /\ updateIngestionRecordById(i, [ingestions[i] EXCEPT
            !.nextAction = "nothing (done)", !.restCompleted = TRUE,
            !.status = "complete", !.open = FALSE])
    /\ EndTick(r)
    /\ UNCHANGED <<marks, catalog, source, faults>>

setProviderIngesting(r) ==
    LET i == job[r].ingestion IN
    /\ pc[r] = "setProviderIngesting"
    /\ updateIngestionRecordById(i, [ingestions[i] EXCEPT !.nextAction = "ingest"])
    /\ EndTick(r)
    /\ UNCHANGED <<marks, catalog, source, faults>>

setProviderCanceled(r) ==
    LET i == job[r].ingestion IN
    /\ pc[r] = "setProviderCanceled"
    /\ updateIngestionRecordById(i, [ingestions[i] EXCEPT
            !.nextAction = "nothing (canceled)", !.restCompleted = TRUE,
            !.status = "complete", !.open = FALSE])
    /\ EndTick(r)
    /\ UNCHANGED <<marks, catalog, source, faults>>

-----------------------------------------------------------------------------
(* The 'ingest' branch: one burst.                                         *)

setProviderBursting(r) ==
    LET i == job[r].ingestion IN
    /\ pc[r] = "setProviderBursting"
    /\ updateIngestionRecordById(i, [ingestions[i] EXCEPT !.status = "bursting"])
    /\ Goto(r, "getLastMark")
    /\ UNCHANGED <<marks, catalog, source, lease, job, aborted, faults>>

\* The marks that `orderBy('sequence', 'desc').first()` may answer.
LastMarks(i) == {m \in MarksOf(i) : \A n \in MarksOf(i) : n.sequence <= m.sequence}

getLastMark(r) ==
    LET i == job[r].ingestion IN
    /\ pc[r] = "getLastMark"
    /\ \/ /\ MarksOf(i) = {}
          /\ job' = [job EXCEPT ![r] = [@ EXCEPT !.cursor = 0, !.sequence = 0]]
       \/ \E m \in LastMarks(i) :
             job' = [job EXCEPT ![r] = [@ EXCEPT !.cursor   = m.cursor,
                                                 !.sequence = m.sequence + 1]]
    /\ Goto(r, "next")
    /\ UNCHANGED <<db, catalog, source, lease, aborted, faults>>

\* provider.next answers the page at the cursor and the cursor after it.
next(r) ==
    LET c == job[r].cursor IN
    /\ pc[r] = "next"
    /\ job' = [job EXCEPT ![r] = [@ EXCEPT !.batch  = Page(c),
                                           !.done   = IsDone(c),
                                           !.cursor = After(c)]]
    /\ Goto(r, "createMark")
    /\ UNCHANGED <<db, catalog, source, lease, aborted, faults>>

\* mark(): what follows once the marked entities are recorded.
AfterEntities(r) == IF job[r].done THEN "applyMutation" ELSE "computeRemoved"

createMark(r) ==
    LET j == job[r] IN
    /\ pc[r] = "createMark"
    /\ marks' = marks \cup {[ingestion |-> j.ingestion, sequence |-> j.sequence,
                             by |-> r, cursor |-> j.cursor, refs |-> {}]}
    /\ Goto(r, IF j.batch # {} THEN "createMarkEntities" ELSE AfterEntities(r))
    /\ UNCHANGED <<ingestions, catalog, source, lease, job, aborted, faults>>

IsMarkOf(m, r) == /\ m.ingestion = job[r].ingestion
                  /\ m.sequence = job[r].sequence
                  /\ m.by = r

createMarkEntities(r) ==
    /\ pc[r] = "createMarkEntities"
    /\ marks' = {IF IsMarkOf(m, r) THEN [m EXCEPT !.refs = job[r].batch] ELSE m :
                   m \in marks}
    /\ Goto(r, AfterEntities(r))
    /\ UNCHANGED <<ingestions, catalog, source, lease, job, aborted, faults>>

computeRemovedStep(r) ==
    /\ pc[r] = "computeRemoved"
    /\ job' = [job EXCEPT ![r] =
                 [@ EXCEPT !.removed = computeRemoved(job[r].ingestion)]]
    /\ Goto(r, "applyMutation")
    /\ UNCHANGED <<db, catalog, source, lease, aborted, faults>>

\* The page is committed: its entities are forgotten.
PageDone(j) == [j EXCEPT !.batch = {}, !.removed = {}]

\* A delta mutation; then the burst ends or goes on with the next page.
applyMutation(r) ==
    LET j == job[r] IN
    /\ pc[r] = "applyMutation"
    /\ catalog' = (catalog \ j.removed) \cup j.batch
    /\ \/ /\ aborted[r] \/ j.done
          /\ Goto(r, "settle")
          /\ job' = [job EXCEPT ![r] = PageDone(j)]
       \/ /\ ~aborted[r] /\ ~j.done
          /\ Goto(r, "next")
          /\ job' = [job EXCEPT ![r] = [PageDone(j) EXCEPT !.sequence = @ + 1]]
    /\ UNCHANGED <<db, source, lease, aborted, faults>>

\* Faulty: the status is left, or the record is opened again.
RestingKeepsStatus(i) ==
    updateIngestionRecordById(i, [ingestions[i] EXCEPT
        !.nextAction = "rest", !.due = FALSE])
RestingReopens(i) ==
    updateIngestionRecordById(i, [ingestions[i] EXCEPT
        !.nextAction = "rest", !.due = FALSE, !.status = "resting", !.open = TRUE])

\* setProviderResting, or setProviderInterstitial when pages are left.
setProviderResting(i) ==
    updateIngestionRecordById(i, [ingestions[i] EXCEPT
        !.nextAction = "rest", !.due = FALSE, !.status = "resting"])

setProviderInterstitial(i) ==
    updateIngestionRecordById(i, [ingestions[i] EXCEPT
        !.attempts = 0, !.status = "interstitial"])

settle(r) ==
    /\ pc[r] = "settle"
    /\ IF job[r].done THEN setProviderResting(job[r].ingestion)
                      ELSE setProviderInterstitial(job[r].ingestion)
    /\ EndTick(r)
    /\ UNCHANGED <<marks, catalog, source, faults>>

\* The attempts recorded when a burst has failed.
AttemptsAfterFailure(r) == job[r].attempts + 1

\* The catch block.  `attempts` is the value read when the tick began.
setProviderBackoff(r) ==
    LET i == job[r].ingestion IN
    /\ pc[r] = "setProviderBackoff"
    /\ updateIngestionRecordById(i, [ingestions[i] EXCEPT
            !.nextAction = "backoff", !.attempts = AttemptsAfterFailure(r),
            !.due = FALSE, !.status = "backing off"])
    /\ EndTick(r)
    /\ UNCHANGED <<marks, catalog, source, faults>>

setProviderCanceling(r) ==
    LET i == job[r].ingestion IN
    /\ pc[r] = "setProviderCanceling"
    /\ updateIngestionRecordById(i, [ingestions[i] EXCEPT
            !.nextAction = "cancel", !.due = TRUE, !.status = "canceling"])
    /\ EndTick(r)
    /\ UNCHANGED <<marks, catalog, source, faults>>

-----------------------------------------------------------------------------
(* What goes wrong, and the environment.                                   *)

\* A call of the burst throws and the catch block is entered.
Throw(r) ==
    /\ faults < MaxFaults
    /\ pc[r] \in TrySteps
    /\ Goto(r, "setProviderBackoff")
    /\ faults' = faults + 1
    /\ UNCHANGED <<db, catalog, source, lease, job, aborted>>

\* The provider throws an error whose message is 'CANCEL'.
ThrowCancel(r) ==
    /\ faults < MaxFaults
    /\ pc[r] = "next"
    /\ Goto(r, "setProviderCanceling")
    /\ faults' = faults + 1
    /\ UNCHANGED <<db, catalog, source, lease, job, aborted>>

\* A call outside the try block throws, the catch block's own update among
\* them: taskFn rejects and the tick is over.
TaskFails(r) ==
    /\ faults < MaxFaults
    /\ pc[r] \notin TrySteps \cup {"idle"}
    /\ EndTick(r)
    /\ faults' = faults + 1
    /\ UNCHANGED <<db, catalog, source>>

\* The process dies and comes back; its lock stays until it expires.
Crash(r) ==
    /\ faults < MaxFaults
    /\ pc[r] # "idle"
    /\ Goto(r, "idle")
    /\ job' = [job EXCEPT ![r] = NoJob]
    /\ faults' = faults + 1
    /\ UNCHANGED <<db, catalog, source, lease, aborted>>

\* burstLength has passed: the signal is aborted and the lock expires.
Expire(r) ==
    /\ lease = r
    /\ lease' = NoReplica
    /\ aborted' = [aborted EXCEPT ![r] = TRUE]
    /\ UNCHANGED <<db, catalog, source, engine, faults>>

\* The next_action_at of a row passes.
Elapse ==
    /\ \E i \in Ids : /\ ~ingestions[i].due
                      /\ ingestions' = [ingestions EXCEPT ![i].due = TRUE]
    /\ UNCHANGED <<marks, catalog, source, lease, engine, aborted, faults>>

\* The data changes between two ingestions.
SourceChanges ==
    /\ OpenIds = {}
    /\ source' \in Listings \ {source}
    /\ UNCHANGED <<db, catalog, lease, engine, aborted, faults>>

\* What the engine itself does next on replica r.
TaskStep(r) ==
    \/ getCurrentAction(r)
    \/ createProviderIngestionRecord(r)
    \/ clearFinishedIngestions(r)
    \/ setProviderComplete(r)
    \/ setProviderIngesting(r)
    \/ setProviderCanceled(r)
    \/ setProviderBursting(r)
    \/ getLastMark(r)
    \/ next(r)
    \/ createMark(r)
    \/ createMarkEntities(r)
    \/ computeRemovedStep(r)
    \/ applyMutation(r)
    \/ settle(r)
    \/ setProviderBackoff(r)
    \/ setProviderCanceling(r)

Fault(r) == Throw(r) \/ ThrowCancel(r) \/ TaskFails(r) \/ Crash(r)

Next ==
    \/ \E r \in Replicas : BeginTick(r) \/ TaskStep(r) \/ Fault(r) \/ Expire(r)
    \/ Elapse
    \/ SourceChanges

Spec == Init /\ [][Next]_vars

\* The scheduler keeps calling the task, a running task takes its steps, an
\* expired lock is released and time passes.  Nothing forces a fault, nor the
\* data source to change.
Fairness ==
    /\ \A r \in Replicas : WF_vars(TaskStep(r)) /\ WF_vars(Expire(r))
    /\ WF_vars(\E r \in Replicas : BeginTick(r))
    /\ WF_vars(Elapse)

LiveSpec == Spec /\ Fairness

-----------------------------------------------------------------------------
(* Safety.                                                                 *)

\* Every variable keeps its type.
TypeOK ==
    /\ ingestions \in [Ids -> Row]
    /\ marks \subseteq Mark
    /\ catalog \subseteq Entities
    /\ source \in Listings
    /\ lease \in Replicas \cup {NoReplica}
    /\ pc \in [Replicas -> Steps]
    /\ job \in [Replicas -> Job]
    /\ aborted \in [Replicas -> BOOLEAN]
    /\ faults \in 0..MaxFaults

\* At most one ingestion of the provider is under way, however the replicas
\* interleave: getCurrentAction reads and inserts in two transactions.
OneOpenRecord == \A i, j \in OpenIds : i = j

\* Bursts of one ingestion that overlap, each from the mark that was the last when
\* it began (getCurrentAction, getLastMark), leave no page out: behind every page
\* that has a mark, those before it have one too.  A page may have its mark and
\* not its entities; see FaultCostsOnePage.
NoPageSkipped ==
    \A i \in OpenIds : \A m \in MarksOf(i) : \A k \in 1..m.cursor :
        \E n \in MarksOf(i) : n.cursor = k

\* Nor does their numbering, which getLastMark relies on.
SequencesContiguous ==
    \A i \in OpenIds : \A m \in MarksOf(i) : \A s \in 0..m.sequence :
        \E n \in MarksOf(i) : n.sequence = s

\* The provider rests only when every page of its source has been marked.
RestsAfterLastPage ==
    \A i \in OpenIds : ingestions[i].nextAction = "rest" =>
        \A k \in 1..Len(source) : \E m \in MarksOf(i) : m.cursor = k

\* What GET /:provider reports, the status, tells what the engine does next.
StatusTellsNextAction ==
    \A i \in Ids : ingestions[i].present =>
        LET row == ingestions[i] IN
        /\ row.status = "resting"   <=> row.nextAction = "rest"
        /\ row.status = "canceling" <=> row.nextAction = "cancel"
        /\ row.status = "complete"  <=> ~row.open
        /\ row.nextAction = "backoff" => row.status = "backing off"
        /\ row.open <=> row.nextAction \in {"rest", "ingest", "backoff", "cancel"}

\* An error, a cancellation or a crash costs the catalog no more than the page it fell
\* on: the burst that resumes goes on behind it (createMark has moved the cursor), and
\* neither the retry nor a sweep takes another page of the cycle away.
LostPages(i) ==
    {k \in 1..Len(source) :
        /\ \E m \in MarksOf(i) : m.cursor = k
        /\ ~(source[k] \subseteq catalog)
        /\ \A r \in Replicas : job[r].ingestion = i => job[r].batch # source[k]}
FaultCostsOnePage == \A i \in OpenIds : Cardinality(LostPages(i)) <= faults

\* A cycle that ran without an error leaves the catalog equal to the source:
\* nothing of the source is missing, nothing stale is left.
Rested == {i \in OpenIds : ingestions[i].nextAction = "rest"}
RestedCatalogIsSource ==
    faults = 0 /\ Rested # {} /\ (\A r \in Replicas : pc[r] = "idle") =>
        catalog = SourceEntities

-----------------------------------------------------------------------------
(* What a step may never do.                                               *)

\* A finished ingestion never becomes the current one again.
FinishedStaysFinished ==
    [][\A i \in Ids : Closed(i) => ~ingestions'[i].open]_vars

-----------------------------------------------------------------------------
(* Liveness.                                                               *)

\* Every ingestion is finished in the end, and another one follows.
KeepsCycling ==
    /\ \A i \in Ids : IsOpen(i) ~> ~IsOpen(i)
    /\ []<>(OpenIds # {})

\* However pages were lost to errors and crashes, the catalog agrees with
\* the source again and again: the next cycle repairs it.
CatalogConverges == []<>(catalog = SourceEntities)

-----------------------------------------------------------------------------
(* What the documentation says of the engine.                              *)

\* README.md:26: "All unmarked entities are deleted at the end of the cycle".
SweepsAtEndOfCycle ==
    [][\A r \in Replicas :
         pc[r] = "applyMutation" /\ ~(catalog \subseteq catalog') => job[r].done]_vars
=============================================================================
