--------------------- MODULE IncrementalIngestionProofs ---------------------
(* Theorems about IncrementalIngestion, for every value of its constants.  *)
EXTENDS IncrementalIngestionCycle, TLAPS

(* What a task needs of its own record, and the rows of each other.        *)

OpenIsPresent == \A i \in Ids : IsOpen(i) => ingestions[i].present

\* A task that has read or created a record works on it until the tick ends.
WithoutRecord == {"idle", "getCurrentAction", "createProviderIngestionRecord"}
JobHasRecord  == \A r \in Replicas :
                    pc[r] \notin WithoutRecord => job[r].ingestion \in Ids

Inv == TypeOK /\ OpenIsPresent /\ JobHasRecord /\ OneOpenRecord

USE ReplicasAssumption, IdsAssumption, MaxFaultsAssumption

-----------------------------------------------------------------------------
(* Lemmas about the operators of the specification.                        *)

\* The id drawn for a new row is one that nothing refers to.
LEMMA NewIdIsFresh == FreshIds # {} => NewId \in FreshIds
  BY DEF NewId

LEMMA NewRowType == NewRow \in Row /\ NoRow \in Row
  BY DEF NewRow, NoRow, Row, Statuses, NextActions

LEMMA NoJobType == NoJob \in Job
  BY DEF NoJob, Job

\* An update by id keeps the type of the table and every other row.
LEMMA UpdateById ==
  ASSUME TypeOK, NEW i \in Ids, NEW row \in Row, updateIngestionRecordById(i, row)
  PROVE  /\ ingestions' \in [Ids -> Row]
         /\ \A k \in Ids : k # i => ingestions'[k] = ingestions[k]
         /\ ingestions[i].present => ingestions'[i] = row
         /\ ~ingestions[i].present => ingestions'[i] = ingestions[i]
  BY DEF TypeOK, updateIngestionRecordById

\* The values a handler writes are values of the columns.
LEMMA RowUpdates ==
  ASSUME TypeOK, NEW i \in Ids, NEW s \in Statuses, NEW n \in NextActions,
         NEW d \in BOOLEAN, NEW a \in Nat
  PROVE  /\ [ingestions[i] EXCEPT !.status = s] \in Row
         /\ [ingestions[i] EXCEPT !.nextAction = n] \in Row
         /\ [ingestions[i] EXCEPT !.attempts = a, !.status = s] \in Row
         /\ [ingestions[i] EXCEPT !.nextAction = n, !.due = d, !.status = s] \in Row
         /\ [ingestions[i] EXCEPT !.nextAction = n, !.restCompleted = TRUE,
                                  !.status = s, !.open = FALSE] \in Row
         /\ [ingestions[i] EXCEPT !.nextAction = n, !.attempts = a,
                                  !.due = d, !.status = s] \in Row
<1>0. ingestions[i] \in Row
  BY DEF TypeOK
<1>1. [ingestions[i] EXCEPT !.status = s] \in Row
  BY <1>0 DEF Row
<1>2. [ingestions[i] EXCEPT !.nextAction = n] \in Row
  BY <1>0 DEF Row
<1>3. [ingestions[i] EXCEPT !.attempts = a, !.status = s] \in Row
  BY <1>0 DEF Row
<1>4. [ingestions[i] EXCEPT !.nextAction = n, !.due = d, !.status = s] \in Row
  BY <1>0 DEF Row
<1>5. [ingestions[i] EXCEPT !.nextAction = n, !.restCompleted = TRUE,
                            !.status = s, !.open = FALSE] \in Row
  BY <1>0 DEF Row
<1>6. [ingestions[i] EXCEPT !.nextAction = n, !.attempts = a,
                            !.due = d, !.status = s] \in Row
  BY <1>0 DEF Row
<1> QED
  BY <1>1, <1>2, <1>3, <1>4, <1>5, <1>6

-----------------------------------------------------------------------------
(* The type invariant.                                                     *)

LEMMA InitInv == Init => Inv
<1> SUFFICES ASSUME Init PROVE Inv
  OBVIOUS
<1>1. TypeOK
  BY NewRowType, NoJobType DEF Init, TypeOK, Steps
<1>2. OpenIsPresent /\ OneOpenRecord
  BY DEF Init, OpenIsPresent, OneOpenRecord, OpenIds, IsOpen, NoRow
<1>3. JobHasRecord
  BY DEF Init, JobHasRecord, WithoutRecord
<1> QED
  BY <1>1, <1>2, <1>3 DEF Inv

\* The end of a tick keeps the types of the task's variables.
LEMMA EndTickType ==
  ASSUME TypeOK, NEW r \in Replicas, EndTick(r)
  PROVE  /\ pc' \in [Replicas -> Steps]
         /\ job' \in [Replicas -> Job]
         /\ lease' \in Replicas \cup {NoReplica}
         /\ aborted' \in [Replicas -> BOOLEAN]
  BY NoJobType DEF TypeOK, EndTick, Goto, Steps

\* Every step of a task keeps the types.
LEMMA TaskStepType ==
  ASSUME TypeOK, JobHasRecord, NEW r \in Replicas, TaskStep(r)
  PROVE  TypeOK'
<1> USE DEF Goto
<1>0. job[r] \in Job /\ (pc[r] \notin WithoutRecord => job[r].ingestion \in Ids)
  BY DEF TypeOK, JobHasRecord
<1>1. CASE getCurrentAction(r)
  <2>1. ASSUME NEW i \in OpenIds
        PROVE  /\ Branch(ingestions[i]) \in Steps
               /\ [NoJob EXCEPT !.ingestion = i, !.attempts = ingestions[i].attempts] \in Job
    BY DEF OpenIds, TypeOK, Branch, Steps, TrySteps, NoJob, Job, Row
  <2> QED
    BY <1>1, <2>1, EndTickType DEF getCurrentAction, TypeOK, Steps, db
<1>2. CASE createProviderIngestionRecord(r)
  <2>1. CASE UniqueIndexAllows
    <3>1. /\ NewId \in Ids
          /\ [NoJob EXCEPT !.ingestion = NewId] \in Job
      BY <1>2, <2>1, NewIdIsFresh DEF createProviderIngestionRecord, FreshIds, NoJob, Job
    <3> QED
      BY <1>2, <2>1, <3>1, NewRowType
      DEF createProviderIngestionRecord, TypeOK, Steps, TrySteps
  <2>2. CASE ~UniqueIndexAllows
    BY <1>2, <2>2, EndTickType DEF createProviderIngestionRecord, TypeOK
  <2> QED
    BY <2>1, <2>2
<1>3. CASE clearFinishedIngestions(r)
  <2>1. KeptRows \in [Ids -> Row] /\ KeptMarks \subseteq Mark
    BY NewRowType DEF KeptRows, KeptMarks, TypeOK
  <2> QED
    BY <1>3, <2>1 DEF clearFinishedIngestions, TypeOK, Steps
<1>4. CASE setProviderComplete(r)
  BY <1>0, <1>4, EndTickType, UpdateById, RowUpdates
  DEF setProviderComplete, TypeOK, WithoutRecord, Statuses, NextActions
<1>5. CASE setProviderIngesting(r)
  BY <1>0, <1>5, EndTickType, UpdateById, RowUpdates
  DEF setProviderIngesting, TypeOK, WithoutRecord, Statuses, NextActions
<1>6. CASE setProviderCanceled(r)
  BY <1>0, <1>6, EndTickType, UpdateById, RowUpdates
  DEF setProviderCanceled, TypeOK, WithoutRecord, Statuses, NextActions
<1>7. CASE setProviderBursting(r)
  BY <1>0, <1>7, UpdateById, RowUpdates
  DEF setProviderBursting, TypeOK, WithoutRecord, Statuses, NextActions, Steps, TrySteps
<1>8. CASE getLastMark(r)
  <2>1. [job[r] EXCEPT !.cursor = 0, !.sequence = 0] \in Job
    BY <1>0 DEF Job
  <2>2. ASSUME NEW m \in LastMarks(job[r].ingestion)
        PROVE  [job[r] EXCEPT !.cursor = m.cursor, !.sequence = m.sequence + 1] \in Job
    <3>1. m.cursor \in Nat /\ m.sequence + 1 \in Nat
      BY DEF LastMarks, MarksOf, TypeOK, Mark
    <3> QED
      BY <1>0, <3>1 DEF Job
  <2> QED
    BY <1>8, <2>1, <2>2 DEF getLastMark, TypeOK, Steps, TrySteps, db
<1>9. CASE next(r)
  <2>1. source \in Seq(SUBSET Entities)
    BY ListingsAssumption DEF TypeOK
  <2>2. job[r].cursor \in Nat
    BY <1>0 DEF Job
  <2>3. Page(job[r].cursor) \in SUBSET Entities
    BY <2>1, <2>2 DEF Page
  <2>4. After(job[r].cursor) \in Nat /\ IsDone(job[r].cursor) \in BOOLEAN
    BY <2>1, <2>2 DEF After, IsDone
  <2>5. [job[r] EXCEPT !.batch = Page(job[r].cursor), !.done = IsDone(job[r].cursor),
                       !.cursor = After(job[r].cursor)] \in Job
    BY <1>0, <2>3, <2>4 DEF Job
  <2> QED
    BY <1>9, <2>5 DEF next, TypeOK, Steps, TrySteps, db
<1>10. CASE createMark(r)
  <2>1. [ingestion |-> job[r].ingestion, sequence |-> job[r].sequence, by |-> r,
         cursor |-> job[r].cursor, refs |-> {}] \in Mark
    BY <1>0, <1>10 DEF createMark, Job, Mark, WithoutRecord
  <2> QED
    BY <1>10, <2>1 DEF createMark, AfterEntities, TypeOK, Steps, TrySteps
<1>11. CASE createMarkEntities(r)
  <2>1. ASSUME NEW m \in marks PROVE [m EXCEPT !.refs = job[r].batch] \in Mark
    BY <1>0 DEF TypeOK, Mark, Job
  <2> QED
    BY <1>11, <2>1 DEF createMarkEntities, AfterEntities, TypeOK, Steps, TrySteps
<1>12. CASE computeRemovedStep(r)
  <2>1. [job[r] EXCEPT !.removed = computeRemoved(job[r].ingestion)] \in Job
    BY <1>0 DEF computeRemoved, TypeOK, Job
  <2> QED
    BY <1>12, <2>1 DEF computeRemovedStep, TypeOK, Steps, TrySteps, db
<1>13. CASE applyMutation(r)
  <2>1. job[r].sequence + 1 \in Nat /\ job[r].batch \subseteq Entities
    BY <1>0 DEF Job
  <2>2. PageDone(job[r]) \in Job /\ PageDone(job[r]).sequence = job[r].sequence
    BY <1>0 DEF Job, PageDone
  <2>3. [PageDone(job[r]) EXCEPT !.sequence = @ + 1] \in Job
    BY <2>1, <2>2 DEF Job
  <2>4. pc' \in [Replicas -> Steps] /\ job' \in [Replicas -> Job]
    BY <1>13, <2>2, <2>3 DEF applyMutation, TypeOK, Steps, TrySteps
  <2>5. catalog' \subseteq Entities
    BY <1>13, <2>1 DEF applyMutation, TypeOK
  <2> QED
    BY <1>13, <2>4, <2>5 DEF applyMutation, TypeOK, db
<1>14. CASE settle(r)
  BY <1>0, <1>14, EndTickType, UpdateById, RowUpdates
  DEF settle, setProviderResting, setProviderInterstitial, TypeOK, WithoutRecord,
      Statuses, NextActions
<1>15. CASE setProviderBackoff(r)
  <2>1. AttemptsAfterFailure(r) \in Nat
    BY <1>0 DEF AttemptsAfterFailure, Job
  <2> QED
    BY <1>0, <1>15, <2>1, EndTickType, UpdateById, RowUpdates
    DEF setProviderBackoff, TypeOK, WithoutRecord, Statuses, NextActions
<1>16. CASE setProviderCanceling(r)
  BY <1>0, <1>16, EndTickType, UpdateById, RowUpdates
  DEF setProviderCanceling, TypeOK, WithoutRecord, Statuses, NextActions
<1> QED
  BY <1>1, <1>2, <1>3, <1>4, <1>5, <1>6, <1>7, <1>8, <1>9, <1>10, <1>11, <1>12,
     <1>13, <1>14, <1>15, <1>16 DEF TaskStep

LEMMA NextType == TypeOK /\ JobHasRecord /\ [Next]_vars => TypeOK'
<1> SUFFICES ASSUME TypeOK, JobHasRecord, [Next]_vars PROVE TypeOK'
  OBVIOUS
<1>1. ASSUME NEW r \in Replicas, BeginTick(r) PROVE TypeOK'
  BY <1>1 DEF BeginTick, Goto, TypeOK, Steps, db
<1>2. ASSUME NEW r \in Replicas, TaskStep(r) PROVE TypeOK'
  BY <1>2, TaskStepType
<1>3. ASSUME NEW r \in Replicas, Fault(r) PROVE TypeOK'
  BY <1>3, NoJobType, EndTickType
  DEF Fault, Throw, ThrowCancel, TaskFails, Crash, Goto, TypeOK, Steps, db
<1>4. ASSUME NEW r \in Replicas, Expire(r) PROVE TypeOK'
  BY <1>4 DEF Expire, TypeOK, db, engine
<1>5. CASE Elapse
  <2>1. ASSUME NEW i \in Ids PROVE [ingestions EXCEPT ![i].due = TRUE] \in [Ids -> Row]
    BY DEF TypeOK, Row
  <2> QED
    BY <1>5, <2>1 DEF Elapse, TypeOK, engine
<1>6. CASE SourceChanges
  BY <1>6 DEF SourceChanges, TypeOK, db, engine
<1>7. CASE UNCHANGED vars
  BY <1>7 DEF vars, TypeOK
<1> QED
  BY <1>1, <1>2, <1>3, <1>4, <1>5, <1>6, <1>7 DEF Next

-----------------------------------------------------------------------------
(* What a step does to the rows.                                           *)

\* A row that is open afterwards was open before, and its next action is
\* 'rest' only if it was before or a burst that is done has just settled.
RowsOnlyClose ==
  \A k \in Ids : ingestions'[k].open =>
     /\ ingestions[k].open
     /\ ingestions'[k].present
     /\ ingestions'[k].nextAction = "rest" =>
          \/ ingestions[k].nextAction = "rest"
          \/ \E r \in Replicas : /\ pc[r] = "settle"
                                 /\ job[r].done
                                 /\ job[r].ingestion = k

\* The one step that opens a row.
RowCreated ==
  /\ OpenIds = {}
  /\ NewId \in FreshIds
  /\ ingestions' = [ingestions EXCEPT ![NewId] = NewRow]

LEMMA UpdateOnlyCloses ==
  ASSUME Inv, NEW i \in Ids, NEW row \in Row, updateIngestionRecordById(i, row),
         row.open => ingestions[i].open, row.present = ingestions[i].present,
         row.nextAction = "rest" =>
           \/ ingestions[i].nextAction = "rest"
           \/ \E r \in Replicas : pc[r] = "settle" /\ job[r].done /\ job[r].ingestion = i
  PROVE  RowsOnlyClose
<1> SUFFICES ASSUME NEW k \in Ids, ingestions'[k].open
             PROVE  /\ ingestions[k].open
                    /\ ingestions'[k].present
                    /\ ingestions'[k].nextAction = "rest" =>
                         \/ ingestions[k].nextAction = "rest"
                         \/ \E r \in Replicas : /\ pc[r] = "settle"
                                                /\ job[r].done
                                                /\ job[r].ingestion = k
  BY DEF RowsOnlyClose
<1>1. CASE k # i \/ ~ingestions[i].present
  BY <1>1, UpdateById DEF Inv, OpenIsPresent, IsOpen
<1>2. CASE k = i /\ ingestions[i].present
  BY <1>2, UpdateById DEF Inv
<1> QED
  BY <1>1, <1>2

LEMMA UnchangedOnlyCloses ==
  ASSUME Inv, ingestions' = ingestions
  PROVE  RowsOnlyClose
  BY DEF Inv, OpenIsPresent, IsOpen, RowsOnlyClose

LEMMA TaskStepRows ==
  ASSUME Inv, NEW r \in Replicas, TaskStep(r)
  PROVE  RowsOnlyClose \/ (RowCreated /\ createProviderIngestionRecord(r))
<1>0. /\ pc[r] \notin WithoutRecord => job[r].ingestion \in Ids
      /\ ingestions \in [Ids -> Row]
  BY DEF Inv, JobHasRecord, TypeOK
<1> DEFINE i == job[r].ingestion
<1>1. CASE getCurrentAction(r) \/ getLastMark(r) \/ next(r) \/ createMark(r)
           \/ createMarkEntities(r) \/ computeRemovedStep(r) \/ applyMutation(r)
  BY <1>1, UnchangedOnlyCloses
  DEF getCurrentAction, getLastMark, next, createMark, createMarkEntities,
      computeRemovedStep, applyMutation, db
<1>2. CASE createProviderIngestionRecord(r)
  BY <1>2, NewIdIsFresh, UnchangedOnlyCloses
  DEF createProviderIngestionRecord, RowCreated, UniqueIndexAllows
<1>3. CASE clearFinishedIngestions(r)
  BY <1>0, <1>3 DEF clearFinishedIngestions, KeptRows, Closed, NoRow, RowsOnlyClose,
                    Inv, OpenIsPresent, IsOpen
<1>4. CASE setProviderComplete(r)
  <2> DEFINE row == [ingestions[i] EXCEPT !.nextAction = "nothing (done)",
                       !.restCompleted = TRUE, !.status = "complete", !.open = FALSE]
  <2>1. i \in Ids /\ updateIngestionRecordById(i, row)
    BY <1>0, <1>4 DEF setProviderComplete, WithoutRecord
  <2>2. row \in Row
    BY <2>1, RowUpdates DEF Inv, Statuses, NextActions
  <2>3. ~row.open /\ row.present = ingestions[i].present /\ row.nextAction # "rest"
    BY <1>0, <2>1 DEF Row
  <2> QED
    BY <2>1, <2>2, <2>3, UpdateOnlyCloses
<1>5. CASE setProviderIngesting(r)
  <2> DEFINE row == [ingestions[i] EXCEPT !.nextAction = "ingest"]
  <2>1. i \in Ids /\ updateIngestionRecordById(i, row)
    BY <1>0, <1>5 DEF setProviderIngesting, WithoutRecord
  <2>2. row \in Row
    BY <2>1, RowUpdates DEF Inv, Statuses, NextActions
  <2>3. row.open = ingestions[i].open /\ row.present = ingestions[i].present /\ row.nextAction # "rest"
    BY <1>0, <2>1 DEF Row
  <2> QED
    BY <2>1, <2>2, <2>3, UpdateOnlyCloses
<1>6. CASE setProviderCanceled(r)
  <2> DEFINE row == [ingestions[i] EXCEPT !.nextAction = "nothing (canceled)",
                       !.restCompleted = TRUE, !.status = "complete", !.open = FALSE]
  <2>1. i \in Ids /\ updateIngestionRecordById(i, row)
    BY <1>0, <1>6 DEF setProviderCanceled, WithoutRecord
  <2>2. row \in Row
    BY <2>1, RowUpdates DEF Inv, Statuses, NextActions
  <2>3. ~row.open /\ row.present = ingestions[i].present /\ row.nextAction # "rest"
    BY <1>0, <2>1 DEF Row
  <2> QED
    BY <2>1, <2>2, <2>3, UpdateOnlyCloses
<1>7. CASE setProviderBursting(r)
  <2> DEFINE row == [ingestions[i] EXCEPT !.status = "bursting"]
  <2>1. i \in Ids /\ updateIngestionRecordById(i, row)
    BY <1>0, <1>7 DEF setProviderBursting, WithoutRecord
  <2>2. row \in Row
    BY <2>1, RowUpdates DEF Inv, Statuses, NextActions
  <2>3. row.open = ingestions[i].open /\ row.present = ingestions[i].present /\ row.nextAction = ingestions[i].nextAction
    BY <1>0, <2>1 DEF Row
  <2> QED
    BY <2>1, <2>2, <2>3, UpdateOnlyCloses
<1>8. CASE settle(r)
  <2>1. i \in Ids /\ pc[r] = "settle" /\ job[r] \in Job
    BY <1>0, <1>8 DEF settle, WithoutRecord, Inv, TypeOK
  <2>2. CASE job[r].done
    <3> DEFINE row == [ingestions[i] EXCEPT !.nextAction = "rest", !.due = FALSE,
                                            !.status = "resting"]
    <3>1. updateIngestionRecordById(i, row)
      BY <1>8, <2>2 DEF settle, setProviderResting
    <3>2. row \in Row
      BY <2>1, RowUpdates DEF Inv, Statuses, NextActions
    <3>3. row.open = ingestions[i].open /\ row.present = ingestions[i].present
      BY <1>0, <2>1 DEF Row
    <3> QED
      BY <2>1, <2>2, <3>1, <3>2, <3>3, UpdateOnlyCloses
  <2>3. CASE ~job[r].done
    <3> DEFINE row == [ingestions[i] EXCEPT !.attempts = 0, !.status = "interstitial"]
    <3>1. updateIngestionRecordById(i, row)
      BY <1>8, <2>3 DEF settle, setProviderInterstitial
    <3>2. row \in Row
      BY <2>1, RowUpdates DEF Inv, Statuses, NextActions
    <3>3. /\ row.open = ingestions[i].open /\ row.present = ingestions[i].present
          /\ row.nextAction = ingestions[i].nextAction
      BY <1>0, <2>1 DEF Row
    <3> QED
      BY <2>1, <3>1, <3>2, <3>3, UpdateOnlyCloses
  <2> QED
    BY <2>2, <2>3
<1>9. CASE setProviderBackoff(r)
  <2> DEFINE row == [ingestions[i] EXCEPT !.nextAction = "backoff",
                       !.attempts = AttemptsAfterFailure(r), !.due = FALSE,
                       !.status = "backing off"]
  <2>0. i \in Ids /\ updateIngestionRecordById(i, row)
    BY <1>0, <1>9 DEF setProviderBackoff, WithoutRecord
  <2>1. AttemptsAfterFailure(r) \in Nat
    BY DEF AttemptsAfterFailure, Inv, TypeOK, Job
  <2>2. row \in Row
    BY <2>0, <2>1, RowUpdates DEF Inv, Statuses, NextActions
  <2>3. /\ row.open = ingestions[i].open /\ row.present = ingestions[i].present
        /\ row.nextAction # "rest"
    BY <1>0, <2>0 DEF Row
  <2> QED
    BY <2>0, <2>2, <2>3, UpdateOnlyCloses
<1>10. CASE setProviderCanceling(r)
  <2> DEFINE row == [ingestions[i] EXCEPT !.nextAction = "cancel", !.due = TRUE,
                       !.status = "canceling"]
  <2>1. i \in Ids /\ updateIngestionRecordById(i, row)
    BY <1>0, <1>10 DEF setProviderCanceling, WithoutRecord
  <2>2. row \in Row
    BY <2>1, RowUpdates DEF Inv, Statuses, NextActions
  <2>3. row.open = ingestions[i].open /\ row.present = ingestions[i].present /\ row.nextAction # "rest"
    BY <1>0, <2>1 DEF Row
  <2> QED
    BY <2>1, <2>2, <2>3, UpdateOnlyCloses
<1> QED
  BY <1>1, <1>2, <1>3, <1>4, <1>5, <1>6, <1>7, <1>8, <1>9, <1>10 DEF TaskStep

LEMMA NextRows ==
  ASSUME Inv, [Next]_vars
  PROVE  RowsOnlyClose \/ (\E r \in Replicas : RowCreated /\ createProviderIngestionRecord(r))
<1>1. ASSUME NEW r \in Replicas, TaskStep(r)
      PROVE  RowsOnlyClose \/ (RowCreated /\ createProviderIngestionRecord(r))
  BY <1>1, TaskStepRows
<1>2. CASE Elapse
  BY <1>2 DEF Elapse, RowsOnlyClose, Inv, OpenIsPresent, IsOpen, TypeOK, Row
<1>3. ASSUME NEW r \in Replicas, BeginTick(r) \/ Fault(r) \/ Expire(r)
      PROVE  RowsOnlyClose
  BY <1>3, UnchangedOnlyCloses
  DEF BeginTick, Fault, Throw, ThrowCancel, TaskFails, Crash, Expire, db
<1>4. CASE SourceChanges \/ UNCHANGED vars
  BY <1>4, UnchangedOnlyCloses DEF SourceChanges, vars, db
<1> QED
  BY <1>1, <1>2, <1>3, <1>4 DEF Next

-----------------------------------------------------------------------------
(* The rows: at most one is open.                                          *)

LEMMA NextInv == Inv /\ [Next]_vars => Inv'
<1> SUFFICES ASSUME Inv, [Next]_vars PROVE Inv'
  OBVIOUS
<1>1. TypeOK'
  BY NextType DEF Inv
<1>2. OpenIsPresent' /\ OneOpenRecord'
  <2>1. CASE RowsOnlyClose
    BY <2>1 DEF RowsOnlyClose, Inv, OpenIsPresent, OneOpenRecord, OpenIds, IsOpen
  <2>2. CASE RowCreated
    BY <2>2 DEF RowCreated, NewRow, Inv, TypeOK, FreshIds,
                OpenIsPresent, OneOpenRecord, OpenIds, IsOpen
  <2> QED
    BY <2>1, <2>2, NextRows
<1>3. JobHasRecord'
  <2> USE DEF Goto
  <2>0. /\ pc \in [Replicas -> Steps] /\ job \in [Replicas -> Job]
        /\ \A r \in Replicas : pc[r] \notin WithoutRecord => job[r].ingestion \in Ids
    BY DEF Inv, TypeOK, JobHasRecord
  <2>1. ASSUME NEW r \in Replicas,
               \A x \in Replicas \ {r} : pc'[x] = pc[x] /\ job'[x] = job[x],
               pc'[r] \notin WithoutRecord => job'[r].ingestion \in Ids
        PROVE  JobHasRecord'
    BY <2>0, <2>1 DEF JobHasRecord
  <2>2. ASSUME NEW r \in Replicas, TaskStep(r) PROVE JobHasRecord'
    <3>1. CASE getCurrentAction(r)
      <4>1. ASSUME NEW i \in OpenIds
            PROVE  [NoJob EXCEPT !.ingestion = i,
                                 !.attempts = ingestions[i].attempts].ingestion \in Ids
        BY DEF OpenIds, NoJob
      <4> QED
        BY <2>0, <2>1, <3>1, <4>1 DEF getCurrentAction, EndTick, WithoutRecord
    <3>2. CASE createProviderIngestionRecord(r)
      <4>1. FreshIds # {} => [NoJob EXCEPT !.ingestion = NewId].ingestion \in Ids
        BY NewIdIsFresh DEF FreshIds, NoJob
      <4> QED
        BY <2>0, <2>1, <3>2, <4>1
        DEF createProviderIngestionRecord, EndTick, WithoutRecord
    <3>3. CASE getLastMark(r) \/ next(r) \/ computeRemovedStep(r)
      <4>0. job[r] \in Job
        BY <2>0 DEF TypeOK
      <4>1. job'[r].ingestion = job[r].ingestion
        <5>1. CASE getLastMark(r)
          <6>1. \A c, s : [job[r] EXCEPT !.cursor = c, !.sequence = s].ingestion
                              = job[r].ingestion
            BY <4>0 DEF Job
          <6>2. \E c, s : job'[r] = [job[r] EXCEPT !.cursor = c, !.sequence = s]
            BY <2>0, <5>1 DEF getLastMark
          <6> QED
            BY <6>1, <6>2
        <5>2. CASE next(r)
          BY <2>0, <4>0, <5>2 DEF next, Job
        <5>3. CASE computeRemovedStep(r)
          BY <2>0, <4>0, <5>3 DEF computeRemovedStep, Job
        <5> QED
          BY <3>3, <5>1, <5>2, <5>3
      <4>2. pc[r] \notin WithoutRecord /\ \A x \in Replicas \ {r} : pc'[x] = pc[x] /\ job'[x] = job[x]
        BY <2>0, <3>3 DEF getLastMark, next, computeRemovedStep, WithoutRecord
      <4> QED
        BY <2>0, <2>1, <4>1, <4>2
    <3>4. CASE applyMutation(r)
      <4>1. /\ PageDone(job[r]).ingestion = job[r].ingestion
            /\ [PageDone(job[r]) EXCEPT !.sequence = @ + 1].ingestion = job[r].ingestion
        BY <2>0 DEF PageDone, Job
      <4> QED
        BY <2>0, <2>1, <3>4, <4>1 DEF applyMutation, WithoutRecord
    <3>5. CASE \/ clearFinishedIngestions(r) \/ setProviderBursting(r)
               \/ createMark(r) \/ createMarkEntities(r)
      BY <2>0, <2>1, <3>5
      DEF clearFinishedIngestions, setProviderBursting, createMark, createMarkEntities,
          WithoutRecord
    <3>6. CASE EndTick(r)
      BY <2>0, <2>1, <3>6 DEF EndTick, WithoutRecord
    <3> QED
      BY <2>2, <3>1, <3>2, <3>3, <3>4, <3>5, <3>6
      DEF TaskStep, setProviderComplete, setProviderIngesting, setProviderCanceled,
          settle, setProviderBackoff, setProviderCanceling
  <2>3. ASSUME NEW r \in Replicas, BeginTick(r) PROVE JobHasRecord'
    BY <2>0, <2>1, <2>3 DEF BeginTick, WithoutRecord
  <2>4. ASSUME NEW r \in Replicas, Fault(r) PROVE JobHasRecord'
    BY <2>0, <2>1, <2>4
    DEF Fault, Throw, ThrowCancel, TaskFails, EndTick, Crash, WithoutRecord, TrySteps
  <2>5. CASE UNCHANGED engine
    BY <2>0, <2>5 DEF engine, JobHasRecord
  <2> QED
    BY <2>2, <2>3, <2>4, <2>5 DEF Next, Expire, Elapse, SourceChanges, vars, engine
<1> QED
  BY <1>1, <1>2, <1>3 DEF Inv

\* Every variable keeps its type, for any number of replicas and faults.
THEOREM TypeCorrect == Spec => []TypeOK
<1>1. Inv => TypeOK
  BY DEF Inv
<1> QED
  BY InitInv, NextInv, <1>1, PTL DEF Spec

\* createProviderIngestionRecord never opens a second ingestion: not when the
\* lock has expired under a burst, not when two replicas find no open record.
THEOREM AtMostOneOpen == Spec => []OneOpenRecord
<1>1. Inv => OneOpenRecord
  BY DEF Inv
<1> QED
  BY InitInv, NextInv, <1>1, PTL DEF Spec

\* No update by id reopens a finished ingestion, however late it comes.
THEOREM FinishedForGood == Spec => FinishedStaysFinished
<1>1. Inv /\ [Next]_vars => [\A i \in Ids : Closed(i) => ~ingestions'[i].open]_vars
  <2> SUFFICES ASSUME Inv, [Next]_vars, NEW i \in Ids, Closed(i)
               PROVE  ~ingestions'[i].open
    OBVIOUS
  <2>1. CASE RowsOnlyClose
    BY <2>1 DEF RowsOnlyClose, Closed
  <2>2. CASE RowCreated
    BY <2>2 DEF RowCreated, Closed, FreshIds, Inv, TypeOK
  <2> QED
    BY <2>1, <2>2, NextRows
<1> QED
  BY InitInv, NextInv, <1>1, PTL DEF Spec, FinishedStaysFinished
-----------------------------------------------------------------------------
(* That an ingestion leaves no page of its source out: the marks of the    *)
(* open ingestion cover every page up to each of them, whatever crashes    *)
(* and however bursts overlap.                                             *)

\* In the marks M ingestion i has marked the pages 1..c, and used the numbers
\* below s.
Marked(M, i, c)   == \A k \in 1..c : \E n \in M : n.ingestion = i /\ n.cursor = k
Numbered(M, i, s) == \A k \in 0..(s - 1) : \E n \in M : n.ingestion = i /\ n.sequence = k

\* The steps of a task whose page is marked but not committed.
MarkedSteps == {"createMarkEntities", "computeRemoved", "applyMutation"}

\* What a task may rely on, while its record is the open one: the page it
\* asks for, or has been given, follows pages that are marked.
JobCovered(r) ==
    LET i == job[r].ingestion
        c == job[r].cursor
        s == job[r].sequence
    IN /\ pc[r] = "next" =>
            c <= Len(source) /\ Marked(marks, i, c) /\ Numbered(marks, i, s)
       /\ pc[r] = "createMark" =>
            /\ c <= Len(source) /\ Marked(marks, i, c - 1) /\ Numbered(marks, i, s)
            /\ job[r].done => c = Len(source) \/ Marked(marks, i, Len(source))
       /\ pc[r] \in MarkedSteps =>
            /\ c <= Len(source) /\ Marked(marks, i, c) /\ Numbered(marks, i, s + 1)
            /\ job[r].done => Marked(marks, i, Len(source))
       /\ pc[r] = "settle" =>
            (job[r].done => Marked(marks, i, Len(source)))

JobsCovered ==
    \A r \in Replicas : job[r].ingestion \in OpenIds => JobCovered(r)

\* A mark follows marks of every page and every number before it.
MarkCovered(i, m) == /\ m.cursor <= Len(source)
                     /\ Marked(marks, i, m.cursor)
                     /\ Numbered(marks, i, m.sequence + 1)

MarksCovered ==
    \A i \in OpenIds : \A m \in MarksOf(i) : MarkCovered(i, m)

RestCovered ==
    \A i \in OpenIds : ingestions[i].nextAction = "rest" => Marked(marks, i, Len(source))

PageInv == MarksCovered /\ JobsCovered /\ RestCovered

-----------------------------------------------------------------------------
(* How marks may change: each mark of the open ingestion stays, up to the  *)
(* refs recorded with it.                                                  *)

SameMark(m, n) == /\ m.ingestion = n.ingestion
                  /\ m.cursor = n.cursor
                  /\ m.sequence = n.sequence

MarksStay == \A m \in marks : IsOpen(m.ingestion) => \E n \in marks' : SameMark(m, n)
NoNewMarks == \A n \in marks' : \E m \in marks : SameMark(m, n)

\* What is marked stays marked.
LEMMA CoverageStays ==
  ASSUME MarksStay, NEW i \in OpenIds
  PROVE  /\ \A c : Marked(marks, i, c) => Marked(marks', i, c)
         /\ \A s : Numbered(marks, i, s) => Numbered(marks', i, s)
  BY DEF MarksStay, SameMark, Marked, Numbered, MarksOf, OpenIds

\* A step that closes rows at most, keeps the source and adds no mark keeps
\* what the marks and the rows say.
LEMMA MarksStayCovered ==
  ASSUME Inv, PageInv, RowsOnlyClose, MarksStay, NoNewMarks, source' = source
  PROVE  MarksCovered'
<1> SUFFICES ASSUME NEW i \in OpenIds', NEW n \in MarksOf(i)'
             PROVE  MarkCovered(i, n)'
  BY DEF MarksCovered
<1>1. i \in OpenIds
  BY DEF RowsOnlyClose, OpenIds, IsOpen
<1>2. PICK m \in MarksOf(i) : SameMark(m, n)
  BY DEF NoNewMarks, SameMark, MarksOf
<1>3. MarkCovered(i, m)
  BY <1>1 DEF PageInv, MarksCovered
<1>4. n.cursor = m.cursor /\ n.sequence = m.sequence
  BY <1>2 DEF SameMark
<1> QED
  BY <1>1, <1>3, <1>4, CoverageStays DEF MarkCovered

LEMMA RestStaysCovered ==
  ASSUME Inv, PageInv, RowsOnlyClose, MarksStay, source' = source
  PROVE  RestCovered'
<1> SUFFICES ASSUME NEW i \in OpenIds', ingestions'[i].nextAction = "rest"
             PROVE  Marked(marks', i, Len(source))
  BY DEF RestCovered
<1>1. i \in OpenIds
  BY DEF RowsOnlyClose, OpenIds, IsOpen
<1>2. Marked(marks, i, Len(source))
  <2>1. CASE ingestions[i].nextAction = "rest"
    BY <1>1, <2>1 DEF PageInv, RestCovered
  <2>2. CASE \E r \in Replicas : pc[r] = "settle" /\ job[r].done /\ job[r].ingestion = i
    BY <1>1, <2>2 DEF PageInv, JobsCovered, JobCovered
  <2> QED
    BY <2>1, <2>2 DEF RowsOnlyClose, OpenIds, IsOpen
<1> QED
  BY <1>1, <1>2, CoverageStays

\* A task that a step does not touch stays covered.
LEMMA JobStaysCovered ==
  ASSUME Inv, PageInv, RowsOnlyClose, MarksStay, source' = source,
         NEW r \in Replicas, pc'[r] = pc[r], job'[r] = job[r],
         job'[r].ingestion \in OpenIds'
  PROVE  JobCovered(r)'
<1>1. job[r].ingestion \in OpenIds
  BY DEF RowsOnlyClose, OpenIds, IsOpen
<1>2. JobCovered(r)
  BY <1>1 DEF PageInv, JobsCovered
<1> QED
  BY <1>1, <1>2, CoverageStays DEF JobCovered

-----------------------------------------------------------------------------
(* The steps.                                                              *)

\* Steps that leave the marks alone, but for the refs recorded with them.
LEMMA QuietStep ==
  ASSUME Inv, PageInv, RowsOnlyClose, MarksStay, NoNewMarks, source' = source,
         NEW r \in Replicas,
         \A x \in Replicas \ {r} : pc'[x] = pc[x] /\ job'[x] = job[x],
         job'[r].ingestion \in OpenIds' => JobCovered(r)'
  PROVE  PageInv'
<1>1. MarksCovered' /\ RestCovered'
  BY MarksStayCovered, RestStaysCovered
<1>2. JobsCovered'
  BY JobStaysCovered DEF JobsCovered
<1> QED
  BY <1>1, <1>2 DEF PageInv

LEMMA SameMarks == marks' = marks => MarksStay /\ NoNewMarks
  BY DEF MarksStay, NoNewMarks, SameMark

\* So do they when the entities of one of them are recorded.
LEMMA JoinedMarks ==
  ASSUME marks \in SUBSET Mark, NEW r \in Replicas, createMarkEntities(r)
  PROVE  MarksStay /\ NoNewMarks
<1> DEFINE Joined(m) == IF IsMarkOf(m, r) THEN [m EXCEPT !.refs = job[r].batch] ELSE m
<1>1. \A m \in marks : SameMark(m, Joined(m))
  BY DEF Mark, SameMark
<1>2. marks' = {Joined(m) : m \in marks}
  BY DEF createMarkEntities
<1> HIDE DEF Joined
<1>3. MarksStay
  BY <1>1, <1>2 DEF MarksStay
<1>4. NoNewMarks
  BY <1>1, <1>2 DEF NoNewMarks
<1> QED
  BY <1>3, <1>4

\* The marks of an open ingestion survive clearFinishedIngestions.
LEMMA ClearedMarks == marks' = KeptMarks => MarksStay /\ NoNewMarks
  BY DEF KeptMarks, Closed, MarksStay, NoNewMarks, SameMark, IsOpen

LEMMA SourceLength ==
  ASSUME Inv
  PROVE  Len(source) \in Nat /\ Len(source) > 0
  BY ListingsAssumption DEF Inv, TypeOK

\* Steps after which the task needs nothing of its marks.
Unguarded == Steps \ ({"next", "createMark", "settle"} \cup MarkedSteps)

LEMMA LeavingStep ==
  ASSUME Inv, PageInv, RowsOnlyClose, MarksStay, NoNewMarks, source' = source,
         NEW r \in Replicas,
         \A x \in Replicas \ {r} : pc'[x] = pc[x] /\ job'[x] = job[x],
         pc'[r] \in Unguarded
  PROVE  PageInv'
<1>1. JobCovered(r)'
  BY DEF JobCovered, Unguarded, MarkedSteps
<1> QED
  BY <1>1, QuietStep

LEMMA LastMarkStep ==
  ASSUME Inv, PageInv, NEW r \in Replicas, getLastMark(r)
  PROVE  PageInv'
<1> DEFINE i == job[r].ingestion
<1>1. /\ RowsOnlyClose /\ MarksStay /\ NoNewMarks /\ source' = source
      /\ \A x \in Replicas \ {r} : pc'[x] = pc[x] /\ job'[x] = job[x]
      /\ marks' = marks
  BY UnchangedOnlyCloses, SameMarks DEF getLastMark, db, Goto, Inv, TypeOK
<1>2. job[r] \in Job /\ pc'[r] = "next"
  BY DEF getLastMark, Goto, Inv, TypeOK
<1>3. SUFFICES ASSUME job'[r].ingestion \in OpenIds' PROVE JobCovered(r)'
  BY <1>1, QuietStep
<1>4. CASE MarksOf(i) = {} /\ job' = [job EXCEPT ![r] = [@ EXCEPT !.cursor = 0, !.sequence = 0]]
  <2>1. job'[r].cursor = 0 /\ job'[r].sequence = 0
    BY <1>2, <1>4 DEF Job, Inv, TypeOK
  <2> QED
    BY <1>1, <1>2, <2>1, SourceLength DEF JobCovered, Marked, Numbered, MarkedSteps
<1>5. ASSUME NEW m \in LastMarks(i),
             job' = [job EXCEPT ![r] = [@ EXCEPT !.cursor   = m.cursor,
                                                 !.sequence = m.sequence + 1]]
      PROVE  JobCovered(r)'
  <2>1. /\ job'[r].cursor = m.cursor
        /\ job'[r].sequence = m.sequence + 1
        /\ job'[r].ingestion = i
    BY <1>2, <1>5 DEF Job, Inv, TypeOK
  <2>2. i \in OpenIds /\ m \in MarksOf(i)
    BY <1>1, <1>3, <2>1 DEF RowsOnlyClose, OpenIds, IsOpen, LastMarks
  <2>3. MarkCovered(i, m)
    BY <2>2 DEF PageInv, MarksCovered
  <2>4. Marked(marks', i, m.cursor) /\ Numbered(marks', i, m.sequence + 1)
    BY <1>1, <2>2, <2>3, CoverageStays DEF MarkCovered
  <2> QED
    BY <1>1, <1>2, <2>1, <2>3, <2>4 DEF JobCovered, MarkCovered, MarkedSteps
<1> QED
  BY <1>4, <1>5 DEF getLastMark

LEMMA NextPageStep ==
  ASSUME Inv, PageInv, NEW r \in Replicas, next(r)
  PROVE  PageInv'
<1> DEFINE i == job[r].ingestion
           c == job[r].cursor
<1>1. /\ RowsOnlyClose /\ MarksStay /\ NoNewMarks /\ source' = source
      /\ \A x \in Replicas \ {r} : pc'[x] = pc[x] /\ job'[x] = job[x]
      /\ marks' = marks
  BY UnchangedOnlyCloses, SameMarks DEF next, db, Goto, Inv, TypeOK
<1>2. /\ job[r] \in Job /\ pc[r] = "next" /\ pc'[r] = "createMark"
      /\ c \in Nat /\ Len(source) \in Nat
  BY SourceLength DEF next, Goto, Inv, TypeOK, Job
<1>3. SUFFICES ASSUME job'[r].ingestion \in OpenIds' PROVE JobCovered(r)'
  BY <1>1, QuietStep
<1>4. /\ job'[r].ingestion = i /\ job'[r].sequence = job[r].sequence
      /\ job'[r].cursor = After(c)
      /\ job'[r].done = IsDone(c)
  BY <1>2 DEF next, Inv, TypeOK, Job
<1>5. i \in OpenIds
  BY <1>1, <1>3, <1>4 DEF RowsOnlyClose, OpenIds, IsOpen
<1>6. c <= Len(source) /\ Marked(marks, i, c) /\ Numbered(marks, i, job[r].sequence)
  BY <1>2, <1>5 DEF PageInv, JobsCovered, JobCovered
<1>7. /\ After(c) <= Len(source) /\ Marked(marks, i, After(c) - 1)
      /\ IsDone(c) => After(c) = Len(source) \/ Marked(marks, i, Len(source))
  <2>1. CASE c < Len(source)
    BY <1>2, <1>6, <2>1 DEF After, IsDone
  <2>2. CASE c = Len(source)
    <3>1. Marked(marks, i, 0 - 1)
      BY DEF Marked
    <3> QED
      BY <1>2, <1>6, <2>2, <3>1 DEF After, IsDone
  <2> QED
    BY <1>2, <1>6, <2>1, <2>2
<1>8. /\ \A k : Marked(marks, i, k) => Marked(marks', i, k)
      /\ Numbered(marks', i, job[r].sequence)
  BY <1>1, <1>5, <1>6, CoverageStays
<1> QED
  BY <1>1, <1>2, <1>4, <1>7, <1>8 DEF JobCovered, MarkedSteps

LEMMA CreateMarkStep ==
  ASSUME Inv, PageInv, NEW r \in Replicas, createMark(r)
  PROVE  PageInv'
<1> DEFINE i == job[r].ingestion
           c == job[r].cursor
           s == job[r].sequence
           new == [ingestion |-> i, sequence |-> s, by |-> r, cursor |-> c, refs |-> {}]
<1>1. /\ RowsOnlyClose /\ source' = source /\ job' = job /\ ingestions' = ingestions
      /\ \A x \in Replicas \ {r} : pc'[x] = pc[x]
      /\ marks' = marks \cup {new}
      /\ pc[r] = "createMark" /\ pc'[r] \in MarkedSteps
  BY UnchangedOnlyCloses
  DEF createMark, Goto, Inv, TypeOK, AfterEntities, MarkedSteps
<1>2. /\ i \in Ids /\ c \in Nat /\ s \in Nat /\ Len(source) \in Nat
      /\ new.ingestion = i /\ new.cursor = c /\ new.sequence = s
  BY <1>1, SourceLength DEF Inv, TypeOK, Job, JobHasRecord, WithoutRecord
<1>3. MarksStay
  BY <1>1 DEF MarksStay, SameMark
<1>4. OpenIds' = OpenIds
  BY <1>1 DEF OpenIds, IsOpen
<1>5. ASSUME i \in OpenIds
      PROVE  /\ c <= Len(source) /\ Marked(marks', i, c) /\ Numbered(marks', i, s + 1)
             /\ job[r].done => Marked(marks', i, Len(source))
  <2>1. /\ c <= Len(source) /\ Marked(marks, i, c - 1) /\ Numbered(marks, i, s)
        /\ job[r].done => c = Len(source) \/ Marked(marks, i, Len(source))
    BY <1>1, <1>5 DEF PageInv, JobsCovered, JobCovered
  <2>2. /\ Marked(marks', i, c - 1) /\ Numbered(marks', i, s)
        /\ Marked(marks, i, Len(source)) => Marked(marks', i, Len(source))
    BY <1>1, <1>3, <1>5, <2>1, CoverageStays
  <2>3. new \in marks'
    BY <1>1
  <2>4. Marked(marks', i, c)
    <3>1. \A k \in 1..c : k = c \/ k \in 1..(c - 1)
      BY <1>2
    <3> HIDE DEF i, c, s, new
    <3> QED
      BY <1>2, <2>2, <2>3, <3>1 DEF Marked
  <2>5. Numbered(marks', i, s + 1)
    <3>1. \A k \in 0..(s + 1 - 1) : k = s \/ k \in 0..(s - 1)
      BY <1>2
    <3> HIDE DEF i, c, s, new
    <3> QED
      BY <1>2, <2>2, <2>3, <3>1 DEF Numbered
  <2> QED
    BY <1>1, <2>1, <2>2, <2>4, <2>5
<1>6. JobsCovered'
  <2>1. ASSUME NEW x \in Replicas, job'[x].ingestion \in OpenIds' PROVE JobCovered(x)'
    <3>1. CASE x = r
      BY <1>1, <1>4, <1>5, <2>1, <3>1 DEF JobCovered, MarkedSteps
    <3>2. CASE x # r
      BY <1>1, <1>3, <2>1, <3>2, JobStaysCovered
    <3> QED
      BY <3>1, <3>2
  <2> QED
    BY <2>1 DEF JobsCovered
<1>7. MarksCovered'
  <2>1. ASSUME NEW k \in OpenIds', NEW n \in MarksOf(k)' PROVE MarkCovered(k, n)'
    <3>1. CASE n \in marks
      <4>1. MarkCovered(k, n)
        BY <1>4, <3>1 DEF MarksOf, PageInv, MarksCovered
      <4> QED
        BY <1>1, <1>3, <1>4, <4>1, CoverageStays DEF MarkCovered
    <3>2. CASE n = new
      <4>1. k = i
        BY <1>2, <3>2 DEF MarksOf
      <4> QED
        BY <1>1, <1>2, <1>4, <1>5, <3>2, <4>1 DEF MarkCovered
    <3> QED
      BY <1>1, <3>1, <3>2 DEF MarksOf
  <2> QED
    BY <2>1 DEF MarksCovered
<1>8. RestCovered'
  BY <1>1, <1>3, RestStaysCovered
<1> QED
  BY <1>6, <1>7, <1>8 DEF PageInv

LEMMA BurstStep ==
  ASSUME Inv, PageInv, NEW r \in Replicas,
         createMarkEntities(r) \/ computeRemovedStep(r) \/ applyMutation(r)
  PROVE  PageInv'
<1> DEFINE i == job[r].ingestion
           c == job[r].cursor
           s == job[r].sequence
<1>1. /\ RowsOnlyClose /\ source' = source
      /\ \A x \in Replicas \ {r} : pc'[x] = pc[x] /\ job'[x] = job[x]
      /\ pc[r] \in MarkedSteps
  BY UnchangedOnlyCloses
  DEF createMarkEntities, computeRemovedStep, applyMutation, db, Goto, Inv, TypeOK,
      MarkedSteps
<1>2. MarksStay /\ NoNewMarks
  <2>1. CASE createMarkEntities(r)
    BY <2>1, JoinedMarks DEF Inv, TypeOK
  <2> QED
    BY <2>1, SameMarks DEF computeRemovedStep, applyMutation, db
<1>3. SUFFICES ASSUME job'[r].ingestion \in OpenIds' PROVE JobCovered(r)'
  BY <1>1, <1>2, QuietStep
<1>4. /\ job[r] \in Job /\ s \in Nat
      /\ job'[r].ingestion = i /\ job'[r].cursor = c /\ job'[r].done = job[r].done
      /\ \/ pc'[r] \in MarkedSteps /\ job'[r].sequence = s
         \/ pc'[r] = "settle"
         \/ pc'[r] = "next" /\ job'[r].sequence = s + 1
  <2>1. job[r] \in Job /\ s \in Nat
    BY DEF Inv, TypeOK, Job
  <2>2. CASE createMarkEntities(r)
    BY <2>1, <2>2 DEF createMarkEntities, Goto, AfterEntities, MarkedSteps, Inv, TypeOK
  <2>3. CASE computeRemovedStep(r)
    BY <2>1, <2>3 DEF computeRemovedStep, Goto, MarkedSteps, Inv, TypeOK, Job
  <2>4. CASE applyMutation(r)
    <3>1. /\ PageDone(job[r]).ingestion = i /\ PageDone(job[r]).cursor = c
          /\ PageDone(job[r]).done = job[r].done /\ PageDone(job[r]).sequence = s
          /\ PageDone(job[r]) \in Job
      BY <2>1 DEF PageDone, Job
    <3>2. LET j == [PageDone(job[r]) EXCEPT !.sequence = @ + 1]
          IN  j.ingestion = i /\ j.cursor = c /\ j.done = job[r].done /\ j.sequence = s + 1
      BY <3>1 DEF Job
    <3> QED
      BY <2>1, <2>4, <3>1, <3>2 DEF applyMutation, Goto, Inv, TypeOK
  <2> QED
    BY <2>1, <2>2, <2>3, <2>4
<1>5. i \in OpenIds
  BY <1>1, <1>3, <1>4 DEF RowsOnlyClose, OpenIds, IsOpen
<1>6. /\ c <= Len(source) /\ Marked(marks, i, c) /\ Numbered(marks, i, s + 1)
      /\ job[r].done => Marked(marks, i, Len(source))
  BY <1>1, <1>5 DEF PageInv, JobsCovered, JobCovered
<1>7. /\ \A k : Marked(marks, i, k) => Marked(marks', i, k)
      /\ \A k : Numbered(marks, i, k) => Numbered(marks', i, k)
  BY <1>2, <1>5, CoverageStays
<1> QED
  BY <1>1, <1>4, <1>6, <1>7 DEF JobCovered, MarkedSteps

\* A record that has just been created has no marks, and no other task.
LEMMA CreateStep ==
  ASSUME Inv, PageInv, NEW r \in Replicas, RowCreated, createProviderIngestionRecord(r)
  PROVE  PageInv'
<1>1. NewId \in Ids /\ \A x \in Replicas : job[x].ingestion # NewId
  BY DEF RowCreated, FreshIds
<1>2. OpenIds' = {NewId}
  BY <1>1 DEF RowCreated, OpenIds, IsOpen, NewRow, Inv, TypeOK
<1>3. ingestions'[NewId].nextAction = "ingest"
  BY <1>1 DEF RowCreated, NewRow, Inv, TypeOK
<1>4. \A m \in marks' : m.ingestion # NewId
  BY DEF RowCreated, FreshIds, MarksOf, createProviderIngestionRecord
<1>5. MarksCovered'
  <2>1. ASSUME NEW i \in OpenIds', NEW m \in MarksOf(i)' PROVE FALSE
    BY <1>2, <1>4 DEF MarksOf
  <2> QED
    BY <2>1 DEF MarksCovered
<1>6. RestCovered'
  <2>1. ASSUME NEW i \in OpenIds', ingestions'[i].nextAction = "rest" PROVE FALSE
    BY <1>2, <1>3, <2>1
  <2> QED
    BY <2>1 DEF RestCovered
<1>7. JobsCovered'
  <2>1. ASSUME NEW x \in Replicas, job'[x].ingestion \in OpenIds' PROVE JobCovered(x)'
    <3>1. x = r
      BY <1>1, <1>2, <2>1
      DEF RowCreated, createProviderIngestionRecord, EndTick, Inv, TypeOK
    <3>2. pc'[r] \in {"setProviderBursting", "idle"}
      BY DEF createProviderIngestionRecord, Goto, EndTick, Inv, TypeOK
    <3> QED
      BY <3>1, <3>2 DEF JobCovered, MarkedSteps
  <2> QED
    BY <2>1 DEF JobsCovered
<1> QED
  BY <1>5, <1>6, <1>7 DEF PageInv

\* The other steps leave a task outside the pages of a burst.
LEMMA OtherTaskStep ==
  ASSUME Inv, PageInv, RowsOnlyClose, NEW r \in Replicas,
         \/ BeginTick(r) \/ getCurrentAction(r) \/ createProviderIngestionRecord(r)
         \/ clearFinishedIngestions(r) \/ setProviderComplete(r)
         \/ setProviderIngesting(r) \/ setProviderCanceled(r)
         \/ setProviderBursting(r) \/ settle(r) \/ setProviderBackoff(r)
         \/ setProviderCanceling(r) \/ Fault(r)
  PROVE  PageInv'
<1>1. MarksStay /\ NoNewMarks /\ source' = source
  <2>1. CASE clearFinishedIngestions(r)
    BY <2>1, ClearedMarks DEF clearFinishedIngestions
  <2>2. CASE ~clearFinishedIngestions(r)
    BY <2>2, SameMarks
    DEF BeginTick, getCurrentAction, createProviderIngestionRecord, setProviderComplete,
        setProviderIngesting, setProviderCanceled, setProviderBursting, settle,
        setProviderBackoff, setProviderCanceling, Fault, Throw, ThrowCancel, TaskFails,
        Crash, db
  <2> QED
    BY <2>1, <2>2
<1>2. /\ \A x \in Replicas \ {r} : pc'[x] = pc[x] /\ job'[x] = job[x]
      /\ pc'[r] \in Unguarded
  <2>1. CASE EndTick(r)
    BY <2>1 DEF EndTick, Goto, Unguarded, MarkedSteps, Steps, TrySteps, Inv, TypeOK
  <2>2. CASE getCurrentAction(r) /\ ~EndTick(r)
    <3>1. \A row : Branch(row) \in Unguarded
      BY DEF Branch, Unguarded, MarkedSteps, Steps, TrySteps
    <3>2. "createProviderIngestionRecord" \in Unguarded
      BY DEF Unguarded, MarkedSteps, Steps, TrySteps
    <3>3. CASE Goto(r, "createProviderIngestionRecord") /\ UNCHANGED job
      BY <3>2, <3>3 DEF Goto, Inv, TypeOK
    <3>4. ASSUME NEW i \in OpenIds, NEW j, Goto(r, Branch(ingestions[i])),
                 job' = [job EXCEPT ![r] = j]
          PROVE  /\ \A x \in Replicas \ {r} : pc'[x] = pc[x] /\ job'[x] = job[x]
                 /\ pc'[r] \in Unguarded
      BY <3>1, <3>4 DEF Goto, Inv, TypeOK
    <3> QED
      BY <2>2, <3>3, <3>4 DEF getCurrentAction
  <2>3. CASE createProviderIngestionRecord(r) /\ ~EndTick(r)
    BY <2>3
    DEF createProviderIngestionRecord, Goto, Unguarded, MarkedSteps, Steps, TrySteps,
        Inv, TypeOK
  <2>4. CASE \/ BeginTick(r) \/ clearFinishedIngestions(r) \/ setProviderBursting(r)
             \/ Throw(r) \/ ThrowCancel(r) \/ Crash(r)
    BY <2>4
    DEF BeginTick, clearFinishedIngestions, setProviderBursting, Throw, ThrowCancel,
        Crash, Goto, Unguarded, MarkedSteps, Steps, TrySteps, Inv, TypeOK
  <2> QED
    BY <2>1, <2>2, <2>3, <2>4
    DEF setProviderComplete, setProviderIngesting, setProviderCanceled, settle,
        setProviderBackoff, setProviderCanceling, Fault, TaskFails
<1> QED
  BY <1>1, <1>2, LeavingStep

\* Steps of the environment that move no task and leave the source alone.
LEMMA NoTaskStep ==
  ASSUME Inv, PageInv, RowsOnlyClose, marks' = marks, source' = source,
         pc' = pc, job' = job
  PROVE  PageInv'
<1>1. MarksCovered' /\ RestCovered'
  BY SameMarks, MarksStayCovered, RestStaysCovered
<1>2. JobsCovered'
  BY SameMarks, JobStaysCovered DEF JobsCovered
<1> QED
  BY <1>1, <1>2 DEF PageInv

\* The source changes only between two ingestions.
LEMMA SourceStep ==
  ASSUME SourceChanges
  PROVE  PageInv'
  BY DEF SourceChanges, db, OpenIds, IsOpen, PageInv, MarksCovered, RestCovered, JobsCovered

LEMMA InitPageInv == Init => PageInv
<1> SUFFICES ASSUME Init PROVE PageInv
  OBVIOUS
<1>1. \A i \in Ids : ingestions[i].open = FALSE
  BY DEF Init, NoRow
<1>2. OpenIds = {}
  BY <1>1 DEF OpenIds, IsOpen
<1> QED
  BY <1>2 DEF PageInv, MarksCovered, RestCovered, JobsCovered

LEMMA NextPageInv == Inv /\ PageInv /\ [Next]_vars => PageInv'
<1> SUFFICES ASSUME Inv, PageInv, [Next]_vars PROVE PageInv'
  OBVIOUS
<1>1. CASE \E r \in Replicas : RowCreated /\ createProviderIngestionRecord(r)
  BY <1>1, CreateStep
<1>2. CASE RowsOnlyClose
  <2>1. ASSUME NEW r \in Replicas, TaskStep(r) PROVE PageInv'
    BY <1>2, <2>1, LastMarkStep, NextPageStep, CreateMarkStep, BurstStep, OtherTaskStep
    DEF TaskStep
  <2>2. ASSUME NEW r \in Replicas, BeginTick(r) \/ Fault(r) PROVE PageInv'
    BY <1>2, <2>2, OtherTaskStep
  <2>3. ASSUME NEW r \in Replicas, Expire(r) PROVE PageInv'
    BY <1>2, <2>3, NoTaskStep DEF Expire, db, engine
  <2>4. CASE Elapse \/ UNCHANGED vars
    BY <1>2, <2>4, NoTaskStep DEF Elapse, engine, vars
  <2>5. CASE SourceChanges
    BY <2>5, SourceStep
  <2> QED
    BY <2>1, <2>2, <2>3, <2>4, <2>5 DEF Next
<1> QED
  BY <1>1, <1>2, NextRows

-----------------------------------------------------------------------------
(* The theorems.                                                           *)

\* A burst resumes behind marks of every page before: no page is left out by
\* a crash, an error or a burst that runs beside an expired one.
THEOREM PagesAreComplete == Spec => []NoPageSkipped
<1>1. Inv /\ PageInv => NoPageSkipped
  BY DEF PageInv, MarksCovered, MarkCovered, Marked, NoPageSkipped, MarksOf
<1> QED
  BY InitInv, NextInv, InitPageInv, NextPageInv, <1>1, PTL DEF Spec

\* The numbers that getLastMark orders the marks by have no gap.
THEOREM SequencesAreContiguous == Spec => []SequencesContiguous
<1>1. Inv /\ PageInv => SequencesContiguous
  BY DEF Inv, TypeOK, Mark, PageInv, MarksCovered, MarkCovered, Numbered,
         SequencesContiguous, MarksOf
<1> QED
  BY InitInv, NextInv, InitPageInv, NextPageInv, <1>1, PTL DEF Spec

\* A provider that rests has asked its source for every page.
THEOREM RestIsEarned == Spec => []RestsAfterLastPage
<1>1. Inv /\ PageInv => RestsAfterLastPage
  BY DEF PageInv, RestCovered, Marked, RestsAfterLastPage, MarksOf
<1> QED
  BY InitInv, NextInv, InitPageInv, NextPageInv, <1>1, PTL DEF Spec

-----------------------------------------------------------------------------
(* The refinement: the engine implements IngestionCycle, for every value of *)
(* the constants: its initial states are initial states of the cycle, and   *)
(* each of its steps is a step of the cycle or leaves the cycle as it is.   *)

\* A task that found the rest of its record over completes it later: the pages
\* are still all marked by then, unless another task closed the record first.
CompletingSteps == {"clearFinishedIngestions", "setProviderComplete"}

CompleteCovered ==
    \A r \in Replicas :
        pc[r] \in CompletingSteps /\ job[r].ingestion \in OpenIds =>
            Marked(marks, job[r].ingestion, Len(source))

CycleInv == Inv /\ PageInv /\ CompleteCovered

-----------------------------------------------------------------------------
(* The invariant.                                                          *)

LEMMA NextMarks ==
  ASSUME Inv, [Next]_vars
  PROVE  MarksStay
<1>1. ASSUME NEW r \in Replicas, createMark(r) PROVE MarksStay
  BY <1>1 DEF createMark, MarksStay, SameMark
<1>2. ASSUME NEW r \in Replicas, createMarkEntities(r) PROVE MarksStay
  <2>1. \A m \in marks : SameMark(m, [m EXCEPT !.refs = job[r].batch])
    BY DEF Inv, TypeOK, Mark, SameMark
  <2> QED
    BY <1>2, <2>1 DEF createMarkEntities, MarksStay, SameMark
<1>3. ASSUME NEW r \in Replicas, clearFinishedIngestions(r) PROVE MarksStay
  BY <1>3, ClearedMarks DEF clearFinishedIngestions
<1>4. CASE marks' = marks
  BY <1>4, SameMarks
<1>5. ASSUME NEW r \in Replicas, TaskStep(r), marks' # marks
      PROVE  createMark(r) \/ createMarkEntities(r) \/ clearFinishedIngestions(r)
  BY <1>5
  DEF TaskStep, getCurrentAction, createProviderIngestionRecord, setProviderComplete,
      setProviderIngesting, setProviderCanceled, setProviderBursting, getLastMark, next,
      computeRemovedStep, applyMutation, settle, setProviderBackoff,
      setProviderCanceling, db
<1>6. ASSUME NEW r \in Replicas, BeginTick(r) \/ Fault(r) \/ Expire(r)
      PROVE  marks' = marks
  BY <1>6 DEF BeginTick, Fault, Throw, ThrowCancel, TaskFails, Crash, Expire, db
<1>7. Elapse \/ SourceChanges \/ UNCHANGED vars => marks' = marks
  BY DEF Elapse, SourceChanges, vars, db
<1> QED
  BY <1>1, <1>2, <1>3, <1>4, <1>5, <1>6, <1>7 DEF Next

\* Only the data source itself changes it, and only between two ingestions.
LEMMA NextSource ==
  ASSUME [Next]_vars
  PROVE  source' = source \/ SourceChanges
<1>1. ASSUME NEW r \in Replicas, TaskStep(r) PROVE source' = source
  BY <1>1
  DEF TaskStep, getCurrentAction, createProviderIngestionRecord, clearFinishedIngestions,
      setProviderComplete, setProviderIngesting, setProviderCanceled,
      setProviderBursting, getLastMark, next, createMark, createMarkEntities,
      computeRemovedStep, applyMutation, settle, setProviderBackoff,
      setProviderCanceling
<1>2. ASSUME NEW r \in Replicas, BeginTick(r) \/ Fault(r) \/ Expire(r)
      PROVE  source' = source
  BY <1>2 DEF BeginTick, Fault, Throw, ThrowCancel, TaskFails, Crash, Expire
<1>3. Elapse \/ UNCHANGED vars => source' = source
  BY DEF Elapse, vars
<1> QED
  BY <1>1, <1>2, <1>3 DEF Next

\* How a task comes to complete its record: it finds it resting.
LEMMA NextCompleting ==
  ASSUME Inv, [Next]_vars, NEW r \in Replicas, pc'[r] \in CompletingSteps
  PROVE  \/ pc[r] \in CompletingSteps /\ job'[r].ingestion = job[r].ingestion
         \/ /\ job'[r].ingestion \in OpenIds
            /\ ingestions[job'[r].ingestion].nextAction = "rest"
            /\ source' = source
<1> USE DEF Goto
<1>0. pc \in [Replicas -> Steps] /\ job \in [Replicas -> Job]
  BY DEF Inv, TypeOK
<1>1. CASE pc'[r] = pc[r] /\ job'[r] = job[r]
  BY <1>1
<1>2. CASE getCurrentAction(r)
  <2>1. ~EndTick(r) /\ ~Goto(r, "createProviderIngestionRecord")
    BY <1>0 DEF EndTick, CompletingSteps
  <2>2. PICK i \in OpenIds :
          /\ Goto(r, Branch(ingestions[i]))
          /\ job' = [job EXCEPT ![r] = [NoJob EXCEPT
                       !.ingestion = i, !.attempts = ingestions[i].attempts]]
    BY <1>2, <2>1 DEF getCurrentAction
  <2>3. job'[r].ingestion = i
    BY <1>0, <2>2 DEF NoJob
  <2>4. ingestions[i].nextAction = "rest"
    BY <1>0, <2>2 DEF Branch, CompletingSteps
  <2> QED
    BY <1>2, <2>3, <2>4 DEF getCurrentAction
<1>3. CASE clearFinishedIngestions(r)
  BY <1>3 DEF clearFinishedIngestions, CompletingSteps
<1>4. CASE TaskStep(r) /\ ~getCurrentAction(r) /\ ~clearFinishedIngestions(r)
  BY <1>0, <1>4
  DEF TaskStep, createProviderIngestionRecord, setProviderComplete,
      setProviderIngesting, setProviderCanceled, setProviderBursting, getLastMark, next,
      createMark, AfterEntities, createMarkEntities, computeRemovedStep, applyMutation,
      settle, setProviderBackoff, setProviderCanceling, EndTick, CompletingSteps
<1>5. CASE BeginTick(r) \/ Fault(r)
  BY <1>0, <1>5
  DEF BeginTick, Fault, Throw, ThrowCancel, TaskFails, Crash, EndTick, CompletingSteps
<1>6. ASSUME NEW x \in Replicas, x # r, TaskStep(x) \/ BeginTick(x) \/ Fault(x)
      PROVE  pc'[r] = pc[r] /\ job'[r] = job[r]
  BY <1>0, <1>6
  DEF TaskStep, getCurrentAction, createProviderIngestionRecord,
      clearFinishedIngestions, setProviderComplete, setProviderIngesting,
      setProviderCanceled, setProviderBursting, getLastMark, next, createMark,
      createMarkEntities, computeRemovedStep, applyMutation, settle, setProviderBackoff,
      setProviderCanceling, EndTick, BeginTick, Fault, Throw, ThrowCancel, TaskFails,
      Crash
<1>7. (\E x \in Replicas : Expire(x)) \/ Elapse \/ SourceChanges \/ UNCHANGED vars =>
        pc'[r] = pc[r] /\ job'[r] = job[r]
  BY DEF Expire, Elapse, SourceChanges, vars, engine
<1> QED
  BY <1>1, <1>2, <1>3, <1>4, <1>5, <1>6, <1>7 DEF Next

LEMMA NextCycleInv == CycleInv /\ [Next]_vars => CycleInv'
<1> SUFFICES ASSUME CycleInv, [Next]_vars PROVE CycleInv'
  OBVIOUS
<1>0. Inv /\ PageInv
  BY DEF CycleInv
<1>1. Inv' /\ PageInv'
  BY <1>0, NextInv, NextPageInv
<1>2. CompleteCovered'
  <2> SUFFICES ASSUME NEW r \in Replicas, pc'[r] \in CompletingSteps,
                      job'[r].ingestion \in OpenIds'
               PROVE  Marked(marks', job'[r].ingestion, Len(source'))
    BY DEF CompleteCovered
  <2> DEFINE i == job'[r].ingestion
  <2>1. CASE RowCreated
    <3>1. i = NewId
      BY <1>0, <2>1, NewIdIsFresh
      DEF RowCreated, OpenIds, IsOpen, FreshIds, Inv, TypeOK
    <3>2. job[r].ingestion # NewId /\ NewId \notin OpenIds
      BY <2>1, NewIdIsFresh DEF RowCreated, FreshIds
    <3> QED
      BY <1>0, <3>1, <3>2, NextCompleting
  <2>2. CASE RowsOnlyClose
    <3>1. i \in OpenIds
      BY <2>2 DEF RowsOnlyClose, OpenIds, IsOpen
    <3>2. source' = source
      BY <3>1, NextSource DEF SourceChanges
    <3>3. Marked(marks, i, Len(source))
      BY <1>0, <3>1, NextCompleting DEF CycleInv, CompleteCovered, PageInv, RestCovered
    <3> QED
      BY <1>0, <3>1, <3>2, <3>3, NextMarks, CoverageStays
  <2> QED
    BY <1>0, <2>1, <2>2, NextRows
<1> QED
  BY <1>1, <1>2 DEF CycleInv

LEMMA InitCycleInv == Init => CycleInv
<1>1. Init => CompleteCovered
  BY DEF Init, CompleteCovered, CompletingSteps
<1> QED
  BY <1>1, InitInv, InitPageInv DEF CycleInv

-----------------------------------------------------------------------------
(* The cycle that the rows and the marks amount to.                        *)

record   == [i \in Ids |-> Outcome(ingestions[i])]
consumed == {m.cursor : m \in {n \in marks : IsOpen(n.ingestion)}} \ {0}
resting  == \E i \in OpenIds : ingestions[i].nextAction = "rest"

CycleStep == [Cycle!Next]_(Cycle!vars)

LEMMA OutcomeOf ==
  ASSUME NEW row \in Row
  PROVE  /\ Outcome(row) = "absent" <=> ~row.present
         /\ Outcome(row) = "open" <=> row.present /\ row.open
         /\ Outcome(row) \in {"done", "canceled"} <=> row.present /\ ~row.open
  BY DEF Outcome, Row

LEMMA Rows ==
  ASSUME Inv, NEW i \in Ids
  PROVE  /\ ingestions[i] \in Row
         /\ record[i] = Outcome(ingestions[i])
         /\ record[i] = "open" <=> IsOpen(i)
  BY OutcomeOf DEF Inv, TypeOK, OpenIsPresent, IsOpen, record

LEMMA CycleOpen ==
  ASSUME Inv
  PROVE  Cycle!Open = OpenIds
  BY Rows DEF Cycle!Open, OpenIds, record

\* The pages that the marks of the open ingestion tell of.
LEMMA ConsumedPages ==
  ASSUME Inv, NEW c
  PROVE  c \in consumed <=>
           c # 0 /\ \E i \in OpenIds : \E m \in MarksOf(i) : m.cursor = c
  BY DEF Inv, TypeOK, Mark, consumed, OpenIds, MarksOf

\* Nothing is consumed and nothing rests between two ingestions.
LEMMA BetweenIngestions ==
  ASSUME Inv, OpenIds = {}
  PROVE  consumed = {} /\ resting = FALSE
<1>1. \A c : c \notin consumed
  BY ConsumedPages
<1> QED
  BY <1>1 DEF resting

LEMMA ConsumedStays ==
  ASSUME Inv, Inv', OpenIds' = OpenIds, MarksStay, NoNewMarks
  PROVE  consumed' = consumed
<1>1. ASSUME NEW c, c \in consumed PROVE c \in consumed'
  <2>1. PICK m \in marks : IsOpen(m.ingestion) /\ m.cursor = c /\ c # 0
    BY <1>1 DEF consumed
  <2>2. PICK n \in marks' : SameMark(m, n)
    BY <2>1 DEF MarksStay
  <2>3. IsOpen(n.ingestion)'
    BY <2>1, <2>2 DEF SameMark, OpenIds, Inv, TypeOK, Mark
  <2> QED
    BY <2>1, <2>2, <2>3 DEF consumed, SameMark
<1>2. ASSUME NEW c, c \in consumed' PROVE c \in consumed
  <2>1. PICK n \in marks' : IsOpen(n.ingestion)' /\ n.cursor = c /\ c # 0
    BY <1>2 DEF consumed
  <2>2. PICK m \in marks : SameMark(m, n)
    BY <2>1 DEF NoNewMarks
  <2>3. n.ingestion \in Ids
    BY <2>1 DEF Inv, TypeOK, Mark
  <2>4. IsOpen(m.ingestion)
    BY <2>1, <2>2, <2>3 DEF SameMark, OpenIds
  <2> QED
    BY <2>1, <2>2, <2>4 DEF consumed, SameMark
<1> QED
  BY <1>1, <1>2

\* The marks of every page are the pages of the source.
LEMMA AllConsumed ==
  ASSUME Inv, PageInv, NEW i \in OpenIds, Marked(marks, i, Len(source))
  PROVE  consumed = 1..Len(source)
<1>0. Len(source) \in Nat
  BY SourceLength
<1>1. ASSUME NEW c, c \in consumed PROVE c \in 1..Len(source)
  <2>1. PICK k \in OpenIds : \E m \in MarksOf(k) : m.cursor = c /\ c # 0
    BY <1>1, ConsumedPages
  <2>2. c \in Nat /\ c <= Len(source)
    BY <2>1 DEF Inv, TypeOK, Mark, MarksOf, PageInv, MarksCovered, MarkCovered
  <2> QED
    BY <1>0, <2>1, <2>2
<1>2. ASSUME NEW c \in 1..Len(source) PROVE c \in consumed
  <2>1. PICK m \in marks : m.ingestion = i /\ m.cursor = c
    BY DEF Marked
  <2> QED
    BY <1>0, <2>1 DEF consumed, OpenIds
<1> QED
  BY <1>1, <1>2

-----------------------------------------------------------------------------
(* The steps.                                                              *)

\* A step that the cycle does not see.
LEMMA Stutter ==
  ASSUME Inv, Inv', source' = source, MarksStay, NoNewMarks,
         \A k \in Ids : /\ ingestions'[k].present = ingestions[k].present
                        /\ ingestions'[k].open = ingestions[k].open
                        /\ ingestions'[k].nextAction = ingestions[k].nextAction
  PROVE  CycleStep
<1>1. OpenIds' = OpenIds
  BY DEF OpenIds, IsOpen
<1>2. record' = record
  BY DEF record, Outcome
<1>3. resting' = resting
  BY <1>1 DEF resting, OpenIds
<1> QED
  BY <1>1, <1>2, <1>3, ConsumedStays
  DEF CycleStep, Cycle!vars, record, consumed, resting

\* A step that changes one row, and neither opens nor closes it.
LEMMA RowStep ==
  ASSUME Inv, Inv', source' = source, marks' = marks, NEW i \in Ids,
         \A k \in Ids \ {i} : ingestions'[k] = ingestions[k],
         ingestions'[i].present = ingestions[i].present,
         ingestions'[i].open = ingestions[i].open,
         ~ingestions[i].present => ingestions'[i] = ingestions[i],
         IsOpen(i) /\ ingestions'[i].nextAction = "rest" =>
            ingestions[i].nextAction = "rest" \/ consumed = 1..Len(source)
  PROVE  CycleStep
<1>1. OpenIds' = OpenIds
  BY DEF OpenIds, IsOpen
<1>2. consumed' = consumed
  BY <1>1, SameMarks, ConsumedStays
<1>3. CASE IsOpen(i)
  <2>1. record' = record
    <3>1. \A k \in Ids \ {i} : Outcome(ingestions'[k]) = Outcome(ingestions[k])
      OBVIOUS
    <3>2. Outcome(ingestions'[i]) = "open" /\ Outcome(ingestions[i]) = "open"
      BY <1>3, OutcomeOf DEF Inv, TypeOK, OpenIsPresent, IsOpen
    <3> QED
      BY <3>1, <3>2 DEF record
  <2>2. i \in OpenIds /\ \A k \in OpenIds : k = i
    BY <1>3 DEF Inv, OneOpenRecord, OpenIds
  <2>3. /\ resting <=> ingestions[i].nextAction = "rest"
        /\ resting' <=> ingestions'[i].nextAction = "rest"
    BY <1>1, <2>2 DEF resting
  <2>4. CASE resting' = FALSE
    BY <1>2, <2>1, <2>4
    DEF CycleStep, Cycle!Next, Cycle!Wake, record, consumed, resting
  <2>5. CASE resting' = TRUE /\ resting
    BY <1>2, <2>1, <2>5 DEF CycleStep, Cycle!vars, record, consumed, resting
  <2>6. CASE resting' = TRUE /\ ~resting
    <3>1. consumed = 1..Len(source)
      BY <1>3, <2>3, <2>6
    <3>2. Cycle!Open # {}
      BY <2>2, CycleOpen
    <3>3. Cycle!Rest
      BY <1>2, <2>1, <2>6, <3>1, <3>2 DEF Cycle!Rest, record, consumed, resting
    <3> QED
      BY <3>3 DEF CycleStep, Cycle!Next
  <2>7. resting' \in BOOLEAN /\ resting \in BOOLEAN
    BY DEF resting
  <2> QED
    BY <2>4, <2>5, <2>6, <2>7
<1>4. CASE ~IsOpen(i)
  <2>1. resting' = resting
    BY <1>1, <1>4 DEF resting, OpenIds
  <2>2. CASE ~ingestions[i].present
    <3>1. record' = record
      BY <2>2 DEF record
    <3> QED
      BY <1>2, <2>1, <3>1 DEF CycleStep, Cycle!vars, record, consumed, resting
  <2>3. CASE ingestions[i].present
    <3>1. /\ Outcome(ingestions[i]) \in {"done", "canceled"}
          /\ Outcome(ingestions'[i]) \in {"done", "canceled"}
      BY <1>4, <2>3, OutcomeOf DEF Inv, TypeOK, IsOpen
    <3>2. record' = [record EXCEPT ![i] = Outcome(ingestions'[i])]
      BY DEF record
    <3>3. record[i] \in {"done", "canceled"}
      BY <3>1 DEF record
    <3>4. Cycle!Overwrite(i)
      BY <1>2, <2>1, <3>1, <3>2, <3>3
      DEF Cycle!Overwrite, Cycle!Outcomes, record, consumed, resting
    <3> QED
      BY <3>4 DEF CycleStep, Cycle!Next
  <2> QED
    BY <2>2, <2>3
<1> QED
  BY <1>3, <1>4

\* A step that closes the open row.
LEMMA CloseStep ==
  ASSUME Inv, Inv', source' = source, marks' = marks, NEW i \in OpenIds, NEW outcome,
         \A k \in Ids \ {i} : ingestions'[k] = ingestions[k],
         ~ingestions'[i].open, Outcome(ingestions'[i]) = outcome
  PROVE  Cycle!Close(i, outcome)
<1>1. OpenIds' = {}
  BY DEF Inv, OneOpenRecord, OpenIds, IsOpen
<1>2. consumed' = {} /\ resting' = FALSE
  <2>1. \A c : c \notin consumed'
    BY <1>1 DEF Inv, TypeOK, Mark, consumed, OpenIds
  <2> QED
    BY <1>1, <2>1 DEF resting
<1>3. record' = [record EXCEPT ![i] = outcome]
  BY DEF record, OpenIds
<1>4. record[i] = "open"
  BY Rows DEF OpenIds
<1> QED
  BY <1>2, <1>3, <1>4 DEF Cycle!Close, record, consumed, resting

LEMMA CreateCycleStep ==
  ASSUME Inv, Inv', NEW r \in Replicas, RowCreated, createProviderIngestionRecord(r)
  PROVE  CycleStep
<1>1. /\ NewId \in Ids /\ ~ingestions[NewId].present /\ OpenIds = {}
      /\ marks' = marks /\ source' = source
      /\ \A m \in marks : m.ingestion # NewId
  BY DEF RowCreated, FreshIds, MarksOf, createProviderIngestionRecord
<1>2. ingestions'[NewId] = NewRow /\ \A k \in Ids \ {NewId} : ingestions'[k] = ingestions[k]
  BY <1>1 DEF RowCreated, Inv, TypeOK
<1>3. OpenIds' = {NewId}
  BY <1>1, <1>2 DEF OpenIds, IsOpen, NewRow
<1>4. consumed' = {}
  <2>1. \A c : c \notin consumed'
    BY <1>1, <1>3 DEF Inv, TypeOK, Mark, consumed, OpenIds
  <2> QED
    BY <2>1
<1>5. resting' = FALSE
  BY <1>2, <1>3 DEF resting, NewRow
<1>6. record' = [record EXCEPT ![NewId] = "open"]
  <2>1. Outcome(NewRow) = "open"
    BY DEF Outcome, NewRow
  <2> QED
    BY <1>2, <2>1 DEF record
<1>7. record[NewId] = "absent" /\ Cycle!Open = {}
  BY <1>1, Rows, OutcomeOf, CycleOpen
<1>8. Cycle!Begin(NewId)
  BY <1>1, <1>4, <1>5, <1>6, <1>7, BetweenIngestions
  DEF Cycle!Begin, record, consumed, resting
<1> QED
  BY <1>1, <1>8 DEF CycleStep, Cycle!Next

LEMMA ClearCycleStep ==
  ASSUME Inv, Inv', NEW r \in Replicas, clearFinishedIngestions(r)
  PROVE  CycleStep
<1>1. /\ ingestions' = KeptRows /\ marks' = KeptMarks /\ source' = source
      /\ MarksStay /\ NoNewMarks
  BY ClearedMarks DEF clearFinishedIngestions
<1>2. \A k \in Ids : ingestions'[k] = IF Closed(k) THEN NoRow ELSE ingestions[k]
  BY <1>1 DEF KeptRows
<1>3. OpenIds' = OpenIds /\ resting' = resting
  <2>1. OpenIds' = OpenIds
    <3>1. ASSUME NEW k \in Ids PROVE IsOpen(k)' <=> IsOpen(k)
      <4>1. CASE Closed(k)
        <5>1. ingestions'[k] = NoRow /\ NoRow.open = FALSE
          BY <1>2, <4>1 DEF NoRow
        <5> QED
          BY <4>1, <5>1 DEF IsOpen, Closed
      <4>2. CASE ~Closed(k)
        BY <1>2, <4>2 DEF IsOpen
      <4> QED
        BY <4>1, <4>2
    <3> QED
      BY <3>1 DEF OpenIds
  <2>2. \A k \in OpenIds : ingestions'[k] = ingestions[k]
    BY <1>2 DEF OpenIds, IsOpen, Closed
  <2> QED
    BY <2>1, <2>2 DEF resting
<1>4. consumed' = consumed
  BY <1>1, <1>3, ConsumedStays
<1>5. record' = [i \in Ids |-> IF record[i] = "open" THEN "open" ELSE "absent"]
  <2>1. ASSUME NEW i \in Ids
        PROVE  Outcome(ingestions'[i]) = IF record[i] = "open" THEN "open" ELSE "absent"
    <3>1. CASE Closed(i)
      BY <1>2, <3>1, Rows, NewRowType, OutcomeOf DEF Closed, IsOpen, NoRow
    <3>2. CASE ~Closed(i)
      BY <1>2, <3>2, Rows, OutcomeOf DEF Closed, IsOpen
    <3> QED
      BY <3>1, <3>2
  <2> QED
    BY <2>1 DEF record
<1>6. Cycle!Forget
  BY <1>1, <1>3, <1>4, <1>5 DEF Cycle!Forget, record, consumed, resting
<1> QED
  BY <1>6 DEF CycleStep, Cycle!Next

LEMMA MarkCycleStep ==
  ASSUME Inv, Inv', PageInv, NEW r \in Replicas, createMark(r)
  PROVE  CycleStep
<1> DEFINE i == job[r].ingestion
           c == job[r].cursor
           new == [ingestion |-> i, sequence |-> job[r].sequence, by |-> r,
                   cursor |-> c, refs |-> {}]
<1>1. /\ ingestions' = ingestions /\ source' = source /\ marks' = marks \cup {new}
      /\ pc[r] = "createMark" /\ i \in Ids /\ c \in Nat /\ Len(source) \in Nat
      /\ new.ingestion = i /\ new.cursor = c
  BY SourceLength DEF createMark, Inv, TypeOK, Job, JobHasRecord, WithoutRecord
<1>2. OpenIds' = OpenIds /\ record' = record /\ resting' = resting
  BY <1>1 DEF OpenIds, IsOpen, record, resting
<1>3. consumed' = IF IsOpen(i) /\ c # 0 THEN consumed \cup {c} ELSE consumed
  <2>1. \A n \in marks' : IsOpen(n.ingestion)' <=> IsOpen(n.ingestion)
    BY <1>1 DEF IsOpen
  <2> QED
    BY <1>1, <2>1 DEF consumed
<1>4. CASE IsOpen(i) /\ c # 0
  <2>1. i \in OpenIds
    BY <1>1, <1>4 DEF OpenIds
  <2>2. c <= Len(source) /\ Marked(marks, i, c - 1)
    BY <1>1, <2>1 DEF PageInv, JobsCovered, JobCovered
  <2>3. 1..(c - 1) \subseteq consumed
    BY <1>1, <1>4, <2>2 DEF Marked, consumed
  <2>4. PICK p \in 1..Len(source) : p = c
    BY <1>1, <1>4, <2>2
  <2>5. /\ Cycle!Open # {} /\ 1..(p - 1) \subseteq consumed
        /\ consumed' = consumed \cup {p}
    BY <1>3, <1>4, <2>1, <2>3, <2>4, CycleOpen
  <2>6. Cycle!Consume(p)
    BY <1>1, <1>2, <2>5 DEF Cycle!Consume, record, consumed, resting
  <2> QED
    BY <2>6 DEF CycleStep, Cycle!Next
<1>5. CASE ~(IsOpen(i) /\ c # 0)
  BY <1>1, <1>2, <1>3, <1>5 DEF CycleStep, Cycle!vars, record, consumed, resting
<1> QED
  BY <1>4, <1>5

\* A task updates the row of its own record.
LEMMA UpdateCycleStep ==
  ASSUME Inv, Inv', NEW i \in Ids, NEW row \in Row, updateIngestionRecordById(i, row),
         source' = source, marks' = marks,
         row.present = ingestions[i].present, row.open = ingestions[i].open,
         IsOpen(i) /\ row.nextAction = "rest" =>
            ingestions[i].nextAction = "rest" \/ consumed = 1..Len(source)
  PROVE  CycleStep
<1>1. /\ \A k \in Ids \ {i} : ingestions'[k] = ingestions[k]
      /\ ingestions[i].present => ingestions'[i] = row
      /\ ~ingestions[i].present => ingestions'[i] = ingestions[i]
  BY UpdateById DEF Inv
<1> QED
  BY <1>1, RowStep DEF Inv, OpenIsPresent

\* The updates that end an ingestion, or write over the end of one.
LEMMA CloseCycleStep ==
  ASSUME Inv, Inv', PageInv, NEW i \in Ids, NEW row \in Row,
         updateIngestionRecordById(i, row), source' = source, marks' = marks,
         row.present = ingestions[i].present, ~row.open,
         \/ row.nextAction = "nothing (canceled)"
         \/ /\ row.nextAction = "nothing (done)"
            /\ IsOpen(i) => Marked(marks, i, Len(source))
  PROVE  CycleStep
<1>1. /\ \A k \in Ids \ {i} : ingestions'[k] = ingestions[k]
      /\ ingestions[i].present => ingestions'[i] = row
      /\ ~ingestions[i].present => ingestions'[i] = ingestions[i]
  BY UpdateById DEF Inv
<1>2. CASE IsOpen(i)
  <2>1. i \in OpenIds /\ row.present /\ ingestions'[i] = row
    BY <1>1, <1>2 DEF Inv, OpenIsPresent, OpenIds
  <2>2. CASE row.nextAction = "nothing (canceled)"
    <3>1. Outcome(row) = "canceled"
      BY <2>1, <2>2 DEF Outcome, Row
    <3>2. Cycle!Cancel(i)
      BY <1>1, <2>1, <3>1, CloseStep DEF Cycle!Cancel
    <3> QED
      BY <3>2 DEF CycleStep, Cycle!Next
  <2>3. CASE row.nextAction = "nothing (done)" /\ Marked(marks, i, Len(source))
    <3>1. Outcome(row) = "done"
      BY <2>1, <2>3 DEF Outcome, Row
    <3>2. consumed = 1..Len(source)
      BY <2>1, <2>3, AllConsumed
    <3>3. Cycle!Complete(i)
      BY <1>1, <2>1, <3>1, <3>2, CloseStep DEF Cycle!Complete, consumed
    <3> QED
      BY <3>3 DEF CycleStep, Cycle!Next
  <2> QED
    BY <1>2, <2>2, <2>3
<1>3. CASE ~IsOpen(i)
  <2>1. ingestions[i] \in Row /\ row.open = FALSE
    BY Rows DEF Row
  <2>2. ingestions[i].open = FALSE
    BY <1>3, <2>1 DEF IsOpen, Row
  <2>3. ingestions'[i].open = ingestions[i].open
    BY <1>1, <2>1, <2>2
  <2>4. ingestions'[i].present = ingestions[i].present
    BY <1>1
  <2> QED
    BY <1>1, <1>3, <2>3, <2>4, RowStep
<1> QED
  BY <1>2, <1>3

\* Every step of a task.
LEMMA TaskCycleStep ==
  ASSUME CycleInv, Inv', NEW r \in Replicas, TaskStep(r)
  PROVE  CycleStep
<1> DEFINE i == job[r].ingestion
<1>0. /\ Inv /\ PageInv
      /\ pc[r] \notin WithoutRecord => i \in Ids /\ ingestions[i] \in Row
      /\ job[r] \in Job
  BY DEF CycleInv, Inv, JobHasRecord, TypeOK
<1>1. CASE \/ getCurrentAction(r) \/ getLastMark(r) \/ next(r) \/ computeRemovedStep(r)
           \/ applyMutation(r)
  BY <1>0, <1>1, Stutter, SameMarks
  DEF getCurrentAction, getLastMark, next, computeRemovedStep, applyMutation, db
<1>2. CASE createMarkEntities(r)
  <2>1. MarksStay /\ NoNewMarks
    BY <1>0, <1>2, JoinedMarks DEF Inv, TypeOK
  <2> QED
    BY <1>0, <1>2, <2>1, Stutter DEF createMarkEntities
<1>3. CASE createMark(r)
  BY <1>0, <1>3, MarkCycleStep
<1>4. CASE createProviderIngestionRecord(r)
  <2>1. CASE UniqueIndexAllows
    BY <1>0, <1>4, <2>1, NewIdIsFresh, CreateCycleStep
    DEF createProviderIngestionRecord, RowCreated, UniqueIndexAllows
  <2>2. CASE ~UniqueIndexAllows
    BY <1>0, <1>4, <2>2, Stutter, SameMarks DEF createProviderIngestionRecord
  <2> QED
    BY <2>1, <2>2
<1>5. CASE clearFinishedIngestions(r)
  BY <1>0, <1>5, ClearCycleStep
<1>6. CASE setProviderComplete(r)
  <2> DEFINE row == [ingestions[i] EXCEPT !.nextAction = "nothing (done)",
                       !.restCompleted = TRUE, !.status = "complete", !.open = FALSE]
  <2>1. /\ i \in Ids /\ updateIngestionRecordById(i, row)
        /\ source' = source /\ marks' = marks
    BY <1>0, <1>6 DEF setProviderComplete, WithoutRecord
  <2>2. row \in Row
    BY <1>0, <2>1, RowUpdates DEF Inv, Statuses, NextActions
  <2>3. ~row.open /\ row.present = ingestions[i].present /\ row.nextAction = "nothing (done)"
    BY <1>0, <2>1, Rows DEF Row
  <2>4. IsOpen(i) => Marked(marks, i, Len(source))
    BY <1>6, <2>1
    DEF setProviderComplete, CompletingSteps, CycleInv, CompleteCovered, OpenIds
  <2> QED
    BY <1>0, <2>1, <2>2, <2>3, <2>4, CloseCycleStep
<1>7. CASE setProviderCanceled(r)
  <2> DEFINE row == [ingestions[i] EXCEPT !.nextAction = "nothing (canceled)",
                       !.restCompleted = TRUE, !.status = "complete", !.open = FALSE]
  <2>1. /\ i \in Ids /\ updateIngestionRecordById(i, row)
        /\ source' = source /\ marks' = marks
    BY <1>0, <1>7 DEF setProviderCanceled, WithoutRecord
  <2>2. row \in Row
    BY <1>0, <2>1, RowUpdates DEF Inv, Statuses, NextActions
  <2>3. ~row.open /\ row.present = ingestions[i].present /\ row.nextAction = "nothing (canceled)"
    BY <1>0, <2>1, Rows DEF Row
  <2> QED
    BY <1>0, <2>1, <2>2, <2>3, CloseCycleStep
<1>8. CASE setProviderIngesting(r)
  <2> DEFINE row == [ingestions[i] EXCEPT !.nextAction = "ingest"]
  <2>1. /\ i \in Ids /\ updateIngestionRecordById(i, row)
        /\ source' = source /\ marks' = marks
    BY <1>0, <1>8 DEF setProviderIngesting, WithoutRecord
  <2>2. row \in Row
    BY <1>0, <2>1, RowUpdates DEF Inv, Statuses, NextActions
  <2>3. row.open = ingestions[i].open /\ row.present = ingestions[i].present /\ row.nextAction # "rest"
    BY <1>0, <2>1, Rows DEF Row
  <2> QED
    BY <1>0, <2>1, <2>2, <2>3, UpdateCycleStep
<1>9. CASE setProviderBursting(r)
  <2> DEFINE row == [ingestions[i] EXCEPT !.status = "bursting"]
  <2>1. /\ i \in Ids /\ updateIngestionRecordById(i, row)
        /\ source' = source /\ marks' = marks
    BY <1>0, <1>9 DEF setProviderBursting, WithoutRecord
  <2>2. row \in Row
    BY <1>0, <2>1, RowUpdates DEF Inv, Statuses, NextActions
  <2>3. /\ row.open = ingestions[i].open /\ row.present = ingestions[i].present
        /\ row.nextAction = ingestions[i].nextAction
    BY <1>0, <2>1, Rows DEF Row
  <2> QED
    BY <1>0, <2>1, <2>2, <2>3, UpdateCycleStep
<1>10. CASE settle(r) /\ ~job[r].done
  <2> DEFINE row == [ingestions[i] EXCEPT !.attempts = 0, !.status = "interstitial"]
  <2>1. /\ i \in Ids /\ updateIngestionRecordById(i, row)
        /\ source' = source /\ marks' = marks
    BY <1>0, <1>10 DEF settle, setProviderInterstitial, WithoutRecord
  <2>2. row \in Row
    BY <1>0, <2>1, RowUpdates DEF Inv, Statuses, NextActions
  <2>3. /\ row.open = ingestions[i].open /\ row.present = ingestions[i].present
        /\ row.nextAction = ingestions[i].nextAction
    BY <1>0, <2>1, Rows DEF Row
  <2> QED
    BY <1>0, <2>1, <2>2, <2>3, UpdateCycleStep
<1>11. CASE settle(r) /\ job[r].done
  <2> DEFINE row == [ingestions[i] EXCEPT !.nextAction = "rest", !.due = FALSE,
                       !.status = "resting"]
  <2>1. /\ i \in Ids /\ updateIngestionRecordById(i, row)
        /\ source' = source /\ marks' = marks /\ pc[r] = "settle"
    BY <1>0, <1>11 DEF settle, setProviderResting, WithoutRecord
  <2>2. row \in Row
    BY <1>0, <2>1, RowUpdates DEF Inv, Statuses, NextActions
  <2>3. row.open = ingestions[i].open /\ row.present = ingestions[i].present
    BY <1>0, <2>1, Rows DEF Row
  <2>4. IsOpen(i) => consumed = 1..Len(source)
    <3> HAVE IsOpen(i)
    <3>1. i \in OpenIds
      BY <2>1 DEF OpenIds
    <3>2. Marked(marks, i, Len(source))
      BY <1>0, <1>11, <2>1, <3>1 DEF PageInv, JobsCovered, JobCovered
    <3> QED
      BY <1>0, <3>1, <3>2, AllConsumed
  <2> QED
    BY <1>0, <2>1, <2>2, <2>3, <2>4, UpdateCycleStep
<1>12. CASE setProviderBackoff(r)
  <2> DEFINE row == [ingestions[i] EXCEPT !.nextAction = "backoff",
                       !.attempts = AttemptsAfterFailure(r), !.due = FALSE,
                       !.status = "backing off"]
  <2>1. /\ i \in Ids /\ updateIngestionRecordById(i, row)
        /\ source' = source /\ marks' = marks
    BY <1>0, <1>12 DEF setProviderBackoff, WithoutRecord
  <2>2. row \in Row
    <3>1. AttemptsAfterFailure(r) \in Nat
      BY <1>0 DEF AttemptsAfterFailure, Job
    <3> QED
      BY <1>0, <2>1, <3>1, RowUpdates DEF Inv, Statuses, NextActions
  <2>3. row.open = ingestions[i].open /\ row.present = ingestions[i].present /\ row.nextAction # "rest"
    BY <1>0, <2>1, Rows DEF Row
  <2> QED
    BY <1>0, <2>1, <2>2, <2>3, UpdateCycleStep
<1>13. CASE setProviderCanceling(r)
  <2> DEFINE row == [ingestions[i] EXCEPT !.nextAction = "cancel", !.due = TRUE,
                       !.status = "canceling"]
  <2>1. /\ i \in Ids /\ updateIngestionRecordById(i, row)
        /\ source' = source /\ marks' = marks
    BY <1>0, <1>13 DEF setProviderCanceling, WithoutRecord
  <2>2. row \in Row
    BY <1>0, <2>1, RowUpdates DEF Inv, Statuses, NextActions
  <2>3. row.open = ingestions[i].open /\ row.present = ingestions[i].present /\ row.nextAction # "rest"
    BY <1>0, <2>1, Rows DEF Row
  <2> QED
    BY <1>0, <2>1, <2>2, <2>3, UpdateCycleStep
<1> QED
  BY <1>1, <1>2, <1>3, <1>4, <1>5, <1>6, <1>7, <1>8, <1>9, <1>10, <1>11, <1>12, <1>13
  DEF TaskStep

LEMMA NextCycleStep == CycleInv /\ [Next]_vars => [Cycle!Next]_(Cycle!vars)
<1> SUFFICES ASSUME CycleInv, [Next]_vars PROVE CycleStep
  BY DEF CycleStep
<1>0. Inv /\ Inv'
  BY NextInv DEF CycleInv
<1>1. ASSUME NEW r \in Replicas, TaskStep(r) PROVE CycleStep
  BY <1>0, <1>1, TaskCycleStep
<1>2. ASSUME NEW r \in Replicas, BeginTick(r) \/ Fault(r) \/ Expire(r) PROVE CycleStep
  BY <1>0, <1>2, Stutter, SameMarks
  DEF BeginTick, Fault, Throw, ThrowCancel, TaskFails, Crash, Expire, db
<1>3. CASE Elapse
  <2>1. PICK i \in Ids : ingestions' = [ingestions EXCEPT ![i].due = TRUE]
    BY <1>3 DEF Elapse
  <2>2. \A k \in Ids : /\ ingestions'[k].present = ingestions[k].present
                       /\ ingestions'[k].open = ingestions[k].open
                       /\ ingestions'[k].nextAction = ingestions[k].nextAction
    BY <1>0, <2>1 DEF Inv, TypeOK, Row
  <2> QED
    BY <1>0, <1>3, <2>2, Stutter, SameMarks DEF Elapse
<1>4. CASE SourceChanges
  <2>1. /\ OpenIds = {} /\ ingestions' = ingestions /\ marks' = marks
        /\ source' \in Listings
    BY <1>4 DEF SourceChanges, db
  <2>2. OpenIds' = {} /\ record' = record
    BY <2>1 DEF OpenIds, IsOpen, record
  <2>3. consumed' = consumed /\ resting' = resting
    BY <2>1 DEF consumed, resting, OpenIds, IsOpen
  <2>4. Cycle!Open = {}
    BY <1>0, <2>1, CycleOpen
  <2>5. Cycle!Change
    BY <2>1, <2>2, <2>3, <2>4 DEF Cycle!Change, record, consumed, resting
  <2> QED
    BY <2>5 DEF CycleStep, Cycle!Next
<1>5. CASE UNCHANGED vars
  BY <1>0, <1>5, Stutter, SameMarks DEF vars
<1> QED
  BY <1>1, <1>2, <1>3, <1>4, <1>5 DEF Next

LEMMA InitCycle == Init => Cycle!Init
<1> SUFFICES ASSUME Init PROVE Cycle!Init
  OBVIOUS
<1>1. Inv
  BY InitInv
<1>2. \A i \in Ids : ingestions[i] = NoRow /\ ingestions[i].open = FALSE
  BY DEF Init, NoRow
<1>3. OpenIds = {}
  BY <1>2 DEF OpenIds, IsOpen
<1>4. record = [i \in Ids |-> "absent"]
  <2>1. Outcome(NoRow) = "absent"
    BY DEF Outcome, NoRow
  <2> QED
    BY <1>2, <2>1 DEF record
<1>5. Len(source) \in {Len(l) : l \in Listings}
  BY DEF Init
<1> QED
  BY <1>1, <1>3, <1>4, <1>5, BetweenIngestions
  DEF Cycle!Init, record, consumed, resting

-----------------------------------------------------------------------------
(* The theorem.                                                            *)

\* Whatever the replicas do to the rows and the marks of a provider, late
\* updates of expired bursts and crashes included, is an ingestion cycle: one
\* ingestion at a time, its pages in their order, done only with all of them.
THEOREM EngineRunsCycles == Spec => IsACycle
<1>1. CycleInv /\ [Next]_vars => CycleInv'
  BY NextCycleInv
<1> QED
  BY <1>1, InitCycleInv, InitCycle, NextCycleStep, PTL DEF Spec, IsACycle, Cycle!Spec
=============================================================================
