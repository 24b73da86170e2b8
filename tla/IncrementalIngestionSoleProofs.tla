-------------------- MODULE IncrementalIngestionSoleProofs --------------------
(* What holds while no burst outlives its lock, with one replica or many:  *)
(* the status tells the next action, a cycle without an error leaves the   *)
(* catalog equal to the source, an ingestion comes to an end, and a fault  *)
(* costs one page.  That it is never stuck holds with overlaps.            *)
EXTENDS IncrementalIngestionProofs, FiniteSetTheorems

\* One replica at a time runs the task.
NoOverlap == \A r, q \in Replicas : pc[r] # "idle" /\ pc[q] # "idle" => r = q

\* A single replica never does otherwise.
LEMMA OneReplicaNeverOverlaps ==
  ASSUME \A r, q \in Replicas : r = q
  PROVE  NoOverlap
  BY DEF NoOverlap

\* What a task that works alone may rely on in its record, and in what it has
\* found to be removed.
JobSole(r) ==
    LET i == job[r].ingestion IN
    /\ pc[r] \notin WithoutRecord => i \in OpenIds
    /\ pc[r] \in TrySteps => ingestions[i].nextAction = "ingest"
    /\ pc[r] = "setProviderIngesting" => ingestions[i].nextAction = "backoff"
    /\ pc[r] \in TrySteps \ {"applyMutation"} => job[r].removed = {}
    /\ pc[r] = "computeRemoved" => ~job[r].done
    /\ pc[r] = "applyMutation" =>
          job[r].removed = IF job[r].done THEN {} ELSE catalog \ MarkedRefs(i)

JobsSole == \A r \in Replicas : JobSole(r)

SoleInv == StatusTellsNextAction /\ JobsSole

\* The entities of the pages 1..c, and what the catalog holds once they are
\* committed: what it held before is gone with the first of them.
UpTo(c)      == UNION {source[k] : k \in 1..c}
CatalogAt(c) == c = 0 \/ catalog = UpTo(c)

\* Ingestion i has marked no page beyond c, and each page once up to the task
\* that marked it; up to page d the entities are recorded with the marks.
MarksUpTo(i, c)  == \A m \in MarksOf(i) : m.cursor <= c /\ m.cursor = m.sequence + 1
RecordedTo(i, d) == \A m \in MarksOf(i) : m.cursor <= d => m.refs = source[m.cursor]

\* The page c that a task holds, when d pages are committed.
HoldsPage(r, d) ==
    LET c == job[r].cursor IN
    /\ c \in 1..Len(source)
    /\ job[r].sequence = c - 1
    /\ job[r].batch = source[c]
    /\ job[r].done <=> c = Len(source)
    /\ CatalogAt(d)

JobClean(r) ==
    LET i == job[r].ingestion
        c == job[r].cursor
    IN /\ pc[r] \notin {"setProviderIngesting", "setProviderCanceled",
                        "setProviderBackoff", "setProviderCanceling"}
       /\ pc[r] = "next" =>
            /\ c < Len(source) /\ job[r].sequence = c /\ CatalogAt(c)
            /\ MarksUpTo(i, c) /\ RecordedTo(i, c)
       /\ pc[r] = "createMark" =>
            HoldsPage(r, c - 1) /\ MarksUpTo(i, c - 1) /\ RecordedTo(i, c - 1)
       /\ pc[r] = "createMarkEntities" =>
            /\ HoldsPage(r, c - 1) /\ MarksUpTo(i, c) /\ RecordedTo(i, c - 1)
            /\ \A m \in MarksOf(i) : m.cursor = c => m.by = r
       /\ pc[r] \in {"computeRemoved", "applyMutation"} =>
            HoldsPage(r, c - 1) /\ MarksUpTo(i, c) /\ RecordedTo(i, c)
       /\ pc[r] = "settle" =>
            /\ c \in 1..Len(source) /\ CatalogAt(c) /\ (job[r].done <=> c = Len(source))
            /\ MarksUpTo(i, c) /\ RecordedTo(i, c) /\ Marked(marks, i, c)

\* Between two bursts: the last mark tells which pages are in the catalog.
BeforePages == WithoutRecord \cup {"setProviderBursting", "getLastMark"}

RowClean(i) ==
    LET action == ingestions[i].nextAction IN
    /\ action \in {"rest", "ingest"}
    /\ action = "rest" => catalog = SourceEntities
    /\ action = "ingest" /\ (\A r \in Replicas : pc[r] \in BeforePages) =>
          /\ MarksUpTo(i, Len(source) - 1) /\ RecordedTo(i, Len(source))
          /\ \A m \in LastMarks(i) : catalog = UpTo(m.cursor)

Clean == (\A r \in Replicas : JobClean(r)) /\ (\A i \in OpenIds : RowClean(i))

\* While nothing has gone wrong.
CleanInv == faults = 0 => Clean

-----------------------------------------------------------------------------
(* The status of the rows.                                                 *)

RowTells(row) ==
    /\ row.status = "resting"   <=> row.nextAction = "rest"
    /\ row.status = "canceling" <=> row.nextAction = "cancel"
    /\ row.status = "complete"  <=> ~row.open
    /\ row.nextAction = "backoff" => row.status = "backing off"
    /\ row.open <=> row.nextAction \in {"rest", "ingest", "backoff", "cancel"}

LEMMA StatusByRow ==
  StatusTellsNextAction <=> \A i \in Ids : ingestions[i].present => RowTells(ingestions[i])
  BY DEF StatusTellsNextAction, RowTells

\* An update by id is right when the row it writes is.
LEMMA UpdateTells ==
  ASSUME Inv, StatusTellsNextAction, NEW i \in Ids, NEW row \in Row,
         updateIngestionRecordById(i, row), RowTells(row)
  PROVE  StatusTellsNextAction'
<1>1. \A k \in Ids : ingestions[k].present => RowTells(ingestions[k])
  BY StatusByRow
<1>2. \A k \in Ids : ingestions'[k].present => RowTells(ingestions'[k])
  BY <1>1, UpdateById DEF Inv
<1> QED
  BY <1>2 DEF StatusTellsNextAction, RowTells

\* What a task that works alone does to the status.
LEMMA TaskStepStatus ==
  ASSUME Inv, SoleInv, NEW r \in Replicas, TaskStep(r)
  PROVE  StatusTellsNextAction'
<1> DEFINE i == job[r].ingestion
           old == ingestions[i]
<1>0. /\ StatusTellsNextAction /\ JobSole(r) /\ TypeOK
      /\ job[r] \in Job
      /\ \A k \in OpenIds : /\ k \in Ids /\ ingestions[k] \in Row
                            /\ ingestions[k].open /\ RowTells(ingestions[k])
  BY StatusByRow DEF SoleInv, JobsSole, Inv, TypeOK, OpenIds, IsOpen, OpenIsPresent
<1>1. CASE getCurrentAction(r) \/ getLastMark(r) \/ next(r) \/ createMark(r)
           \/ createMarkEntities(r) \/ computeRemovedStep(r) \/ applyMutation(r)
  <2>1. ingestions' = ingestions
    BY <1>1 DEF getCurrentAction, getLastMark, next, createMark, createMarkEntities,
                computeRemovedStep, applyMutation, db
  <2> QED
    BY <1>0, <2>1 DEF StatusTellsNextAction
<1>2. CASE createProviderIngestionRecord(r)
  <2>1. RowTells(NewRow)
    BY DEF RowTells, NewRow
  <2>2. \A k \in Ids : ingestions[k].present => RowTells(ingestions[k])
    BY <1>0, StatusByRow
  <2>3. \A k \in Ids : ingestions'[k].present => RowTells(ingestions'[k])
    BY <1>0, <1>2, <2>1, <2>2, NewIdIsFresh
    DEF createProviderIngestionRecord, TypeOK, FreshIds
  <2> QED
    BY <2>3 DEF StatusTellsNextAction, RowTells
<1>3. CASE clearFinishedIngestions(r)
  BY <1>0, <1>3
  DEF clearFinishedIngestions, KeptRows, NoRow, StatusTellsNextAction
<1>4. CASE setProviderComplete(r)
  <2> DEFINE row == [old EXCEPT !.nextAction = "nothing (done)",
                       !.restCompleted = TRUE, !.status = "complete", !.open = FALSE]
  <2>1. i \in OpenIds /\ updateIngestionRecordById(i, row)
    BY <1>0, <1>4 DEF setProviderComplete, WithoutRecord, JobSole
  <2>2. row \in Row /\ RowTells(row)
    <3>1. row \in Row
      BY <1>0, <2>1 DEF Row, Statuses, NextActions
    <3>2. RowTells(row)
      BY <1>0, <2>1 DEF Row, RowTells
    <3> QED
      BY <3>1, <3>2
  <2> HIDE DEF row
  <2> QED
    BY <1>0, <2>1, <2>2, UpdateTells
<1>5. CASE setProviderIngesting(r)
  <2> DEFINE row == [old EXCEPT !.nextAction = "ingest"]
  <2>1. i \in OpenIds /\ updateIngestionRecordById(i, row) /\ old.nextAction = "backoff"
    BY <1>0, <1>5 DEF setProviderIngesting, WithoutRecord, JobSole
  <2>2. row \in Row /\ RowTells(row)
    <3>1. row \in Row
      BY <1>0, <2>1 DEF Row, Statuses, NextActions
    <3>2. RowTells(row)
      BY <1>0, <2>1 DEF Row, RowTells
    <3> QED
      BY <3>1, <3>2
  <2> HIDE DEF row
  <2> QED
    BY <1>0, <2>1, <2>2, UpdateTells
<1>6. CASE setProviderCanceled(r)
  <2> DEFINE row == [old EXCEPT !.nextAction = "nothing (canceled)",
                       !.restCompleted = TRUE, !.status = "complete", !.open = FALSE]
  <2>1. i \in OpenIds /\ updateIngestionRecordById(i, row)
    BY <1>0, <1>6 DEF setProviderCanceled, WithoutRecord, JobSole
  <2>2. row \in Row /\ RowTells(row)
    <3>1. row \in Row
      BY <1>0, <2>1 DEF Row, Statuses, NextActions
    <3>2. RowTells(row)
      BY <1>0, <2>1 DEF Row, RowTells
    <3> QED
      BY <3>1, <3>2
  <2> HIDE DEF row
  <2> QED
    BY <1>0, <2>1, <2>2, UpdateTells
<1>7. CASE setProviderBursting(r)
  <2> DEFINE row == [old EXCEPT !.status = "bursting"]
  <2>1. i \in OpenIds /\ updateIngestionRecordById(i, row) /\ old.nextAction = "ingest"
    BY <1>0, <1>7 DEF setProviderBursting, WithoutRecord, TrySteps, JobSole
  <2>2. row \in Row /\ RowTells(row)
    <3>1. row \in Row
      BY <1>0, <2>1 DEF Row, Statuses, NextActions
    <3>2. RowTells(row)
      BY <1>0, <2>1 DEF Row, RowTells
    <3> QED
      BY <3>1, <3>2
  <2> HIDE DEF row
  <2> QED
    BY <1>0, <2>1, <2>2, UpdateTells
<1>8. CASE settle(r)
  <2>1. i \in OpenIds /\ old.nextAction = "ingest" /\ job[r].done \in BOOLEAN
    BY <1>0, <1>8 DEF settle, WithoutRecord, TrySteps, JobSole, Job
  <2>2. CASE job[r].done
    <3> DEFINE row == [old EXCEPT !.nextAction = "rest", !.due = FALSE,
                                  !.status = "resting"]
    <3>1. updateIngestionRecordById(i, row)
      BY <1>8, <2>2 DEF settle, setProviderResting
    <3>2. row \in Row /\ RowTells(row)
      <4>1. row \in Row
        BY <1>0, <2>1 DEF Row, Statuses, NextActions
      <4>2. RowTells(row)
        BY <1>0, <2>1 DEF Row, RowTells
      <4> QED
        BY <4>1, <4>2
    <3> HIDE DEF row
    <3> QED
      BY <1>0, <2>1, <3>1, <3>2, UpdateTells
  <2>3. CASE ~job[r].done
    <3> DEFINE row == [old EXCEPT !.attempts = 0, !.status = "interstitial"]
    <3>1. updateIngestionRecordById(i, row)
      BY <1>8, <2>3 DEF settle, setProviderInterstitial
    <3>2. row \in Row /\ RowTells(row)
      <4>1. row \in Row
        BY <1>0, <2>1 DEF Row, Statuses, NextActions
      <4>2. RowTells(row)
        BY <1>0, <2>1 DEF Row, RowTells
      <4> QED
        BY <4>1, <4>2
    <3> HIDE DEF row
    <3> QED
      BY <1>0, <2>1, <3>1, <3>2, UpdateTells
  <2> QED
    BY <2>1, <2>2, <2>3
<1>9. CASE setProviderBackoff(r)
  <2> DEFINE row == [old EXCEPT !.nextAction = "backoff",
                       !.attempts = AttemptsAfterFailure(r), !.due = FALSE,
                       !.status = "backing off"]
  <2>1. i \in OpenIds /\ updateIngestionRecordById(i, row)
    BY <1>0, <1>9 DEF setProviderBackoff, WithoutRecord, JobSole
  <2>2. AttemptsAfterFailure(r) \in Nat
    BY <1>0 DEF AttemptsAfterFailure, Job
  <2>3. row \in Row /\ RowTells(row)
    <3>1. row \in Row
      BY <1>0, <2>1, <2>2 DEF Row, Statuses, NextActions
    <3>2. row.status = "backing off" /\ row.nextAction = "backoff" /\ (row.open <=> old.open)
      BY <1>0, <2>1, <2>2 DEF Row
    <3>3. RowTells(row)
      BY <1>0, <2>1, <3>2 DEF RowTells
    <3> QED
      BY <3>1, <3>3
  <2> HIDE DEF row
  <2> QED
    BY <1>0, <2>1, <2>3, UpdateTells
<1>10. CASE setProviderCanceling(r)
  <2> DEFINE row == [old EXCEPT !.nextAction = "cancel", !.due = TRUE,
                       !.status = "canceling"]
  <2>1. i \in OpenIds /\ updateIngestionRecordById(i, row)
    BY <1>0, <1>10 DEF setProviderCanceling, WithoutRecord, JobSole
  <2>2. row \in Row /\ RowTells(row)
    <3>1. row \in Row
      BY <1>0, <2>1 DEF Row, Statuses, NextActions
    <3>2. row.status = "canceling" /\ row.nextAction = "cancel" /\ (row.open <=> old.open)
      BY <1>0, <2>1 DEF Row
    <3>3. RowTells(row)
      BY <1>0, <2>1, <3>2 DEF RowTells
    <3> QED
      BY <3>1, <3>3
  <2> HIDE DEF row
  <2> QED
    BY <1>0, <2>1, <2>2, UpdateTells
<1> QED
  BY <1>1, <1>2, <1>3, <1>4, <1>5, <1>6, <1>7, <1>8, <1>9, <1>10 DEF TaskStep

-----------------------------------------------------------------------------
(* The task that works alone.                                              *)

\* The other replicas are idle before and after a step of one of them.
LEMMA OthersAreIdle ==
  ASSUME NoOverlap, NoOverlap', NEW r \in Replicas,
         \A x \in Replicas \ {r} : pc'[x] = pc[x],
         pc[r] # "idle" \/ pc'[r] # "idle"
  PROVE  \A x \in Replicas \ {r} : pc[x] = "idle" /\ pc'[x] = "idle"
  BY DEF NoOverlap

LEMMA IdleIsSole == \A r \in Replicas : pc'[r] = "idle" => JobSole(r)'
  BY DEF JobSole, WithoutRecord, TrySteps

LEMMA SoleStep ==
  ASSUME NoOverlap, NoOverlap', NEW r \in Replicas,
         \A x \in Replicas \ {r} : pc'[x] = pc[x],
         pc[r] # "idle" \/ pc'[r] # "idle",
         StatusTellsNextAction', JobSole(r)'
  PROVE  SoleInv'
  BY OthersAreIdle, IdleIsSole DEF SoleInv, JobsSole

\* What a task relies on follows it through its steps.
LEMMA TaskStepSole ==
  ASSUME Inv, SoleInv, NEW r \in Replicas, TaskStep(r)
  PROVE  JobSole(r)'
<1> USE DEF Goto
<1> DEFINE i == job[r].ingestion
<1>0. /\ JobSole(r) /\ job[r] \in Job /\ pc \in [Replicas -> Steps]
      /\ job \in [Replicas -> Job]
      /\ ingestions \in [Ids -> Row]
  BY DEF SoleInv, JobsSole, Inv, TypeOK
<1>1. CASE EndTick(r)
  BY <1>0, <1>1, IdleIsSole DEF EndTick
<1>2. CASE getCurrentAction(r) /\ ~EndTick(r)
  <2>1. CASE pc'[r] = "createProviderIngestionRecord"
    BY <2>1 DEF JobSole, WithoutRecord, TrySteps
  <2>2. ASSUME NEW k \in OpenIds, pc'[r] = Branch(ingestions[k]),
               Branch(ingestions[k]) # "idle",
               job'[r] = [NoJob EXCEPT !.ingestion = k, !.attempts = ingestions[k].attempts]
        PROVE  JobSole(r)'
    <3>1. job'[r].ingestion = k /\ job'[r].removed = {}
      BY <2>2 DEF NoJob
    <3>2. ingestions' = ingestions /\ OpenIds' = OpenIds
      BY <1>2 DEF getCurrentAction, db, OpenIds, IsOpen
    <3>3. /\ pc'[r] \in {"clearFinishedIngestions", "setProviderBursting",
                         "setProviderIngesting", "setProviderCanceled"}
          /\ pc'[r] = "setProviderBursting" => ingestions[k].nextAction = "ingest"
          /\ pc'[r] = "setProviderIngesting" => ingestions[k].nextAction = "backoff"
      BY <2>2 DEF Branch
    <3> QED
      BY <3>1, <3>2, <3>3 DEF JobSole, WithoutRecord, TrySteps
  <2> QED
    BY <1>0, <1>2, <2>1, <2>2 DEF getCurrentAction
<1>3. CASE createProviderIngestionRecord(r) /\ ~EndTick(r)
  <2>1. /\ NewId \in Ids
        /\ ingestions' = [ingestions EXCEPT ![NewId] = NewRow]
        /\ job'[r] = [NoJob EXCEPT !.ingestion = NewId]
        /\ pc'[r] = "setProviderBursting"
    BY <1>0, <1>3, NewIdIsFresh DEF createProviderIngestionRecord, FreshIds
  <2>2. /\ ingestions'[NewId].open /\ ingestions'[NewId].nextAction = "ingest"
        /\ job'[r].ingestion = NewId /\ job'[r].removed = {}
    BY <1>0, <2>1 DEF NewRow, NoJob
  <2> QED
    BY <2>1, <2>2 DEF JobSole, WithoutRecord, TrySteps, OpenIds, IsOpen
<1>4. CASE clearFinishedIngestions(r)
  <2>1. i \in OpenIds
    BY <1>0, <1>4 DEF clearFinishedIngestions, JobSole, WithoutRecord
  <2>2. job' = job /\ pc'[r] = "setProviderComplete" /\ i \in OpenIds'
    BY <1>0, <1>4, <2>1
    DEF clearFinishedIngestions, KeptRows, Closed, OpenIds, IsOpen
  <2> QED
    BY <2>2 DEF JobSole, WithoutRecord, TrySteps
<1>5. CASE setProviderBursting(r)
  <2>1. /\ i \in OpenIds /\ i \in Ids /\ ingestions[i] \in Row
        /\ ingestions[i].nextAction = "ingest" /\ job[r].removed = {}
    BY <1>0, <1>5 DEF setProviderBursting, JobSole, WithoutRecord, TrySteps, OpenIds
  <2>2. [ingestions[i] EXCEPT !.status = "bursting"].open /\
        [ingestions[i] EXCEPT !.status = "bursting"].nextAction = "ingest"
    BY <2>1 DEF Row, OpenIds, IsOpen
  <2>3. ingestions'[i].open /\ ingestions'[i].nextAction = "ingest"
    BY <1>0, <1>5, <2>1, <2>2
    DEF setProviderBursting, updateIngestionRecordById, OpenIds, IsOpen
  <2>4. job' = job /\ pc'[r] = "getLastMark"
    BY <1>0, <1>5 DEF setProviderBursting
  <2> QED
    BY <2>1, <2>3, <2>4 DEF JobSole, WithoutRecord, TrySteps, OpenIds, IsOpen
<1>6. CASE getLastMark(r) \/ next(r)
  <2>1. /\ pc[r] \in {"getLastMark", "next"} /\ pc'[r] \in {"next", "createMark"}
        /\ ingestions' = ingestions
    BY <1>0, <1>6 DEF getLastMark, next, db
  <2>2. job'[r].ingestion = i /\ job'[r].removed = job[r].removed
    <3>1. CASE getLastMark(r)
      <4>1. \A c, s : job' = [job EXCEPT ![r] = [@ EXCEPT !.cursor = c, !.sequence = s]] =>
               job'[r].ingestion = i /\ job'[r].removed = job[r].removed
        BY <1>0 DEF Job
      <4> QED
        BY <3>1, <4>1 DEF getLastMark
    <3>2. CASE next(r)
      BY <1>0, <3>2 DEF next, Job
    <3> QED
      BY <1>6, <3>1, <3>2
  <2>3. i \in OpenIds /\ ingestions[i].nextAction = "ingest" /\ job[r].removed = {}
    BY <1>0, <2>1 DEF JobSole, WithoutRecord, TrySteps
  <2> QED
    BY <2>1, <2>2, <2>3 DEF JobSole, WithoutRecord, TrySteps, OpenIds, IsOpen
<1>7. CASE createMark(r) \/ createMarkEntities(r)
  <2>1. /\ pc[r] \in {"createMark", "createMarkEntities"}
        /\ pc'[r] \in {"createMarkEntities", "computeRemoved", "applyMutation"}
        /\ pc'[r] = "computeRemoved" => ~job[r].done
        /\ pc'[r] = "applyMutation" => job[r].done
        /\ ingestions' = ingestions /\ job' = job
    BY <1>0, <1>7 DEF createMark, createMarkEntities, AfterEntities
  <2>2. i \in OpenIds /\ ingestions[i].nextAction = "ingest" /\ job[r].removed = {}
    BY <1>0, <2>1 DEF JobSole, WithoutRecord, TrySteps
  <2> QED
    BY <2>1, <2>2 DEF JobSole, WithoutRecord, TrySteps, OpenIds, IsOpen
<1>8. CASE computeRemovedStep(r)
  <2>1. /\ job'[r].ingestion = i /\ job'[r].done = job[r].done
        /\ job'[r].removed = catalog \ MarkedRefs(i)
        /\ pc[r] = "computeRemoved" /\ pc'[r] = "applyMutation"
        /\ ingestions' = ingestions /\ marks' = marks /\ catalog' = catalog
    BY <1>0, <1>8 DEF computeRemovedStep, computeRemoved, db, Job
  <2>2. i \in OpenIds /\ ingestions[i].nextAction = "ingest" /\ ~job[r].done
    BY <1>0, <2>1 DEF JobSole, WithoutRecord, TrySteps
  <2> QED
    BY <2>1, <2>2
    DEF JobSole, WithoutRecord, TrySteps, OpenIds, IsOpen, MarkedRefs, MarksOf
<1>9. CASE applyMutation(r)
  <2>1. /\ PageDone(job[r]) \in Job
        /\ PageDone(job[r]).ingestion = i /\ PageDone(job[r]).removed = {}
    BY <1>0 DEF PageDone, Job
  <2>2. LET j == [PageDone(job[r]) EXCEPT !.sequence = @ + 1]
        IN  j.ingestion = i /\ j.removed = {}
    BY <2>1 DEF Job
  <2>3. /\ job'[r].ingestion = i /\ job'[r].removed = {}
        /\ pc[r] = "applyMutation" /\ pc'[r] \in {"settle", "next"}
        /\ ingestions' = ingestions
    BY <1>0, <1>9, <2>1, <2>2 DEF applyMutation, db
  <2>4. i \in OpenIds /\ ingestions[i].nextAction = "ingest"
    BY <1>0, <2>3 DEF JobSole, WithoutRecord, TrySteps
  <2> QED
    BY <2>3, <2>4 DEF JobSole, WithoutRecord, TrySteps, OpenIds, IsOpen
<1> QED
  BY <1>1, <1>2, <1>3, <1>4, <1>5, <1>6, <1>7, <1>8, <1>9
  DEF TaskStep, setProviderComplete, setProviderIngesting, setProviderCanceled,
      settle, setProviderBackoff, setProviderCanceling

\* A fault leaves the rows, the marks and the catalog alone.
LEMMA FaultSole ==
  ASSUME Inv, SoleInv, NEW r \in Replicas, BeginTick(r) \/ Fault(r)
  PROVE  JobSole(r)' /\ StatusTellsNextAction'
<1>0. JobSole(r) /\ StatusTellsNextAction /\ pc \in [Replicas -> Steps]
  BY DEF SoleInv, JobsSole, Inv, TypeOK
<1>1. ingestions' = ingestions
  BY DEF BeginTick, Fault, Throw, ThrowCancel, TaskFails, Crash, db
<1>2. CASE BeginTick(r)
  <2>1. pc'[r] = "getCurrentAction"
    BY <1>0, <1>2 DEF BeginTick, Goto
  <2> QED
    BY <1>0, <1>1, <2>1 DEF JobSole, StatusTellsNextAction, WithoutRecord, TrySteps
<1>3. CASE Throw(r) \/ ThrowCancel(r)
  <2>1. /\ pc[r] \in TrySteps /\ job' = job
        /\ pc'[r] \in {"setProviderBackoff", "setProviderCanceling"}
    BY <1>0, <1>3 DEF Throw, ThrowCancel, Goto, TrySteps
  <2>2. job[r].ingestion \in OpenIds
    BY <1>0, <2>1 DEF JobSole, TrySteps, WithoutRecord
  <2> QED
    BY <1>0, <1>1, <2>1, <2>2
    DEF JobSole, StatusTellsNextAction, WithoutRecord, TrySteps, OpenIds, IsOpen
<1>4. CASE TaskFails(r) \/ Crash(r)
  <2>1. pc'[r] = "idle"
    BY <1>0, <1>4 DEF TaskFails, Crash, EndTick, Goto
  <2> QED
    BY <1>0, <1>1, <2>1, IdleIsSole DEF StatusTellsNextAction
<1> QED
  BY <1>2, <1>3, <1>4 DEF Fault

\* Time passes: a row becomes due, and nothing else.
LEMMA ElapsedRows ==
  ASSUME Inv, Elapse, NEW i \in Ids
  PROVE  /\ ingestions'[i].present <=> ingestions[i].present
         /\ ingestions'[i].open <=> ingestions[i].open
         /\ ingestions'[i].status = ingestions[i].status
         /\ ingestions'[i].nextAction = ingestions[i].nextAction
<1>1. PICK k \in Ids : ingestions' = [ingestions EXCEPT ![k].due = TRUE]
  BY DEF Elapse
<1>2. ingestions \in [Ids -> Row] /\ ingestions[i] \in Row
  BY DEF Inv, TypeOK
<1>3. CASE k # i
  BY <1>1, <1>2, <1>3
<1>4. CASE k = i
  <2>1. ingestions'[i] = [ingestions[i] EXCEPT !.due = TRUE]
    BY <1>1, <1>2, <1>4
  <2> QED
    BY <1>2, <2>1 DEF Row
<1> QED
  BY <1>3, <1>4

LEMMA ElapseSole ==
  ASSUME Inv, SoleInv, Elapse
  PROVE  SoleInv'
<1>1. \A i \in Ids : /\ ingestions'[i].present <=> ingestions[i].present
                     /\ ingestions'[i].open <=> ingestions[i].open
                     /\ ingestions'[i].status = ingestions[i].status
                     /\ ingestions'[i].nextAction = ingestions[i].nextAction
  BY ElapsedRows
<1>2. StatusTellsNextAction'
  BY <1>1 DEF SoleInv, StatusTellsNextAction
<1>3. OpenIds' = OpenIds /\ \A i \in OpenIds : ingestions'[i].nextAction = ingestions[i].nextAction
  BY <1>1 DEF OpenIds, IsOpen
<1>4. JobsSole'
  <2> SUFFICES ASSUME NEW r \in Replicas PROVE JobSole(r)'
    BY DEF JobsSole
  <2>1. JobSole(r) /\ pc' = pc /\ job' = job /\ marks' = marks /\ catalog' = catalog
    BY DEF SoleInv, JobsSole, Elapse, engine
  <2> QED
    BY <1>3, <2>1 DEF JobSole, WithoutRecord, TrySteps, MarkedRefs, MarksOf
<1> QED
  BY <1>2, <1>4 DEF SoleInv

LEMMA InitSole == Init => SoleInv
<1> SUFFICES ASSUME Init PROVE SoleInv
  OBVIOUS
<1>1. StatusTellsNextAction
  BY DEF Init, NoRow, StatusTellsNextAction
<1>2. JobsSole
  BY DEF Init, JobsSole, JobSole, WithoutRecord, TrySteps
<1> QED
  BY <1>1, <1>2 DEF SoleInv

\* What a step of one replica, or a fault of it, leaves alone.
LEMMA StepOfOne ==
  ASSUME Inv, NEW r \in Replicas, BeginTick(r) \/ TaskStep(r) \/ Fault(r)
  PROVE  /\ \A x \in Replicas \ {r} : pc'[x] = pc[x] /\ job'[x] = job[x]
         /\ pc[r] # "idle" \/ pc'[r] # "idle"
         /\ source' = source
<1>0. pc \in [Replicas -> Steps] /\ job \in [Replicas -> Job]
  BY DEF Inv, TypeOK
<1>1. CASE BeginTick(r)
  BY <1>0, <1>1 DEF BeginTick, Goto
<1>2. CASE Fault(r)
  BY <1>0, <1>2 DEF Fault, Throw, ThrowCancel, TaskFails, Crash, EndTick, Goto, TrySteps
<1>3. CASE TaskStep(r)
  <2>1. CASE getCurrentAction(r)
    <3>1. \A k \in OpenIds : \A j :
            Goto(r, Branch(ingestions[k])) /\ job' = [job EXCEPT ![r] = j]
            => \A x \in Replicas \ {r} : pc'[x] = pc[x] /\ job'[x] = job[x]
      BY <1>0 DEF Goto
    <3> QED
      BY <1>0, <2>1, <3>1 DEF getCurrentAction, EndTick, Goto
  <2>2. CASE getLastMark(r)
    BY <1>0, <2>2 DEF getLastMark, Goto
  <2>3. CASE \/ createProviderIngestionRecord(r) \/ clearFinishedIngestions(r)
             \/ setProviderBursting(r) \/ next(r) \/ createMark(r)
             \/ createMarkEntities(r) \/ computeRemovedStep(r) \/ applyMutation(r)
    BY <1>0, <2>3
    DEF createProviderIngestionRecord, clearFinishedIngestions, setProviderBursting,
        next, createMark, createMarkEntities, computeRemovedStep, applyMutation,
        EndTick, Goto
  <2>4. CASE \/ setProviderComplete(r) \/ setProviderIngesting(r)
             \/ setProviderCanceled(r) \/ settle(r) \/ setProviderBackoff(r)
             \/ setProviderCanceling(r)
    BY <1>0, <2>4
    DEF setProviderComplete, setProviderIngesting, setProviderCanceled, settle,
        setProviderBackoff, setProviderCanceling, EndTick, Goto
  <2> QED
    BY <1>3, <2>1, <2>2, <2>3, <2>4 DEF TaskStep
<1> QED
  BY <1>1, <1>2, <1>3

LEMMA NextSole ==
  Inv /\ SoleInv /\ NoOverlap /\ NoOverlap' /\ [Next]_vars => SoleInv'
<1> SUFFICES ASSUME Inv, SoleInv, NoOverlap, NoOverlap', [Next]_vars PROVE SoleInv'
  OBVIOUS
<1>1. ASSUME NEW r \in Replicas, TaskStep(r) PROVE SoleInv'
  BY <1>1, TaskStepStatus, TaskStepSole, StepOfOne, SoleStep
<1>2. ASSUME NEW r \in Replicas, BeginTick(r) \/ Fault(r) PROVE SoleInv'
  BY <1>2, FaultSole, StepOfOne, SoleStep
<1>3. CASE Elapse
  BY <1>3, ElapseSole
<1>4. CASE UNCHANGED <<ingestions, marks, catalog, pc, job>>
  <2>1. StatusTellsNextAction'
    BY <1>4 DEF SoleInv, StatusTellsNextAction
  <2>2. ASSUME NEW r \in Replicas PROVE JobSole(r)'
    BY <1>4 DEF SoleInv, JobsSole, JobSole, OpenIds, IsOpen, MarkedRefs, MarksOf
  <2> QED
    BY <2>1, <2>2 DEF SoleInv, JobsSole
<1> QED
  BY <1>1, <1>2, <1>3, <1>4 DEF Next, Expire, SourceChanges, vars, db, engine

\* While no burst outlives its lock, the status the administration API reports
\* tells what the engine does next.
THEOREM StatusTells == Spec /\ []NoOverlap => []StatusTellsNextAction
<1>1. SoleInv => StatusTellsNextAction
  BY DEF SoleInv
<1> QED
  BY InitInv, NextInv, InitSole, NextSole, <1>1, PTL DEF Spec

-----------------------------------------------------------------------------
(* A cycle without an error.                                               *)

\* The pages of the source: the last one sweeps nothing, so that a source of
\* a single page is never swept.
ManyPages == \A l \in Listings : Len(l) > 1

LEMMA SourcePages ==
  ASSUME Inv
  PROVE  /\ Len(source) \in Nat
         /\ ManyPages => Len(source) > 1
         /\ \A k \in 1..Len(source) : source[k] \subseteq Entities
  BY ListingsAssumption DEF Inv, TypeOK, ManyPages

LEMMA UpToNext ==
  ASSUME NEW c \in Nat, c > 0
  PROVE  UpTo(c) = UpTo(c - 1) \cup source[c]
<1>1. 1..c = (1..(c - 1)) \cup {c}
  OBVIOUS
<1> QED
  BY <1>1 DEF UpTo

\* Numbers of the marks of an ingestion.
LEMMA MarkNumbers ==
  ASSUME Inv, NEW i \in Ids, NEW m \in MarksOf(i)
  PROVE  m.cursor \in Nat /\ m.sequence \in Nat /\ m.ingestion = i
  BY DEF Inv, TypeOK, Mark, MarksOf

\* What an ingestion has marked, up to the page it is at.
LEMMA RefsUpTo ==
  ASSUME Inv, NEW i \in Ids, NEW c \in Nat,
         MarksUpTo(i, c), RecordedTo(i, c), Marked(marks, i, c)
  PROVE  MarkedRefs(i) = UpTo(c)
<1>1. \A m \in MarksOf(i) : m.cursor \in 1..c /\ m.refs = source[m.cursor]
  BY MarkNumbers DEF MarksUpTo, RecordedTo
<1>2. \A k \in 1..c : \E m \in MarksOf(i) : m.cursor = k
  BY DEF Marked, MarksOf
<1> QED
  BY <1>1, <1>2 DEF MarkedRefs, UpTo

LEMMA IdleIsClean == \A r \in Replicas : pc'[r] \in BeforePages => JobClean(r)'
  BY DEF JobClean, BeforePages, WithoutRecord

LEMMA CleanStep ==
  ASSUME NoOverlap, NoOverlap', NEW r \in Replicas,
         \A x \in Replicas \ {r} : pc'[x] = pc[x],
         pc[r] # "idle" \/ pc'[r] # "idle",
         JobClean(r)', \A i \in OpenIds' : RowClean(i)'
  PROVE  Clean'
<1>1. \A x \in Replicas \ {r} : pc'[x] \in BeforePages
  BY OthersAreIdle DEF BeforePages, WithoutRecord
<1> QED
  BY <1>1, IdleIsClean DEF Clean

\* What a task that holds an open record knows.
LEMMA SoleJob ==
  ASSUME Inv, SoleInv, Clean, NEW r \in Replicas, pc[r] \notin WithoutRecord
  PROVE  /\ job[r] \in Job /\ job[r].ingestion \in Ids
         /\ OpenIds = {job[r].ingestion}
         /\ JobSole(r) /\ JobClean(r) /\ RowClean(job[r].ingestion)
<1>1. JobSole(r) /\ JobClean(r) /\ job[r] \in Job
  BY DEF SoleInv, JobsSole, Clean, Inv, TypeOK
<1>2. job[r].ingestion \in OpenIds
  BY <1>1 DEF JobSole
<1> QED
  BY <1>1, <1>2 DEF Inv, OneOpenRecord, Clean, OpenIds

\* Within a burst the open record is the task's, and it is to be ingested.
LEMMA BurstRowClean ==
  ASSUME Inv, SoleInv, Clean, NEW r \in Replicas, pc[r] \in TrySteps,
         pc'[r] \notin BeforePages, ingestions' = ingestions
  PROVE  \A i \in OpenIds' : RowClean(i)'
<1>1. /\ OpenIds = {job[r].ingestion} /\ ingestions[job[r].ingestion].nextAction = "ingest"
  BY SoleJob DEF JobSole, TrySteps, WithoutRecord
<1>2. OpenIds' = OpenIds
  BY DEF OpenIds, IsOpen
<1> QED
  BY <1>1, <1>2 DEF RowClean

\* A step outside the pages that leaves marks, catalog and source alone, and
\* the rows that stay open as they were.
LEMMA OutsideRowClean ==
  ASSUME Clean, marks' = marks, catalog' = catalog, source' = source,
         \A i \in OpenIds' : i \in OpenIds /\ ingestions'[i].nextAction = ingestions[i].nextAction,
         (\A x \in Replicas : pc'[x] \in BeforePages) =>
            (\A x \in Replicas : pc[x] \in BeforePages)
  PROVE  \A i \in OpenIds' : RowClean(i)'
<1> SUFFICES ASSUME NEW i \in OpenIds' PROVE RowClean(i)'
  OBVIOUS
<1>1. RowClean(i) /\ ingestions'[i].nextAction = ingestions[i].nextAction
  BY DEF Clean
<1>2. /\ MarksUpTo(i, Len(source) - 1)' <=> MarksUpTo(i, Len(source) - 1)
      /\ RecordedTo(i, Len(source))' <=> RecordedTo(i, Len(source))
      /\ LastMarks(i)' = LastMarks(i)
      /\ \A c : UpTo(c)' = UpTo(c)
      /\ SourceEntities' = SourceEntities
  BY DEF MarksUpTo, RecordedTo, LastMarks, MarksOf, UpTo, SourceEntities
<1> QED
  BY <1>1, <1>2 DEF RowClean

-----------------------------------------------------------------------------
(* The steps of a burst, one page after the other.                         *)

LEMMA LastMarkClean ==
  ASSUME Inv, SoleInv, Clean, ManyPages, NEW r \in Replicas, getLastMark(r),
         \A x \in Replicas \ {r} : pc[x] = "idle"
  PROVE  JobClean(r)' /\ \A i \in OpenIds' : RowClean(i)'
<1> DEFINE i == job[r].ingestion
           n == Len(source)
<1>1. /\ pc[r] = "getLastMark" /\ pc'[r] = "next" /\ job \in [Replicas -> Job]
      /\ marks' = marks /\ catalog' = catalog /\ source' = source
      /\ ingestions' = ingestions
  BY DEF getLastMark, Goto, db, Inv, TypeOK
<1>2. /\ job[r] \in Job /\ i \in Ids /\ RowClean(i) /\ ingestions[i].nextAction = "ingest"
      /\ n \in Nat /\ n > 1
  BY <1>1, SoleJob, SourcePages DEF JobSole, TrySteps, WithoutRecord
<1>3. /\ MarksUpTo(i, n - 1) /\ RecordedTo(i, n)
      /\ \A m \in LastMarks(i) : catalog = UpTo(m.cursor)
  BY <1>1, <1>2 DEF RowClean, BeforePages, WithoutRecord
<1>4. \A i_1 \in OpenIds' : RowClean(i_1)'
  BY <1>1, BurstRowClean DEF BeforePages, WithoutRecord, TrySteps
<1>5. ASSUME NEW c, NEW s, job' = [job EXCEPT ![r] = [@ EXCEPT !.cursor = c, !.sequence = s]]
      PROVE  job'[r].ingestion = i /\ job'[r].cursor = c /\ job'[r].sequence = s
  BY <1>1, <1>2, <1>5 DEF Job
<1>6. CASE MarksOf(i) = {} /\ job' = [job EXCEPT ![r] = [@ EXCEPT !.cursor = 0, !.sequence = 0]]
  <2>1. job'[r].ingestion = i /\ job'[r].cursor = 0 /\ job'[r].sequence = 0
    BY <1>5, <1>6
  <2>2. MarksOf(i)' = {}
    BY <1>1, <1>6 DEF MarksOf
  <2>3. JobClean(r)'
    BY <1>1, <1>2, <2>1, <2>2 DEF JobClean, CatalogAt, MarksUpTo, RecordedTo
  <2> QED
    BY <1>4, <2>3
<1>7. ASSUME NEW m \in LastMarks(i),
             job' = [job EXCEPT ![r] = [@ EXCEPT !.cursor   = m.cursor,
                                                 !.sequence = m.sequence + 1]]
      PROVE  JobClean(r)'
  <2>1. /\ job'[r].ingestion = i /\ job'[r].cursor = m.cursor
        /\ job'[r].sequence = m.sequence + 1
    BY <1>5, <1>7
  <2>2. /\ m \in MarksOf(i) /\ m.cursor \in Nat
        /\ \A x \in MarksOf(i) : x.sequence <= m.sequence
    BY <1>2, MarkNumbers DEF LastMarks
  <2>3. m.cursor < n /\ m.cursor = m.sequence + 1 /\ CatalogAt(m.cursor)
    BY <1>2, <1>3, <2>2 DEF MarksUpTo, CatalogAt
  <2>4. MarksUpTo(i, m.cursor) /\ RecordedTo(i, m.cursor)
    BY <1>2, <1>3, <2>2, <2>3, MarkNumbers DEF MarksUpTo, RecordedTo
  <2> QED
    BY <1>1, <1>2, <2>1, <2>3, <2>4
    DEF JobClean, CatalogAt, UpTo, MarksUpTo, RecordedTo, MarksOf
<1> QED
  BY <1>4, <1>6, <1>7 DEF getLastMark

LEMMA NextPageClean ==
  ASSUME Inv, SoleInv, Clean, ManyPages, NEW r \in Replicas, next(r)
  PROVE  JobClean(r)' /\ \A i \in OpenIds' : RowClean(i)'
<1> DEFINE i == job[r].ingestion
           c == job[r].cursor
           n == Len(source)
<1>1. /\ pc[r] = "next" /\ pc'[r] = "createMark" /\ job \in [Replicas -> Job]
      /\ marks' = marks /\ catalog' = catalog /\ source' = source
      /\ ingestions' = ingestions
  BY DEF next, Goto, db, Inv, TypeOK
<1>2. /\ job[r] \in Job /\ c \in Nat /\ JobClean(r) /\ n \in Nat
  BY <1>1, SoleJob, SourcePages DEF WithoutRecord, Job
<1>3. /\ c < n /\ job[r].sequence = c /\ CatalogAt(c)
      /\ MarksUpTo(i, c) /\ RecordedTo(i, c)
  BY <1>1, <1>2 DEF JobClean
<1>4. /\ job'[r].ingestion = i /\ job'[r].sequence = c /\ job'[r].cursor = c + 1
      /\ job'[r].batch = source[c + 1] /\ (job'[r].done <=> c + 1 = n)
  <2>1. Page(c) = source[c + 1] /\ After(c) = c + 1 /\ (IsDone(c) <=> c + 1 = n)
    BY <1>2, <1>3 DEF Page, After, IsDone
  <2>2. /\ job'[r].ingestion = i /\ job'[r].sequence = job[r].sequence
        /\ job'[r].cursor = After(c) /\ job'[r].batch = Page(c)
        /\ job'[r].done = IsDone(c)
    BY <1>1, <1>2 DEF next, Job
  <2> QED
    BY <1>3, <2>1, <2>2
<1>5. JobClean(r)'
  BY <1>1, <1>2, <1>3, <1>4
  DEF JobClean, HoldsPage, CatalogAt, UpTo, MarksUpTo, RecordedTo, MarksOf
<1> QED
  BY <1>1, <1>5, BurstRowClean DEF BeforePages, WithoutRecord, TrySteps

LEMMA CreateMarkClean ==
  ASSUME Inv, SoleInv, Clean, ManyPages, NEW r \in Replicas, createMark(r)
  PROVE  JobClean(r)' /\ \A i \in OpenIds' : RowClean(i)'
<1> DEFINE i == job[r].ingestion
           c == job[r].cursor
           s == job[r].sequence
           new == [ingestion |-> i, sequence |-> s, by |-> r, cursor |-> c, refs |-> {}]
<1>1. /\ pc[r] = "createMark"
      /\ pc'[r] \in MarkedSteps
      /\ pc'[r] # "createMarkEntities" => job[r].batch = {}
      /\ job' = job /\ marks' = marks \cup {new}
      /\ catalog' = catalog /\ source' = source /\ ingestions' = ingestions
  BY DEF createMark, AfterEntities, MarkedSteps, Goto, Inv, TypeOK
<1>2. /\ c \in Nat /\ s \in Nat /\ i \in Ids /\ JobClean(r) /\ Len(source) \in Nat
  BY <1>1, SoleJob, SourcePages DEF WithoutRecord, Job
<1>3. HoldsPage(r, c - 1) /\ MarksUpTo(i, c - 1) /\ RecordedTo(i, c - 1)
  BY <1>1, <1>2 DEF JobClean
<1>4. /\ MarksOf(i)' = MarksOf(i) \cup {new}
      /\ new.cursor = c /\ new.sequence = s /\ new.by = r /\ new.refs = {}
  BY <1>1 DEF MarksOf
<1>5. HoldsPage(r, c - 1)' /\ s = c - 1 /\ job[r].batch = source[c]
  BY <1>1, <1>3 DEF HoldsPage, CatalogAt, UpTo
<1>6. /\ MarksUpTo(i, c)' /\ RecordedTo(i, c - 1)'
      /\ \A m \in MarksOf(i)' : m.cursor = c => m.by = r
      /\ job[r].batch = {} => RecordedTo(i, c)'
  <2>1. \A m \in MarksOf(i) : m.cursor <= c - 1 /\ m.cursor \in Nat
                              /\ m.cursor = m.sequence + 1 /\ m.refs = source[m.cursor]
    BY <1>2, <1>3, MarkNumbers DEF MarksUpTo, RecordedTo
  <2>2. \A m \in MarksOf(i)' : m \in MarksOf(i) \/ m = new
    BY <1>4
  <2>3. \A m \in MarksOf(i)' : m.cursor <= c /\ m.cursor = m.sequence + 1
    BY <1>2, <1>4, <1>5, <2>1, <2>2
  <2>4. \A m \in MarksOf(i)' : m.cursor <= c - 1 => m.refs = source[m.cursor]
    BY <1>2, <1>4, <2>1, <2>2
  <2>5. \A m \in MarksOf(i)' : m.cursor = c => m.by = r /\ m.refs = {}
    BY <1>2, <1>4, <2>1, <2>2
  <2>6. job[r].batch = {} => \A m \in MarksOf(i)' : m.refs = source[m.cursor]
    BY <1>2, <1>4, <1>5, <2>1, <2>2
  <2> QED
    BY <1>1, <2>3, <2>4, <2>5, <2>6 DEF MarksUpTo, RecordedTo
<1>7. JobClean(r)'
  BY <1>1, <1>5, <1>6 DEF JobClean, MarkedSteps
<1> QED
  BY <1>1, <1>7, BurstRowClean DEF BeforePages, WithoutRecord, TrySteps, MarkedSteps

LEMMA RecordClean ==
  ASSUME Inv, SoleInv, Clean, ManyPages, NEW r \in Replicas, createMarkEntities(r)
  PROVE  JobClean(r)' /\ \A i \in OpenIds' : RowClean(i)'
<1> DEFINE i == job[r].ingestion
           c == job[r].cursor
           Joined(m) == IF IsMarkOf(m, r) THEN [m EXCEPT !.refs = job[r].batch] ELSE m
<1>1. /\ pc[r] = "createMarkEntities"
      /\ pc'[r] \in {"computeRemoved", "applyMutation"}
      /\ job' = job /\ marks' = {Joined(m) : m \in marks}
      /\ catalog' = catalog /\ source' = source /\ ingestions' = ingestions
  BY DEF createMarkEntities, AfterEntities, Goto, Inv, TypeOK
<1>2. /\ c \in Nat /\ i \in Ids /\ JobClean(r) /\ Len(source) \in Nat
  BY <1>1, SoleJob, SourcePages DEF WithoutRecord, Job
<1>3. /\ HoldsPage(r, c - 1) /\ MarksUpTo(i, c) /\ RecordedTo(i, c - 1)
      /\ \A m \in MarksOf(i) : m.cursor = c => m.by = r
  BY <1>1, <1>2 DEF JobClean
<1>4. HoldsPage(r, c - 1)' /\ job[r].sequence = c - 1 /\ job[r].batch = source[c]
  BY <1>1, <1>3 DEF HoldsPage, CatalogAt, UpTo
<1>5. ASSUME NEW n \in MarksOf(i)'
      PROVE  n.cursor <= c /\ n.cursor = n.sequence + 1 /\ n.refs = source[n.cursor]
  <2>1. PICK m \in marks : n = Joined(m)
    BY <1>1, <1>5 DEF MarksOf
  <2>2. /\ m \in Mark
        /\ n.ingestion = m.ingestion /\ n.cursor = m.cursor /\ n.sequence = m.sequence
        /\ n.refs = IF IsMarkOf(m, r) THEN job[r].batch ELSE m.refs
    <3>1. m \in Mark
      BY DEF Inv, TypeOK
    <3>2. CASE IsMarkOf(m, r)
      BY <2>1, <3>1, <3>2 DEF Mark
    <3>3. CASE ~IsMarkOf(m, r)
      BY <2>1, <3>1, <3>3
    <3> QED
      BY <3>1, <3>2, <3>3
  <2>3. m \in MarksOf(i) /\ m.cursor \in Nat /\ m.sequence \in Nat
    <3>1. job' = job
      BY <1>1
    <3> QED
      BY <1>5, <2>2, <3>1 DEF MarksOf, Mark
  <2>4. m.cursor <= c /\ m.cursor = m.sequence + 1
    BY <1>3, <2>3 DEF MarksUpTo
  <2>5. IsMarkOf(m, r) <=> m.cursor = c
    BY <1>2, <1>3, <1>4, <2>3, <2>4 DEF IsMarkOf, MarksOf
  <2>6. m.cursor # c => m.refs = source[m.cursor]
    BY <1>2, <1>3, <2>3, <2>4 DEF RecordedTo
  <2> QED
    BY <1>4, <2>2, <2>4, <2>5, <2>6
<1>6. MarksUpTo(i, c)' /\ RecordedTo(i, c)'
  BY <1>1, <1>5 DEF MarksUpTo, RecordedTo
<1>7. JobClean(r)'
  BY <1>1, <1>4, <1>6 DEF JobClean
<1> QED
  BY <1>1, <1>7, BurstRowClean DEF BeforePages, WithoutRecord, TrySteps

LEMMA ComputeRemovedClean ==
  ASSUME Inv, SoleInv, Clean, ManyPages, NEW r \in Replicas, computeRemovedStep(r)
  PROVE  JobClean(r)' /\ \A i \in OpenIds' : RowClean(i)'
<1> DEFINE i == job[r].ingestion
           c == job[r].cursor
<1>1. /\ pc[r] = "computeRemoved" /\ pc'[r] = "applyMutation" /\ job \in [Replicas -> Job]
      /\ marks' = marks /\ catalog' = catalog /\ source' = source
      /\ ingestions' = ingestions
  BY DEF computeRemovedStep, Goto, db, Inv, TypeOK
<1>2. job[r] \in Job /\ JobClean(r)
  BY <1>1, SoleJob DEF WithoutRecord
<1>3. HoldsPage(r, c - 1) /\ MarksUpTo(i, c) /\ RecordedTo(i, c)
  BY <1>1, <1>2 DEF JobClean
<1>4. /\ job'[r].ingestion = i /\ job'[r].sequence = job[r].sequence
      /\ job'[r].cursor = c /\ job'[r].batch = job[r].batch
      /\ (job'[r].done <=> job[r].done)
  BY <1>1, <1>2 DEF computeRemovedStep, Job
<1>5. JobClean(r)'
  BY <1>1, <1>3, <1>4
  DEF JobClean, HoldsPage, CatalogAt, UpTo, MarksUpTo, RecordedTo, MarksOf
<1> QED
  BY <1>1, <1>5, BurstRowClean DEF BeforePages, WithoutRecord, TrySteps

\* The first page takes away what is not on it, the others add theirs.
LEMMA ApplyMutationClean ==
  ASSUME Inv, PageInv, SoleInv, Clean, ManyPages, NEW r \in Replicas, applyMutation(r)
  PROVE  JobClean(r)' /\ \A i \in OpenIds' : RowClean(i)'
<1> DEFINE i == job[r].ingestion
           c == job[r].cursor
           s == job[r].sequence
           n == Len(source)
<1>1. /\ pc[r] = "applyMutation" /\ pc'[r] \in {"settle", "next"}
      /\ job \in [Replicas -> Job]
      /\ marks' = marks /\ source' = source /\ ingestions' = ingestions
      /\ catalog' = (catalog \ job[r].removed) \cup job[r].batch
  BY DEF applyMutation, Goto, db, Inv, TypeOK
<1>2. /\ job[r] \in Job /\ JobClean(r) /\ JobSole(r) /\ i \in OpenIds /\ i \in Ids
      /\ c \in Nat /\ s \in Nat /\ n \in Nat /\ n > 1
  BY <1>1, SoleJob, SourcePages DEF WithoutRecord, Job
<1>3. HoldsPage(r, c - 1) /\ MarksUpTo(i, c) /\ RecordedTo(i, c)
  BY <1>1, <1>2 DEF JobClean
<1>4. Marked(marks, i, c)
  BY <1>1, <1>2 DEF PageInv, JobsCovered, JobCovered, MarkedSteps
<1>5. /\ c \in 1..n /\ s = c - 1 /\ job[r].batch = source[c]
      /\ (job[r].done <=> c = n) /\ CatalogAt(c - 1)
  BY <1>3 DEF HoldsPage
<1>6. UpTo(c) = UpTo(c - 1) \cup source[c]
  BY <1>5, UpToNext
<1>7. catalog' = UpTo(c)
  <2>1. CASE job[r].done
    <3>1. job[r].removed = {} /\ catalog = UpTo(c - 1)
      BY <1>1, <1>2, <1>5, <2>1 DEF JobSole, CatalogAt
    <3> QED
      BY <1>1, <1>5, <1>6, <3>1
  <2>2. CASE ~job[r].done
    <3>1. job[r].removed = catalog \ UpTo(c)
      BY <1>1, <1>2, <1>3, <1>4, <2>2, RefsUpTo DEF JobSole
    <3>2. catalog' = (catalog \cap UpTo(c)) \cup source[c]
      BY <1>1, <1>5, <3>1
    <3>3. CASE c = 1
      <4>1. UpTo(0) = {}
        BY DEF UpTo
      <4> QED
        BY <1>6, <3>2, <3>3, <4>1
    <3>4. CASE c # 1
      BY <1>5, <1>6, <3>2, <3>4 DEF CatalogAt
    <3> QED
      BY <3>3, <3>4
  <2> QED
    BY <2>1, <2>2
<1>8. /\ job'[r].ingestion = i /\ job'[r].cursor = c /\ (job'[r].done <=> job[r].done)
      /\ pc'[r] = "next" => job'[r].sequence = s + 1 /\ ~job[r].done
  <2>1. /\ PageDone(job[r]).ingestion = i /\ PageDone(job[r]).cursor = c
        /\ (PageDone(job[r]).done <=> job[r].done) /\ PageDone(job[r]).sequence = s
        /\ PageDone(job[r]) \in Job
    BY <1>2 DEF PageDone, Job
  <2>2. LET j == [PageDone(job[r]) EXCEPT !.sequence = @ + 1]
        IN  /\ j.ingestion = i /\ j.cursor = c /\ (j.done <=> job[r].done)
            /\ j.sequence = s + 1
    BY <2>1 DEF Job
  <2> QED
    BY <1>1, <1>2, <2>1, <2>2 DEF applyMutation, Goto, Inv, TypeOK
<1>9. /\ MarksUpTo(i, c)' /\ RecordedTo(i, c)' /\ Marked(marks', i, c)
      /\ CatalogAt(c)'
  <2>1. \A k : MarksOf(k)' = MarksOf(k)
    BY <1>1 DEF MarksOf
  <2>2. \A k : UpTo(k)' = UpTo(k)
    BY <1>1 DEF UpTo
  <2> QED
    BY <1>1, <1>3, <1>4, <1>7, <1>8, <2>1, <2>2
    DEF MarksUpTo, RecordedTo, CatalogAt, Marked
<1>10. JobClean(r)'
  BY <1>1, <1>2, <1>5, <1>8, <1>9 DEF JobClean
<1> QED
  BY <1>1, <1>10, BurstRowClean DEF BeforePages, WithoutRecord, TrySteps

\* The burst is over: it rests behind the last page, or the marks tell the
\* next one where to go on.
LEMMA SettleClean ==
  ASSUME Inv, PageInv, SoleInv, Clean, ManyPages, NEW r \in Replicas, settle(r)
  PROVE  JobClean(r)' /\ \A i \in OpenIds' : RowClean(i)'
<1>0. PICK i \in Ids : i = job[r].ingestion
  BY SoleJob DEF settle, WithoutRecord
<1> DEFINE c == job[r].cursor
           n == Len(source)
<1>1. /\ pc[r] = "settle" /\ pc'[r] = "idle"
      /\ marks' = marks /\ catalog' = catalog /\ source' = source
  BY DEF settle, EndTick, Goto, Inv, TypeOK
<1>2. /\ JobClean(r) /\ JobSole(r) /\ OpenIds = {i} /\ RowClean(i)
      /\ c \in Nat /\ n \in Nat /\ ingestions \in [Ids -> Row]
  BY <1>0, <1>1, SoleJob, SourcePages DEF WithoutRecord, Job, Inv, TypeOK
<1>3. /\ c \in 1..n /\ CatalogAt(c) /\ (job[r].done <=> c = n)
      /\ MarksUpTo(i, c) /\ RecordedTo(i, c) /\ Marked(marks, i, c)
      /\ ingestions[i].nextAction = "ingest"
  BY <1>0, <1>1, <1>2 DEF JobClean, JobSole, TrySteps
<1>4. ingestions[i] \in Row /\ ingestions[i].present
  BY <1>2 DEF Inv, OpenIsPresent, OpenIds
<1>5. JobClean(r)'
  BY <1>1, IdleIsClean DEF BeforePages, WithoutRecord
<1>6. OpenIds' \subseteq {i}
  <2>1. \A k \in Ids : k # i => ingestions'[k] = ingestions[k]
    BY <1>0, <1>2
    DEF settle, setProviderResting, setProviderInterstitial, updateIngestionRecordById
  <2> QED
    BY <1>2, <2>1 DEF OpenIds, IsOpen
<1>7. CASE job[r].done
  <2>1. ingestions'[i].nextAction = "rest"
    <3>1. [ingestions[i] EXCEPT !.nextAction = "rest", !.due = FALSE,
                                !.status = "resting"].nextAction = "rest"
      BY <1>4 DEF Row
    <3> QED
      BY <1>0, <1>2, <1>4, <1>7, <3>1 DEF settle, setProviderResting, updateIngestionRecordById
  <2>2. catalog' = SourceEntities'
    BY <1>1, <1>2, <1>3, <1>7 DEF CatalogAt, UpTo, SourceEntities
  <2> QED
    BY <1>5, <1>6, <2>1, <2>2 DEF RowClean
<1>8. CASE ~job[r].done
  <2>1. ingestions'[i].nextAction = "ingest"
    <3>1. [ingestions[i] EXCEPT !.attempts = 0, !.status = "interstitial"].nextAction
             = ingestions[i].nextAction
      BY <1>4 DEF Row
    <3> QED
      BY <1>0, <1>2, <1>3, <1>4, <1>8, <3>1
      DEF settle, setProviderInterstitial, updateIngestionRecordById
  <2>2. ASSUME NEW m \in MarksOf(i) PROVE m.cursor <= c /\ m.cursor = m.sequence + 1
    BY <1>3 DEF MarksUpTo
  <2>3. MarksUpTo(i, n - 1) /\ RecordedTo(i, n)
    BY <1>2, <1>3, <1>8, <2>2, MarkNumbers DEF MarksUpTo, RecordedTo
  <2>4. \A m \in LastMarks(i) : catalog = UpTo(m.cursor)
    <3> SUFFICES ASSUME NEW m \in LastMarks(i) PROVE catalog = UpTo(m.cursor)
      OBVIOUS
    <3>1. PICK x \in MarksOf(i) : x.cursor = c
      BY <1>3 DEF Marked, MarksOf
    <3>2. m \in MarksOf(i) /\ x.sequence <= m.sequence
      BY <3>1 DEF LastMarks
    <3>3. m.cursor = c
      BY <1>2, <2>2, <3>1, <3>2, MarkNumbers
    <3> QED
      BY <1>2, <1>3, <3>3 DEF CatalogAt
  <2>5. i \in OpenIds' => RowClean(i)'
    BY <1>1, <2>1, <2>3, <2>4
    DEF RowClean, MarksUpTo, RecordedTo, LastMarks, MarksOf, UpTo
  <2> QED
    BY <1>5, <1>6, <2>5
<1> QED
  BY <1>7, <1>8

-----------------------------------------------------------------------------
(* The steps outside a burst.                                              *)

\* Steps that touch no row, mark nor entity and stay outside the pages.
LEMMA BeforePagesClean ==
  ASSUME Inv, SoleInv, Clean, NEW r \in Replicas,
         BeginTick(r) \/ getCurrentAction(r)
  PROVE  JobClean(r)' /\ \A i \in OpenIds' : RowClean(i)'
<1>1. /\ ingestions' = ingestions /\ marks' = marks /\ catalog' = catalog
      /\ source' = source /\ pc[r] \in BeforePages /\ pc \in [Replicas -> Steps]
  BY DEF BeginTick, getCurrentAction, db, BeforePages, WithoutRecord, Inv, TypeOK
<1>2. \A x \in Replicas \ {r} : pc'[x] = pc[x]
  BY StepOfOne DEF TaskStep
<1>3. pc'[r] \in BeforePages \cup {"clearFinishedIngestions"}
  <2>1. CASE BeginTick(r) \/ EndTick(r)
    BY <1>1, <2>1 DEF BeginTick, EndTick, Goto, BeforePages, WithoutRecord
  <2>2. CASE Goto(r, "createProviderIngestionRecord")
    BY <1>1, <2>2 DEF Goto, BeforePages, WithoutRecord
  <2>3. ASSUME NEW i \in OpenIds, Goto(r, Branch(ingestions[i]))
        PROVE  pc'[r] \in BeforePages \cup {"clearFinishedIngestions"}
    <3>1. Branch(ingestions[i]) \in BeforePages \cup {"clearFinishedIngestions"}
      BY DEF Clean, RowClean, Branch, BeforePages, WithoutRecord
    <3> QED
      BY <1>1, <2>3, <3>1 DEF Goto
  <2> QED
    BY <2>1, <2>2, <2>3 DEF getCurrentAction
<1>4. JobClean(r)'
  BY <1>3, IdleIsClean DEF JobClean
<1>5. OpenIds' = OpenIds
  BY <1>1 DEF OpenIds, IsOpen
<1> QED
  BY <1>1, <1>2, <1>4, <1>5, OutsideRowClean

\* A new record has no marks.
LEMMA CreateRecordClean ==
  ASSUME Inv, SoleInv, Clean, NEW r \in Replicas, createProviderIngestionRecord(r)
  PROVE  JobClean(r)' /\ \A i \in OpenIds' : RowClean(i)'
<1>0. pc \in [Replicas -> Steps] /\ ingestions \in [Ids -> Row]
  BY DEF Inv, TypeOK
<1>1. pc'[r] \in BeforePages /\ pc[r] \in BeforePages
  BY <1>0 DEF createProviderIngestionRecord, EndTick, Goto, BeforePages, WithoutRecord
<1>2. JobClean(r)'
  BY <1>1, IdleIsClean
<1>3. CASE UniqueIndexAllows
  <2>1. PICK k \in Ids :
           /\ MarksOf(k) = {} /\ OpenIds = {}
           /\ ingestions' = [ingestions EXCEPT ![k] = NewRow] /\ marks' = marks
    BY <1>3, NewIdIsFresh DEF createProviderIngestionRecord, FreshIds, UniqueIndexAllows
  <2>2. \A i \in OpenIds' : i = k
    BY <1>0, <2>1 DEF OpenIds, IsOpen
  <2>3. ingestions'[k].nextAction = "ingest" /\ MarksOf(k)' = {}
    BY <1>0, <2>1 DEF NewRow, MarksOf
  <2>4. LastMarks(k)' = {}
    BY <2>3 DEF LastMarks
  <2>5. RowClean(k)'
    BY <2>3, <2>4 DEF RowClean, MarksUpTo, RecordedTo
  <2> QED
    BY <1>2, <2>2, <2>5
<1>4. CASE ~UniqueIndexAllows
  <2>1. ingestions' = ingestions /\ marks' = marks /\ catalog' = catalog /\ source' = source
    BY <1>4 DEF createProviderIngestionRecord
  <2>2. OpenIds' = OpenIds
    BY <2>1 DEF OpenIds, IsOpen
  <2>3. \A x \in Replicas \ {r} : pc'[x] = pc[x]
    BY StepOfOne DEF TaskStep
  <2> QED
    BY <1>1, <1>2, <2>1, <2>2, <2>3, OutsideRowClean
<1> QED
  BY <1>3, <1>4

\* clearFinishedIngestions spares the open ingestion.
LEMMA ClearClean ==
  ASSUME Inv, SoleInv, Clean, NEW r \in Replicas, clearFinishedIngestions(r)
  PROVE  JobClean(r)' /\ \A i \in OpenIds' : RowClean(i)'
<1>1. /\ pc'[r] = "setProviderComplete" /\ catalog' = catalog /\ source' = source
      /\ ingestions' = KeptRows
  BY DEF clearFinishedIngestions, Goto, Inv, TypeOK
<1>2. JobClean(r)'
  BY <1>1 DEF JobClean
<1>3. ASSUME NEW i \in OpenIds' PROVE RowClean(i)'
  <2>1. i \in OpenIds /\ ingestions'[i] = ingestions[i]
    BY <1>1 DEF KeptRows, OpenIds, IsOpen, NoRow
  <2>2. RowClean(i) /\ SourceEntities' = SourceEntities
    BY <1>1, <2>1 DEF Clean, SourceEntities
  <2> QED
    BY <1>1, <2>1, <2>2 DEF RowClean, BeforePages, WithoutRecord
<1> QED
  BY <1>2, <1>3

\* The open record is closed, and there is no other.
LEMMA CloseClean ==
  ASSUME Inv, SoleInv, Clean, NEW r \in Replicas, setProviderComplete(r)
  PROVE  JobClean(r)' /\ \A i \in OpenIds' : RowClean(i)'
<1> DEFINE i == job[r].ingestion
<1>1. pc[r] = "setProviderComplete" /\ pc'[r] = "idle" /\ ingestions \in [Ids -> Row]
  BY DEF setProviderComplete, EndTick, Goto, Inv, TypeOK
<1>2. i \in Ids /\ OpenIds = {i} /\ ingestions[i] \in Row /\ ingestions[i].present
  BY <1>1, SoleJob DEF WithoutRecord, Inv, OpenIsPresent, OpenIds
<1>3. OpenIds' = {}
  <2>1. ~[ingestions[i] EXCEPT !.nextAction = "nothing (done)", !.restCompleted = TRUE,
                               !.status = "complete", !.open = FALSE].open
    BY <1>2 DEF Row
  <2> QED
    BY <1>1, <1>2, <2>1 DEF setProviderComplete, updateIngestionRecordById, OpenIds, IsOpen
<1> QED
  BY <1>1, <1>3, IdleIsClean DEF BeforePages, WithoutRecord

LEMMA BurstingClean ==
  ASSUME Inv, SoleInv, Clean, NEW r \in Replicas, setProviderBursting(r)
  PROVE  JobClean(r)' /\ \A i \in OpenIds' : RowClean(i)'
<1> DEFINE i == job[r].ingestion
<1>1. /\ pc[r] = "setProviderBursting" /\ pc'[r] = "getLastMark"
      /\ ingestions \in [Ids -> Row]
      /\ marks' = marks /\ catalog' = catalog /\ source' = source
  BY DEF setProviderBursting, Goto, Inv, TypeOK
<1>2. i \in Ids /\ OpenIds = {i} /\ ingestions[i] \in Row
  BY <1>1, SoleJob DEF WithoutRecord
<1>3. LET row == [ingestions[i] EXCEPT !.status = "bursting"]
      IN  row.nextAction = ingestions[i].nextAction /\ (row.open <=> ingestions[i].open)
  BY <1>2 DEF Row
<1>4. \A k \in OpenIds' : k \in OpenIds /\ ingestions'[k].nextAction = ingestions[k].nextAction
  BY <1>1, <1>2, <1>3 DEF setProviderBursting, updateIngestionRecordById, OpenIds, IsOpen
<1>5. JobClean(r)'
  BY <1>1, IdleIsClean DEF BeforePages
<1>6. \A x \in Replicas \ {r} : pc'[x] = pc[x]
  BY StepOfOne DEF TaskStep
<1> QED
  BY <1>1, <1>4, <1>5, <1>6, OutsideRowClean DEF BeforePages

-----------------------------------------------------------------------------
(* The invariant of a cycle without an error.                              *)

LEMMA InitClean == Init => CleanInv
<1> SUFFICES ASSUME Init PROVE Clean
  BY DEF CleanInv
<1>1. \A r \in Replicas : JobClean(r)
  BY DEF Init, JobClean
<1>2. OpenIds = {}
  BY DEF Init, OpenIds, IsOpen, NoRow
<1> QED
  BY <1>1, <1>2 DEF Clean

LEMMA TaskStepClean ==
  ASSUME ManyPages, Inv, PageInv, SoleInv, Clean, NoOverlap, NoOverlap',
         NEW r \in Replicas, TaskStep(r)
  PROVE  Clean'
<1>1. SUFFICES JobClean(r)' /\ \A i \in OpenIds' : RowClean(i)'
  BY StepOfOne, CleanStep
<1>2. CASE getLastMark(r)
  <2>1. \A x \in Replicas \ {r} : pc[x] = "idle"
    BY StepOfOne, OthersAreIdle
  <2> QED
    BY <1>2, <2>1, LastMarkClean
<1>3. CASE \/ setProviderIngesting(r) \/ setProviderCanceled(r)
           \/ setProviderBackoff(r) \/ setProviderCanceling(r)
  BY <1>3 DEF Clean, JobClean, setProviderIngesting, setProviderCanceled,
              setProviderBackoff, setProviderCanceling
<1> QED
  BY <1>2, <1>3, NextPageClean, CreateMarkClean, RecordClean, ComputeRemovedClean,
     ApplyMutationClean, SettleClean, BeforePagesClean, CreateRecordClean, ClearClean,
     CloseClean, BurstingClean DEF TaskStep

\* While no ingestion is open no task is at work on one.
LEMMA SourceChangesClean ==
  ASSUME Inv, SoleInv, Clean, SourceChanges
  PROVE  Clean'
<1>1. OpenIds = {} /\ OpenIds' = {} /\ pc' = pc
  BY DEF SourceChanges, OpenIds, IsOpen, db, engine
<1>2. \A r \in Replicas : pc[r] \in WithoutRecord
  BY <1>1 DEF SoleInv, JobsSole, JobSole
<1> QED
  BY <1>1, <1>2, IdleIsClean DEF Clean, BeforePages

LEMMA NoTaskClean ==
  ASSUME Inv, Clean, UNCHANGED <<marks, catalog, source, pc, job>>,
         Elapse \/ UNCHANGED ingestions
  PROVE  Clean'
<1>1. \A i \in OpenIds' : i \in OpenIds /\ ingestions'[i].nextAction = ingestions[i].nextAction
  <2>1. CASE Elapse
    BY <2>1, ElapsedRows DEF OpenIds, IsOpen
  <2> QED
    BY <2>1 DEF OpenIds, IsOpen
<1>2. \A r \in Replicas : JobClean(r)'
  <2> SUFFICES ASSUME NEW r \in Replicas PROVE JobClean(r)'
    OBVIOUS
  <2>1. JobClean(r)
    BY DEF Clean
  <2>2. /\ \A d : HoldsPage(r, d)' <=> HoldsPage(r, d)
        /\ \A d : CatalogAt(d)' <=> CatalogAt(d)
        /\ \A i : MarksOf(i)' = MarksOf(i)
    BY DEF HoldsPage, CatalogAt, UpTo, MarksOf
  <2> QED
    BY <2>1, <2>2 DEF JobClean, MarksUpTo, RecordedTo
<1>3. \A i \in OpenIds' : RowClean(i)'
  BY <1>1, OutsideRowClean
<1> QED
  BY <1>2, <1>3 DEF Clean

LEMMA NextClean ==
  ASSUME ManyPages
  PROVE  Inv /\ PageInv /\ SoleInv /\ CleanInv /\ NoOverlap /\ NoOverlap' /\ [Next]_vars
            => CleanInv'
<1> SUFFICES ASSUME Inv, PageInv, SoleInv, CleanInv, NoOverlap, NoOverlap', [Next]_vars,
                    faults' = 0
             PROVE  Clean'
  BY DEF CleanInv
<1>0. faults \in Nat
  BY DEF Inv, TypeOK
<1>1. ASSUME NEW r \in Replicas, Fault(r) PROVE FALSE
  BY <1>0, <1>1 DEF Fault, Throw, ThrowCancel, TaskFails, Crash
<1>2. ASSUME NEW r \in Replicas, TaskStep(r) PROVE Clean'
  <2>1. faults = 0
    BY <1>2
    DEF TaskStep, getCurrentAction, createProviderIngestionRecord, clearFinishedIngestions,
        setProviderComplete, setProviderIngesting, setProviderCanceled,
        setProviderBursting, getLastMark, next, createMark, createMarkEntities,
        computeRemovedStep, applyMutation, settle, setProviderBackoff,
        setProviderCanceling
  <2> QED
    BY <1>2, <2>1, TaskStepClean DEF CleanInv
<1>3. ASSUME NEW r \in Replicas, BeginTick(r) PROVE Clean'
  <2>1. Clean
    BY <1>3 DEF BeginTick, CleanInv
  <2>2. JobClean(r)' /\ \A i \in OpenIds' : RowClean(i)'
    BY <1>3, <2>1, BeforePagesClean
  <2> QED
    BY <1>3, <2>2, StepOfOne, CleanStep
<1>4. CASE SourceChanges
  BY <1>4, SourceChangesClean DEF SourceChanges, CleanInv
<1>5. CASE Elapse \/ UNCHANGED vars \/ \E r \in Replicas : Expire(r)
  BY <1>5, NoTaskClean DEF Elapse, Expire, vars, db, engine, CleanInv
<1> QED
  BY <1>1, <1>2, <1>3, <1>4, <1>5 DEF Next

\* A cycle without an error, of any number of bursts, leaves the catalog equal
\* to the source: provided the source has more than one page, for the last
\* page sweeps nothing, and no burst outlives its lock.
THEOREM RestedCatalog ==
  ASSUME ManyPages
  PROVE  Spec /\ []NoOverlap => []RestedCatalogIsSource
<1>1. Inv /\ CleanInv => RestedCatalogIsSource
  BY DEF CleanInv, Clean, RowClean, RestedCatalogIsSource, Rested
<1> QED
  BY InitInv, NextInv, InitPageInv, NextPageInv, InitSole, NextSole, InitClean, NextClean,
     <1>1, PTL DEF Spec

-----------------------------------------------------------------------------
(* A cycle goes on, and comes to an end.                                   *)

OpenActions == {"rest", "ingest", "backoff", "cancel"}

\* Of the marks in S one is the last, and marks of one number are at one page.
HasLast(S) == S # {} => \E m \in S : \A n \in S : n.sequence <= m.sequence
Agrees(S)  == \A m, n \in S : m.sequence = n.sequence => m.cursor = n.cursor

\* A tick that finds an open record whose wait is over has something to do, and a
\* burst that resumes an ingestion finds its last mark.
NeverStuck ==
    /\ \A i \in OpenIds : ingestions[i].due => Branch(ingestions[i]) # "idle"
    /\ \A r \in Replicas : pc[r] \notin WithoutRecord =>
          LET i == job[r].ingestion IN i \in Ids /\ (MarksOf(i) = {} \/ LastMarks(i) # {})

\* What has to be done to an open record, and that a table of marks has an end.
StuckInv ==
    /\ \A i \in OpenIds : ingestions[i].nextAction \in OpenActions
    /\ \A i \in Ids : HasLast(MarksOf(i))

LEMMA InitStuck == Init => StuckInv
<1> SUFFICES ASSUME Init PROVE StuckInv
  OBVIOUS
<1>1. OpenIds = {}
  BY DEF Init, OpenIds, IsOpen, NoRow
<1>2. \A i \in Ids : MarksOf(i) = {}
  BY DEF Init, MarksOf
<1> QED
  BY <1>1, <1>2 DEF StuckInv, HasLast

\* A row that is written with something to do, or closed.
LEMMA WrittenToDo ==
  ASSUME Inv, StuckInv, NEW i \in Ids, NEW row \in Row, updateIngestionRecordById(i, row),
         row.open => row.nextAction \in OpenActions
  PROVE  \A k \in OpenIds' : ingestions'[k].nextAction \in OpenActions
<1> SUFFICES ASSUME NEW k \in OpenIds' PROVE ingestions'[k].nextAction \in OpenActions
  OBVIOUS
<1>1. k \in Ids /\ ingestions'[k].open
  BY DEF OpenIds, IsOpen
<1>2. CASE k = i /\ ingestions[i].present
  BY <1>1, <1>2, UpdateById DEF Inv
<1>3. CASE ~(k = i /\ ingestions[i].present)
  <2>1. ingestions'[k] = ingestions[k]
    BY <1>1, <1>3, UpdateById DEF Inv
  <2> QED
    BY <1>1, <2>1 DEF StuckInv, OpenIds, IsOpen
<1> QED
  BY <1>2, <1>3

LEMMA TaskStepToDo ==
  ASSUME Inv, StuckInv, NEW r \in Replicas, TaskStep(r)
  PROVE  \A k \in OpenIds' : ingestions'[k].nextAction \in OpenActions
<1> DEFINE i == job[r].ingestion
           old == ingestions[i]
<1>0. /\ pc[r] \notin WithoutRecord => i \in Ids /\ old \in Row
      /\ ingestions \in [Ids -> Row] /\ job[r] \in Job
  BY DEF Inv, JobHasRecord, TypeOK
<1>1. /\ \A k \in Ids : ingestions[k].open => ingestions[k].nextAction \in OpenActions
      /\ TypeOK
  BY DEF StuckInv, OpenIds, IsOpen, Inv
<1>2. CASE getCurrentAction(r) \/ getLastMark(r) \/ next(r) \/ createMark(r)
           \/ createMarkEntities(r) \/ computeRemovedStep(r) \/ applyMutation(r)
  <2>1. ingestions' = ingestions
    BY <1>2 DEF getCurrentAction, getLastMark, next, createMark, createMarkEntities,
                computeRemovedStep, applyMutation, db
  <2> QED
    BY <1>1, <2>1 DEF OpenIds, IsOpen
<1>3. CASE createProviderIngestionRecord(r)
  <2>1. NewRow.nextAction \in OpenActions
    BY DEF NewRow, OpenActions
  <2> QED
    BY <1>0, <1>1, <1>3, <2>1, NewIdIsFresh
    DEF createProviderIngestionRecord, OpenIds, IsOpen, FreshIds
<1>4. CASE clearFinishedIngestions(r)
  BY <1>0, <1>1, <1>4 DEF clearFinishedIngestions, KeptRows, Closed, NoRow, OpenIds, IsOpen
<1>5. CASE setProviderComplete(r) \/ setProviderCanceled(r)
  <2>1. i \in Ids /\ old \in Row
    BY <1>0, <1>5 DEF setProviderComplete, setProviderCanceled, WithoutRecord
  <2>2. PICK n \in NextActions :
          updateIngestionRecordById(i, [old EXCEPT !.nextAction = n, !.restCompleted = TRUE,
                                          !.status = "complete", !.open = FALSE])
    BY <1>5 DEF setProviderComplete, setProviderCanceled, NextActions
  <2> DEFINE row == [old EXCEPT !.nextAction = n, !.restCompleted = TRUE,
                       !.status = "complete", !.open = FALSE]
  <2>3. row \in Row /\ ~row.open
    <3>1. "complete" \in Statuses
      BY DEF Statuses
    <3>2. row \in Row
      BY <1>1, <2>1, <3>1, RowUpdates
    <3> QED
      BY <2>1, <3>2 DEF Row
  <2> HIDE DEF row
  <2>4. updateIngestionRecordById(i, row)
    BY <2>2 DEF row
  <2> QED
    BY <2>1, <2>3, <2>4, WrittenToDo
<1>6. CASE setProviderIngesting(r)
  <2> DEFINE row == [old EXCEPT !.nextAction = "ingest"]
  <2>1. i \in Ids /\ old \in Row /\ updateIngestionRecordById(i, row)
    BY <1>0, <1>6 DEF setProviderIngesting, WithoutRecord
  <2>2. row \in Row /\ row.nextAction \in OpenActions
    BY <2>1 DEF Row, NextActions, OpenActions
  <2> QED
    BY <2>1, <2>2, WrittenToDo
<1>7. CASE setProviderBursting(r)
  <2> DEFINE row == [old EXCEPT !.status = "bursting"]
  <2>1. i \in Ids /\ old \in Row /\ updateIngestionRecordById(i, row)
    BY <1>0, <1>7 DEF setProviderBursting, WithoutRecord
  <2>2. row \in Row /\ row.nextAction = old.nextAction /\ row.open = old.open
    BY <2>1 DEF Row, Statuses
  <2> QED
    BY <1>1, <2>1, <2>2, WrittenToDo
<1>8. CASE settle(r) /\ job[r].done
  <2> DEFINE row == [old EXCEPT !.nextAction = "rest", !.due = FALSE, !.status = "resting"]
  <2>1. i \in Ids /\ old \in Row /\ updateIngestionRecordById(i, row)
    BY <1>0, <1>8 DEF settle, setProviderResting, WithoutRecord
  <2>2. row \in Row /\ row.nextAction \in OpenActions
    BY <2>1 DEF Row, NextActions, Statuses, OpenActions
  <2> QED
    BY <2>1, <2>2, WrittenToDo
<1>9. CASE settle(r) /\ ~job[r].done
  <2> DEFINE row == [old EXCEPT !.attempts = 0, !.status = "interstitial"]
  <2>1. i \in Ids /\ old \in Row /\ updateIngestionRecordById(i, row)
    BY <1>0, <1>9 DEF settle, setProviderInterstitial, WithoutRecord
  <2>2. row \in Row /\ row.nextAction = old.nextAction /\ row.open = old.open
    BY <2>1 DEF Row, Statuses
  <2> QED
    BY <1>1, <2>1, <2>2, WrittenToDo
<1>10. CASE setProviderBackoff(r)
  <2> DEFINE row == [old EXCEPT !.nextAction = "backoff", !.attempts = AttemptsAfterFailure(r),
                       !.due = FALSE, !.status = "backing off"]
  <2>1. i \in Ids /\ old \in Row /\ updateIngestionRecordById(i, row)
    BY <1>0, <1>10 DEF setProviderBackoff, WithoutRecord
  <2>2. AttemptsAfterFailure(r) \in Nat
    BY <1>0 DEF AttemptsAfterFailure, Job
  <2>3. row \in Row /\ row.nextAction \in OpenActions
    BY <2>1, <2>2 DEF Row, NextActions, Statuses, OpenActions
  <2> QED
    BY <2>1, <2>3, WrittenToDo
<1>11. CASE setProviderCanceling(r)
  <2> DEFINE row == [old EXCEPT !.nextAction = "cancel", !.due = TRUE, !.status = "canceling"]
  <2>1. i \in Ids /\ old \in Row /\ updateIngestionRecordById(i, row)
    BY <1>0, <1>11 DEF setProviderCanceling, WithoutRecord
  <2>2. row \in Row /\ row.nextAction \in OpenActions
    BY <2>1 DEF Row, NextActions, Statuses, OpenActions
  <2> QED
    BY <2>1, <2>2, WrittenToDo
<1> QED
  BY <1>2, <1>3, <1>4, <1>5, <1>6, <1>7, <1>8, <1>9, <1>10, <1>11 DEF TaskStep

\* A table of marks that is the other but for the refs recorded with them.
Copies(S, T) == /\ \A m \in S : \E n \in T : SameMark(m, n)
                /\ \A n \in T : \E m \in S : SameMark(m, n)

LEMMA CopiesLast ==
  ASSUME NEW S, NEW T, Copies(S, T), HasLast(S)
  PROVE  HasLast(T)
<1> SUFFICES ASSUME T # {} PROVE \E m \in T : \A n \in T : n.sequence <= m.sequence
  BY DEF HasLast
<1>1. S # {}
  BY DEF Copies
<1>2. PICK m \in S : \A n \in S : n.sequence <= m.sequence
  BY <1>1 DEF HasLast
<1>3. PICK n \in T : SameMark(m, n)
  BY DEF Copies
<1>4. \A k \in T : k.sequence <= n.sequence
  BY <1>2, <1>3 DEF Copies, SameMark
<1> QED
  BY <1>4

\* Every step but createMark leaves the marks of an ingestion, or clears those of
\* one that is closed.
LEMMA MarksCopied ==
  ASSUME Inv, [Next]_vars, \A r \in Replicas : ~createMark(r), NEW i \in Ids
  PROVE  \/ Copies(MarksOf(i), MarksOf(i)')
         \/ ~IsOpen(i) /\ MarksOf(i)' = {}
<1>1. CASE marks' = marks
  <2>1. MarksOf(i)' = MarksOf(i)
    BY <1>1 DEF MarksOf
  <2> QED
    BY <2>1 DEF Copies, SameMark
<1>2. ASSUME NEW r \in Replicas, createMarkEntities(r) PROVE Copies(MarksOf(i), MarksOf(i)')
  <2>1. MarksStay /\ NoNewMarks
    BY <1>2, JoinedMarks DEF Inv, TypeOK
  <2>2. \A m \in marks : \E n \in marks' : SameMark(m, n)
    <3>1. \A m \in marks : SameMark(m, [m EXCEPT !.refs = job[r].batch])
      BY DEF Inv, TypeOK, Mark, SameMark
    <3> QED
      BY <1>2, <3>1 DEF createMarkEntities, SameMark
  <2> QED
    BY <2>1, <2>2 DEF Copies, MarksOf, NoNewMarks, SameMark
<1>3. ASSUME NEW r \in Replicas, clearFinishedIngestions(r)
      PROVE  \/ Copies(MarksOf(i), MarksOf(i)')
             \/ ~IsOpen(i) /\ MarksOf(i)' = {}
  <2>1. CASE Closed(i)
    BY <1>3, <2>1 DEF clearFinishedIngestions, KeptMarks, MarksOf, Closed, IsOpen
  <2>2. CASE ~Closed(i)
    <3>1. MarksOf(i)' = MarksOf(i)
      BY <1>3, <2>2 DEF clearFinishedIngestions, KeptMarks, MarksOf
    <3> QED
      BY <3>1 DEF Copies, SameMark
  <2> QED
    BY <2>1, <2>2
<1>4. ASSUME NEW r \in Replicas, TaskStep(r), marks' # marks
      PROVE  createMark(r) \/ createMarkEntities(r) \/ clearFinishedIngestions(r)
  BY <1>4
  DEF TaskStep, getCurrentAction, createProviderIngestionRecord, setProviderComplete,
      setProviderIngesting, setProviderCanceled, setProviderBursting, getLastMark, next,
      computeRemovedStep, applyMutation, settle, setProviderBackoff,
      setProviderCanceling, db
<1>5. ASSUME NEW r \in Replicas, BeginTick(r) \/ Fault(r) \/ Expire(r)
      PROVE  marks' = marks
  BY <1>5 DEF BeginTick, Fault, Throw, ThrowCancel, TaskFails, Crash, Expire, db
<1>6. Elapse \/ SourceChanges \/ UNCHANGED vars => marks' = marks
  BY DEF Elapse, SourceChanges, vars, db
<1> QED
  BY <1>1, <1>2, <1>3, <1>4, <1>5, <1>6 DEF Next

\* createMark adds the mark of the page the task holds.
NewMark(r) == [ingestion |-> job[r].ingestion, sequence |-> job[r].sequence, by |-> r,
               cursor |-> job[r].cursor, refs |-> {}]

LEMMA MarkAdded ==
  ASSUME Inv, NEW r \in Replicas, createMark(r), NEW i \in Ids
  PROVE  /\ i # job[r].ingestion => MarksOf(i)' = MarksOf(i)
         /\ i = job[r].ingestion => MarksOf(i)' = MarksOf(i) \cup {NewMark(r)}
         /\ NewMark(r).sequence = job[r].sequence /\ NewMark(r).cursor = job[r].cursor
         /\ job[r].sequence \in Nat /\ job[r].cursor \in Nat
<1>1. marks' = marks \cup {NewMark(r)} /\ NewMark(r).ingestion = job[r].ingestion
  BY DEF createMark, NewMark
<1>2. NewMark(r).sequence = job[r].sequence /\ NewMark(r).cursor = job[r].cursor
  BY DEF NewMark
<1>3. job[r].sequence \in Nat /\ job[r].cursor \in Nat
  BY DEF Inv, TypeOK, Job
<1> QED
  BY <1>1, <1>2, <1>3 DEF MarksOf

LEMMA AddedLast ==
  ASSUME NEW S, NEW k, HasLast(S), k.sequence \in Nat, \A m \in S : m.sequence \in Nat
  PROVE  HasLast(S \cup {k})
<1>1. CASE \A m \in S : m.sequence <= k.sequence
  BY <1>1 DEF HasLast
<1>2. CASE ~(\A m \in S : m.sequence <= k.sequence)
  <2>1. PICK m \in S : \A n \in S : n.sequence <= m.sequence
    BY <1>2 DEF HasLast
  <2>2. k.sequence <= m.sequence
    BY <1>2, <2>1
  <2> QED
    BY <2>1, <2>2 DEF HasLast
<1> QED
  BY <1>1, <1>2

LEMMA NextStuck == Inv /\ StuckInv /\ [Next]_vars => StuckInv'
<1> SUFFICES ASSUME Inv, StuckInv, [Next]_vars PROVE StuckInv'
  OBVIOUS
<1>1. \A k \in OpenIds' : ingestions'[k].nextAction \in OpenActions
  <2>1. ASSUME NEW r \in Replicas, TaskStep(r)
        PROVE  \A k \in OpenIds' : ingestions'[k].nextAction \in OpenActions
    BY <2>1, TaskStepToDo
  <2>2. CASE Elapse
    BY <2>2, ElapsedRows DEF StuckInv, OpenIds, IsOpen
  <2>3. CASE ingestions' = ingestions
    BY <2>3 DEF StuckInv, OpenIds, IsOpen
  <2>4. ASSUME NEW r \in Replicas, BeginTick(r) \/ Fault(r) \/ Expire(r)
        PROVE  ingestions' = ingestions
    BY <2>4 DEF BeginTick, Fault, Throw, ThrowCancel, TaskFails, Crash, Expire, db
  <2> QED
    BY <2>1, <2>2, <2>3, <2>4 DEF Next, SourceChanges, vars, db
<1>2. ASSUME NEW i \in Ids PROVE HasLast(MarksOf(i)')
  <2>1. HasLast(MarksOf(i)) /\ HasLast({})
    BY DEF StuckInv, HasLast
  <2>2. ASSUME NEW r \in Replicas, createMark(r) PROVE HasLast(MarksOf(i)')
    <3>1. \A m \in MarksOf(i) : m.sequence \in Nat
      BY MarkNumbers
    <3> QED
      BY <2>1, <2>2, <3>1, MarkAdded, AddedLast
  <2>3. CASE \A r \in Replicas : ~createMark(r)
    BY <2>1, <2>3, MarksCopied, CopiesLast
  <2> QED
    BY <2>2, <2>3
<1> QED
  BY <1>1, <1>2 DEF StuckInv

\* However bursts overlap, are cancelled or die, an open record is never left with
\* nothing to do, nor a task without the record or the mark it goes on from.
THEOREM CyclesGoOn == Spec => []NeverStuck
<1>1. Inv /\ StuckInv => NeverStuck
  <2> SUFFICES ASSUME Inv, StuckInv PROVE NeverStuck
    OBVIOUS
  <2>1. ASSUME NEW i \in OpenIds, ingestions[i].due PROVE Branch(ingestions[i]) # "idle"
    <3>1. ingestions[i].nextAction \in OpenActions
      BY DEF StuckInv
    <3> QED
      BY <2>1, <3>1 DEF OpenActions, Branch
  <2>2. ASSUME NEW i \in Ids PROVE MarksOf(i) = {} \/ LastMarks(i) # {}
    BY DEF StuckInv, HasLast, LastMarks
  <2> QED
    BY <2>1, <2>2 DEF NeverStuck, Inv, JobHasRecord
<1> QED
  BY InitInv, NextInv, InitStuck, NextStuck, <1>1, PTL DEF Spec

-----------------------------------------------------------------------------
(* What is left of a cycle, while no burst outlives its lock.              *)

\* The page the last of the marks in S stands behind.
CursorOf(S) == IF S = {} THEN 0
               ELSE (CHOOSE m \in S : \A n \in S : n.sequence <= m.sequence).cursor

\* The replica that is at work, if any is.
WorkerIn(steps) == CHOOSE r \in Replicas : \A x \in Replicas \ {r} : steps[x] = "idle"

\* A failure is still to be written, the record is to be backed off, ingested, or
\* only closed: what a burst behind the last page has in common with a record at
\* rest is that no page is left.
StageOf(step, done, action) ==
    IF step \in {"setProviderBackoff", "setProviderCanceling"} THEN 4
    ELSE CASE action = "backoff" -> 3
           [] action = "ingest"  -> IF step \in MarkedSteps \cup {"settle"} /\ done THEN 1 ELSE 2
           [] OTHER              -> 0

\* The steps of a tick up to the next mark, or to its end.
CallsFrom(step) ==
    CASE step = "createMarkEntities"                             -> 9
      [] step = "computeRemoved"                                 -> 8
      [] step = "applyMutation"                                  -> 7
      [] step \in {"settle", "createProviderIngestionRecord"}    -> 6
      [] step \in {"idle", "getCurrentAction"}                   -> 5
      [] step \in {"clearFinishedIngestions", "setProviderBursting",
                   "setProviderIngesting", "setProviderCanceled"} -> 4
      [] step \in {"setProviderComplete", "getLastMark"}         -> 3
      [] step = "next"                                           -> 2
      [] step = "createMark"                                     -> 1
      [] OTHER                                                   -> 0

\* What is left of ingestion i: faults, stages, a wait, pages and calls.
Worker         == WorkerIn(pc)
FaultsLeft     == MaxFaults - faults
StagesLeft(i)  == StageOf(pc[Worker], job[Worker].done, ingestions[i].nextAction)
WaitsLeft(i)   == IF ingestions[i].due THEN 0 ELSE 1
PagesLeft(i)   == Len(source) - CursorOf(MarksOf(i))
CallsLeft      == CallsFrom(pc[Worker])

Left(i) == <<FaultsLeft, StagesLeft(i), WaitsLeft(i), PagesLeft(i), CallsLeft>>

LeftIsCounted == \A i \in OpenIds : Left(i) \in Nat \X Nat \X Nat \X Nat \X Nat

\* Less is left where the two differ first.
Less(m, n) == \E k \in 1..5 : m[k] < n[k] /\ \A j \in 1..(k - 1) : m[j] = n[j]

\* What changes nothing: the scheduler begins a tick, a tick finds that the record's
\* wait is not over, a lock expires, another record's wait is over.
Pauses(i) ==
    \/ \E r \in Replicas : \/ BeginTick(r)
                           \/ Expire(r)
                           \/ getCurrentAction(r) /\ Branch(ingestions[i]) = "idle"
    \/ Elapse /\ ingestions'[i] = ingestions[i]

\* Whatever a replica does while an ingestion is open leaves less of it to be done,
\* but for such pauses.
ComesToAnEnd ==
    [][\A i \in OpenIds \cap OpenIds' :
          \/ Less(Left(i)', Left(i))
          \/ Left(i)' = Left(i) /\ Pauses(i)]_vars

\* A burst goes on from the last mark: the number and the page it is about to mark
\* follow that one's, and once they are marked are the last.
Above(S, s) == \A m \in S : m.sequence < s

Follows(step, done, S, c, s) ==
    /\ step = "next"        => Above(S, s) /\ c = CursorOf(S)
    /\ step = "createMark"  => Above(S, s) /\ (done \/ c = CursorOf(S) + 1)
    /\ step \in MarkedSteps => Above(S, s + 1) /\ c = CursorOf(S)

JobFollows(r) ==
    LET j == job[r] IN Follows(pc[r], j.done, MarksOf(j.ingestion), j.cursor, j.sequence)

FollowInv ==
    /\ \A i \in OpenIds : Agrees(MarksOf(i))
    /\ \A r \in Replicas : JobFollows(r)

LEMMA WorkerIs ==
  ASSUME NEW steps, NEW r \in Replicas, \A x \in Replicas \ {r} : steps[x] = "idle"
  PROVE  /\ steps[r] # "idle" => WorkerIn(steps) = r
         /\ steps[WorkerIn(steps)] = steps[r]
<1>1. /\ WorkerIn(steps) \in Replicas
      /\ \A x \in Replicas \ {WorkerIn(steps)} : steps[x] = "idle"
  BY DEF WorkerIn
<1> QED
  BY <1>1

LEMMA CursorIs ==
  ASSUME NEW S, NEW m \in S, Agrees(S), \A n \in S : n.sequence \in Nat,
         \A n \in S : n.sequence <= m.sequence
  PROVE  CursorOf(S) = m.cursor
<1>1. PICK k : k = CHOOSE x \in S : \A n \in S : n.sequence <= x.sequence
  OBVIOUS
<1>2. k \in S /\ \A n \in S : n.sequence <= k.sequence
  BY <1>1
<1>3. k.sequence = m.sequence
  BY <1>2
<1>4. k.cursor = m.cursor
  BY <1>2, <1>3 DEF Agrees
<1> QED
  BY <1>1, <1>4 DEF CursorOf

LEMMA CopiesCursor ==
  ASSUME NEW S, NEW T, Copies(S, T), Agrees(S), HasLast(S), \A n \in S : n.sequence \in Nat
  PROVE  /\ Agrees(T) /\ CursorOf(T) = CursorOf(S)
         /\ \A s : Above(S, s) => Above(T, s)
<1>1. Agrees(T)
  BY DEF Agrees, Copies, SameMark
<1>2. \A s : Above(S, s) => Above(T, s)
  BY DEF Above, Copies, SameMark
<1>3. CASE S = {}
  <2>1. T = {}
    BY <1>3 DEF Copies
  <2> QED
    BY <1>1, <1>2, <1>3, <2>1
<1>4. CASE S # {}
  <2>1. PICK m \in S : \A n \in S : n.sequence <= m.sequence
    BY <1>4 DEF HasLast
  <2>2. PICK k \in T : SameMark(m, k)
    BY DEF Copies
  <2>3. \A n \in T : n.sequence <= k.sequence /\ n.sequence \in Nat
    BY <2>1, <2>2 DEF Copies, SameMark
  <2>4. CursorOf(S) = m.cursor
    BY <2>1, CursorIs
  <2>5. CursorOf(T) = k.cursor
    BY <1>1, <2>3, CursorIs
  <2> QED
    BY <1>1, <1>2, <2>2, <2>4, <2>5 DEF SameMark
<1> QED
  BY <1>3, <1>4

LEMMA AddedCursor ==
  ASSUME NEW S, NEW k, Agrees(S), k.sequence \in Nat, \A n \in S : n.sequence \in Nat,
         Above(S, k.sequence)
  PROVE  /\ Agrees(S \cup {k}) /\ CursorOf(S \cup {k}) = k.cursor
         /\ Above(S \cup {k}, k.sequence + 1)
<1>1. Agrees(S \cup {k})
  BY DEF Agrees, Above
<1>2. \A n \in S \cup {k} : n.sequence \in Nat /\ n.sequence <= k.sequence
  BY DEF Above
<1>3. CursorOf(S \cup {k}) = k.cursor
  BY <1>1, <1>2, CursorIs
<1> QED
  BY <1>1, <1>2, <1>3 DEF Above

LEMMA InitFollow == Init => FollowInv
<1> SUFFICES ASSUME Init PROVE FollowInv
  OBVIOUS
<1>1. OpenIds = {}
  BY DEF Init, OpenIds, IsOpen, NoRow
<1>2. \A r \in Replicas : pc[r] = "idle"
  BY DEF Init
<1> QED
  BY <1>1, <1>2 DEF FollowInv, JobFollows, Follows, MarkedSteps

LEMMA NothingToFollow ==
  \A r \in Replicas : pc'[r] \notin {"next", "createMark"} \cup MarkedSteps => JobFollows(r)'
  BY DEF JobFollows, Follows

\* A task that works alone follows the marks through its burst.
LEMMA BurstFollows ==
  ASSUME Inv, SoleInv, StuckInv, FollowInv, NEW r \in Replicas, TaskStep(r),
         \A x \in Replicas \ {r} : pc[x] = "idle"
  PROVE  JobFollows(r)'
<1>i. PICK i, c, s : i = job[r].ingestion /\ c = job[r].cursor /\ s = job[r].sequence
  OBVIOUS
<1> USE <1>i
<1>0. /\ job[r] \in Job /\ pc \in [Replicas -> Steps] /\ job \in [Replicas -> Job]
      /\ JobFollows(r) /\ JobSole(r)
      /\ c \in Nat /\ s \in Nat /\ Len(source) \in Nat
  BY SourceLength DEF FollowInv, SoleInv, JobsSole, Inv, TypeOK, Job
<1>1. pc[r] \notin WithoutRecord =>
         /\ i \in Ids /\ i \in OpenIds /\ Agrees(MarksOf(i)) /\ HasLast(MarksOf(i))
         /\ \A m \in MarksOf(i) : m.sequence \in Nat /\ m.cursor \in Nat
  BY <1>0, MarkNumbers DEF JobSole, FollowInv, StuckInv, OpenIds
<1>2. CASE getLastMark(r)
  <2>1. /\ pc[r] = "getLastMark" /\ pc'[r] = "next" /\ marks' = marks
    BY <1>0, <1>2 DEF getLastMark, Goto, db
  <2>2. ASSUME NEW d, NEW q, job' = [job EXCEPT ![r] = [@ EXCEPT !.cursor = d, !.sequence = q]]
        PROVE  job'[r].ingestion = i /\ job'[r].cursor = d /\ job'[r].sequence = q
    BY <1>0, <2>2 DEF Job
  <2>3. CASE MarksOf(i) = {} /\ job' = [job EXCEPT ![r] = [@ EXCEPT !.cursor = 0, !.sequence = 0]]
    <3>1. job'[r].ingestion = i /\ job'[r].cursor = 0 /\ job'[r].sequence = 0
      BY <2>2, <2>3
    <3>2. MarksOf(job[r].ingestion)' = {}
      BY <2>1, <2>3, <3>1 DEF MarksOf
    <3>3. Above({}, 0) /\ CursorOf({}) = 0
      BY DEF Above, CursorOf
    <3> QED
      BY <2>1, <3>1, <3>2, <3>3 DEF JobFollows, Follows, MarkedSteps
  <2>4. ASSUME NEW m \in LastMarks(i),
               job' = [job EXCEPT ![r] = [@ EXCEPT !.cursor   = m.cursor,
                                                   !.sequence = m.sequence + 1]]
        PROVE  JobFollows(r)'
    <3>1. job'[r].ingestion = i /\ job'[r].cursor = m.cursor /\ job'[r].sequence = m.sequence + 1
      BY <2>2, <2>4
    <3>2. m \in MarksOf(i) /\ \A n \in MarksOf(i) : n.sequence <= m.sequence
      BY DEF LastMarks
    <3>3. /\ Agrees(MarksOf(i)) /\ \A n \in MarksOf(i) : n.sequence \in Nat
      BY <1>1, <2>1 DEF WithoutRecord
    <3>4. Above(MarksOf(i), m.sequence + 1) /\ CursorOf(MarksOf(i)) = m.cursor
      BY <3>2, <3>3, CursorIs DEF Above
    <3>5. MarksOf(job[r].ingestion)' = MarksOf(i)
      BY <2>1, <3>1 DEF MarksOf
    <3> QED
      BY <2>1, <3>1, <3>4, <3>5 DEF JobFollows, Follows, MarkedSteps
  <2> QED
    BY <1>2, <2>3, <2>4 DEF getLastMark
<1>3. CASE next(r)
  <2>1. /\ pc[r] = "next" /\ pc'[r] = "createMark" /\ marks' = marks
        /\ job'[r].ingestion = i /\ job'[r].sequence = s
        /\ job'[r].cursor = After(c) /\ job'[r].done = IsDone(c)
    BY <1>0, <1>3 DEF next, Goto, db, Job
  <2>2. Above(MarksOf(i), s) /\ c = CursorOf(MarksOf(i))
    BY <1>0, <2>1 DEF JobFollows, Follows
  <2>3. IsDone(c) \/ After(c) = c + 1
    BY <1>0 DEF IsDone, After
  <2>4. MarksOf(job[r].ingestion)' = MarksOf(i)
    BY <2>1 DEF MarksOf
  <2> QED
    BY <2>1, <2>2, <2>3, <2>4 DEF JobFollows, Follows, MarkedSteps
<1>4. CASE createMark(r)
  <2>1. /\ pc[r] = "createMark" /\ job' = job /\ pc'[r] \in MarkedSteps
    BY <1>0, <1>4 DEF createMark, Goto, AfterEntities, MarkedSteps
  <2>2. Above(MarksOf(i), s)
    BY <1>0, <2>1 DEF JobFollows, Follows
  <2>3. i \in Ids /\ Agrees(MarksOf(i)) /\ \A n \in MarksOf(i) : n.sequence \in Nat
    BY <1>1, <2>1 DEF WithoutRecord
  <2>4. /\ MarksOf(i)' = MarksOf(i) \cup {NewMark(r)}
        /\ NewMark(r).sequence = s /\ NewMark(r).cursor = c
    BY <1>4, <2>3, MarkAdded, <2>1
  <2>5. Above(MarksOf(i)', s + 1) /\ CursorOf(MarksOf(i)') = c
    <3>1. /\ CursorOf(MarksOf(i) \cup {NewMark(r)}) = NewMark(r).cursor
          /\ Above(MarksOf(i) \cup {NewMark(r)}, NewMark(r).sequence + 1)
      BY <1>0, <2>2, <2>3, <2>4, AddedCursor
    <3> QED
      BY <2>4, <3>1
  <2> QED
    BY <2>1, <2>5 DEF JobFollows, Follows, MarkedSteps
<1>5. CASE createMarkEntities(r)
  <2>1. /\ pc[r] = "createMarkEntities" /\ job' = job /\ pc'[r] \in MarkedSteps
        /\ pc[r] \in MarkedSteps
    BY <1>0, <1>5 DEF createMarkEntities, Goto, AfterEntities, MarkedSteps
  <2>2. Above(MarksOf(i), s + 1) /\ c = CursorOf(MarksOf(i))
    BY <1>0, <2>1 DEF JobFollows, Follows
  <2>3. \A x \in Replicas : ~createMark(x)
    BY <2>1 DEF createMark
  <2>4. i \in OpenIds /\ i \in Ids /\ Agrees(MarksOf(i)) /\ HasLast(MarksOf(i))
        /\ \A m \in MarksOf(i) : m.sequence \in Nat
    BY <1>1, <2>1 DEF WithoutRecord
  <2>5. Copies(MarksOf(i), MarksOf(i)')
    <3>1. [Next]_vars
      BY DEF Next
    <3> QED
      BY <2>3, <2>4, <3>1, MarksCopied DEF OpenIds
  <2>6. Above(MarksOf(i)', s + 1) /\ c = CursorOf(MarksOf(i)')
    BY <2>2, <2>4, <2>5, CopiesCursor
  <2> QED
    BY <2>1, <2>6 DEF JobFollows, Follows, MarkedSteps
<1>6. CASE computeRemovedStep(r)
  <2>1. /\ pc[r] \in MarkedSteps /\ pc'[r] = "applyMutation" /\ marks' = marks
        /\ job'[r].ingestion = i /\ job'[r].sequence = s /\ job'[r].cursor = c
    BY <1>0, <1>6 DEF computeRemovedStep, Goto, db, Job, MarkedSteps
  <2>2. MarksOf(job[r].ingestion)' = MarksOf(i)
    BY <2>1 DEF MarksOf
  <2> QED
    BY <1>0, <2>1, <2>2 DEF JobFollows, Follows, MarkedSteps
<1>7. CASE applyMutation(r)
  <2>1. /\ pc[r] = "applyMutation" /\ pc'[r] \in {"settle", "next"} /\ marks' = marks
        /\ pc'[r] = "next" => job' = [job EXCEPT ![r] = [PageDone(job[r]) EXCEPT !.sequence = @ + 1]]
    BY <1>0, <1>7 DEF applyMutation, Goto, db
  <2>2. CASE pc'[r] = "next"
    <3>1. /\ PageDone(job[r]).ingestion = i /\ PageDone(job[r]).cursor = c
          /\ PageDone(job[r]).sequence = s /\ PageDone(job[r]) \in Job
      BY <1>0 DEF PageDone, Job
    <3>2. /\ job'[r].ingestion = i /\ job'[r].cursor = c /\ job'[r].sequence = s + 1
      BY <1>0, <2>1, <2>2, <3>1 DEF Job
    <3>3. Above(MarksOf(i), s + 1) /\ c = CursorOf(MarksOf(i))
      BY <1>0, <2>1 DEF JobFollows, Follows, MarkedSteps
    <3>4. MarksOf(job[r].ingestion)' = MarksOf(i)
      BY <2>1, <3>2 DEF MarksOf
    <3> QED
      BY <2>2, <3>2, <3>3, <3>4 DEF JobFollows, Follows, MarkedSteps
  <2>3. CASE pc'[r] = "settle"
    BY <2>3, NothingToFollow DEF MarkedSteps
  <2> QED
    BY <2>1, <2>2, <2>3
<1>8. CASE ~\/ getLastMark(r) \/ next(r) \/ createMark(r) \/ createMarkEntities(r)
            \/ computeRemovedStep(r) \/ applyMutation(r)
  <2>1. pc'[r] \notin {"next", "createMark"} \cup MarkedSteps
    <3>1. ASSUME NEW row PROVE Branch(row) \notin {"next", "createMark"} \cup MarkedSteps
      BY DEF Branch, MarkedSteps
    <3>2. CASE getCurrentAction(r)
      <4>1. \/ Goto(r, "createProviderIngestionRecord") \/ Goto(r, "idle")
            \/ \E k \in OpenIds : Goto(r, Branch(ingestions[k]))
        BY <3>2 DEF getCurrentAction, EndTick
      <4>2. \A step : Goto(r, step) => pc'[r] = step
        BY <1>0 DEF Goto
      <4> QED
        BY <3>1, <4>1, <4>2 DEF MarkedSteps
    <3>3. CASE \/ createProviderIngestionRecord(r) \/ clearFinishedIngestions(r)
               \/ setProviderComplete(r) \/ setProviderIngesting(r)
               \/ setProviderCanceled(r) \/ setProviderBursting(r) \/ settle(r)
               \/ setProviderBackoff(r) \/ setProviderCanceling(r)
      BY <1>0, <3>3
      DEF createProviderIngestionRecord, clearFinishedIngestions, setProviderComplete,
          setProviderIngesting, setProviderCanceled, setProviderBursting, settle,
          setProviderBackoff, setProviderCanceling, EndTick, Goto, MarkedSteps
    <3> QED
      BY <1>8, <3>2, <3>3 DEF TaskStep
  <2> QED
    BY <2>1, NothingToFollow
<1> QED
  BY <1>2, <1>3, <1>4, <1>5, <1>6, <1>7, <1>8

\* What a task that has a record knows of the open one.
LEMMA OpenJob ==
  ASSUME Inv, SoleInv, NEW r \in Replicas, NEW i \in OpenIds, pc[r] \notin WithoutRecord
  PROVE  /\ job[r].ingestion = i
         /\ pc[r] \in TrySteps => ingestions[i].nextAction = "ingest"
         /\ pc[r] = "setProviderIngesting" => ingestions[i].nextAction = "backoff"
<1>1. JobSole(r)
  BY DEF SoleInv, JobsSole
<1>2. job[r].ingestion \in OpenIds
  BY <1>1 DEF JobSole
<1>3. job[r].ingestion = i
  BY <1>2 DEF Inv, OneOpenRecord
<1> QED
  BY <1>1, <1>3 DEF JobSole

\* What createMark does to the marks of an open ingestion, and the other steps do
\* not.
LEMMA CursorMoves ==
  ASSUME Inv, SoleInv, StuckInv, FollowInv, [Next]_vars, NEW i \in OpenIds
  PROVE  /\ Agrees(MarksOf(i)')
         /\ (\A r \in Replicas : ~createMark(r)) => CursorOf(MarksOf(i)') = CursorOf(MarksOf(i))
         /\ \A r \in Replicas : createMark(r) =>
               /\ CursorOf(MarksOf(i)') = job[r].cursor
               /\ job[r].done \/ job[r].cursor = CursorOf(MarksOf(i)) + 1
<1>1. /\ i \in Ids /\ Agrees(MarksOf(i)) /\ HasLast(MarksOf(i))
      /\ \A m \in MarksOf(i) : m.sequence \in Nat
  BY MarkNumbers DEF FollowInv, StuckInv, OpenIds
<1>2. CASE \A r \in Replicas : ~createMark(r)
  <2>1. Copies(MarksOf(i), MarksOf(i)')
    BY <1>1, <1>2, MarksCopied DEF OpenIds
  <2> QED
    BY <1>1, <1>2, <2>1, CopiesCursor
<1>3. ASSUME NEW r \in Replicas, createMark(r)
      PROVE  /\ Agrees(MarksOf(i)') /\ CursorOf(MarksOf(i)') = job[r].cursor
             /\ job[r].done \/ job[r].cursor = CursorOf(MarksOf(i)) + 1
  <2>1. pc[r] = "createMark" /\ job[r].ingestion = i
    BY <1>3, OpenJob DEF createMark, WithoutRecord
  <2>2. Above(MarksOf(i), job[r].sequence) /\ (job[r].done \/ job[r].cursor = CursorOf(MarksOf(i)) + 1)
    BY <2>1 DEF FollowInv, JobFollows, Follows
  <2>3. /\ MarksOf(i)' = MarksOf(i) \cup {NewMark(r)}
        /\ NewMark(r).sequence = job[r].sequence /\ NewMark(r).cursor = job[r].cursor
        /\ job[r].sequence \in Nat
    BY <1>1, <1>3, <2>1, MarkAdded
  <2>4. /\ Agrees(MarksOf(i) \cup {NewMark(r)})
        /\ CursorOf(MarksOf(i) \cup {NewMark(r)}) = NewMark(r).cursor
    BY <1>1, <2>2, <2>3, AddedCursor
  <2> QED
    BY <2>2, <2>3, <2>4
<1> QED
  BY <1>2, <1>3

LEMMA NextFollow ==
  Inv /\ SoleInv /\ StuckInv /\ FollowInv /\ NoOverlap /\ NoOverlap' /\ [Next]_vars => FollowInv'
<1> SUFFICES ASSUME Inv, SoleInv, StuckInv, FollowInv, NoOverlap, NoOverlap', [Next]_vars
             PROVE  FollowInv'
  OBVIOUS
<1>1. ASSUME NEW i \in OpenIds' PROVE Agrees(MarksOf(i)')
  <2>1. CASE i \in OpenIds
    BY <2>1, CursorMoves
  <2>2. CASE i \notin OpenIds
    <3>1. i \in Ids /\ ~RowsOnlyClose
      BY <1>1, <2>2 DEF RowsOnlyClose, OpenIds, IsOpen
    <3>2. PICK r \in Replicas : RowCreated /\ createProviderIngestionRecord(r)
      BY <3>1, NextRows
    <3>3. ingestions \in [Ids -> Row] /\ NewId \in Ids /\ MarksOf(NewId) = {}
      BY <3>2 DEF RowCreated, FreshIds, Inv, TypeOK
    <3>4. i = NewId
      BY <1>1, <2>2, <3>1, <3>2, <3>3 DEF RowCreated, OpenIds, IsOpen
    <3>5. MarksOf(i)' = {}
      BY <3>2, <3>3, <3>4 DEF createProviderIngestionRecord, MarksOf
    <3> QED
      BY <3>5 DEF Agrees
  <2> QED
    BY <2>1, <2>2
<1>2. ASSUME NEW r \in Replicas, BeginTick(r) \/ TaskStep(r) \/ Fault(r), JobFollows(r)'
      PROVE  \A x \in Replicas : JobFollows(x)'
  <2>1. \A x \in Replicas \ {r} : pc'[x] = "idle"
    BY <1>2, StepOfOne, OthersAreIdle
  <2>2. \A x \in Replicas \ {r} : JobFollows(x)'
    BY <2>1, NothingToFollow DEF MarkedSteps
  <2> QED
    BY <1>2, <2>2
<1>3. ASSUME NEW r \in Replicas, TaskStep(r) PROVE JobFollows(r)'
  <2>1. \A x \in Replicas \ {r} : pc[x] = "idle"
    BY <1>3, StepOfOne, OthersAreIdle
  <2> QED
    BY <1>3, <2>1, BurstFollows
<1>4. ASSUME NEW r \in Replicas, BeginTick(r) \/ Fault(r) PROVE JobFollows(r)'
  <2>1. pc \in [Replicas -> Steps]
    BY DEF Inv, TypeOK
  <2>2. pc'[r] \in {"getCurrentAction", "setProviderBackoff", "setProviderCanceling", "idle"}
    BY <1>4, <2>1 DEF BeginTick, Fault, Throw, ThrowCancel, TaskFails, Crash, EndTick, Goto
  <2> QED
    BY <2>2, NothingToFollow DEF MarkedSteps
<1>5. CASE UNCHANGED <<pc, job, marks>>
  <2>1. \A i : MarksOf(i)' = MarksOf(i)
    BY <1>5 DEF MarksOf
  <2> QED
    BY <1>1, <1>5, <2>1 DEF FollowInv, JobFollows
<1> QED
  BY <1>1, <1>2, <1>3, <1>4, <1>5
  DEF FollowInv, Next, Expire, Elapse, SourceChanges, vars, db, engine

LEMMA LessBy ==
  ASSUME NEW a1, NEW a2, NEW a3, NEW a4, NEW a5, NEW b1, NEW b2, NEW b3, NEW b4, NEW b5,
         \/ a1 < b1
         \/ a1 = b1 /\ a2 < b2
         \/ a1 = b1 /\ a2 = b2 /\ a3 < b3
         \/ a1 = b1 /\ a2 = b2 /\ a3 = b3 /\ a4 < b4
         \/ a1 = b1 /\ a2 = b2 /\ a3 = b3 /\ a4 = b4 /\ a5 < b5
  PROVE  Less(<<a1, a2, a3, a4, a5>>, <<b1, b2, b3, b4, b5>>)
<1>1. PICK m, n : m = <<a1, a2, a3, a4, a5>> /\ n = <<b1, b2, b3, b4, b5>>
  OBVIOUS
<1>2. /\ m[1] = a1 /\ m[2] = a2 /\ m[3] = a3 /\ m[4] = a4 /\ m[5] = a5
      /\ n[1] = b1 /\ n[2] = b2 /\ n[3] = b3 /\ n[4] = b4 /\ n[5] = b5
  BY <1>1
<1>3. \E k \in 1..5 : m[k] < n[k] /\ \A j \in 1..5 : j < k => m[j] = n[j]
  <2>1. \A j \in 1..5 : j = 1 \/ j = 2 \/ j = 3 \/ j = 4 \/ j = 5
    OBVIOUS
  <2>2. CASE a1 < b1
    BY <1>2, <2>1, <2>2
  <2>3. CASE a1 = b1 /\ a2 < b2
    BY <1>2, <2>1, <2>3
  <2>4. CASE a1 = b1 /\ a2 = b2 /\ a3 < b3
    BY <1>2, <2>1, <2>4
  <2>5. CASE a1 = b1 /\ a2 = b2 /\ a3 = b3 /\ a4 < b4
    BY <1>2, <2>1, <2>5
  <2>6. CASE a1 = b1 /\ a2 = b2 /\ a3 = b3 /\ a4 = b4 /\ a5 < b5
    BY <1>2, <2>1, <2>6
  <2> QED
    BY <2>2, <2>3, <2>4, <2>5, <2>6
<1> QED
  BY <1>1, <1>3 DEF Less

\* While the others are idle, one replica says what stage and call is next.
LEMMA StageIs ==
  ASSUME NEW steps, NEW jobs, NEW r \in Replicas, NEW action,
         \A x \in Replicas \ {r} : steps[x] = "idle"
  PROVE  LET w == WorkerIn(steps)
         IN  /\ StageOf(steps[w], jobs[w].done, action) = StageOf(steps[r], jobs[r].done, action)
             /\ CallsFrom(steps[w]) = CallsFrom(steps[r])
<1>1. PICK w : w = WorkerIn(steps)
  OBVIOUS
<1>2. steps[w] = steps[r] /\ (steps[r] # "idle" => w = r)
  BY <1>1, WorkerIs
<1>3. StageOf(steps[w], jobs[w].done, action) = StageOf(steps[r], jobs[r].done, action)
  <2>1. CASE steps[r] # "idle"
    BY <1>2, <2>1
  <2>2. CASE steps[r] = "idle"
    BY <1>2, <2>2 DEF StageOf, MarkedSteps
  <2> QED
    BY <2>1, <2>2
<1> QED
  BY <1>1, <1>2, <1>3

\* What a step of replica r, which works alone, leaves of ingestion i.
Lessens(r, i) ==
    \/ StageOf(pc[r], job[r].done, ingestions[i].nextAction)'
         < StageOf(pc[r], job[r].done, ingestions[i].nextAction)
    \/ /\ StageOf(pc[r], job[r].done, ingestions[i].nextAction)'
            = StageOf(pc[r], job[r].done, ingestions[i].nextAction)
       /\ ingestions'[i].due = ingestions[i].due
       /\ \/ CursorOf(MarksOf(i)') = CursorOf(MarksOf(i)) + 1 /\ CursorOf(MarksOf(i)) \in Nat
          \/ /\ CursorOf(MarksOf(i)') = CursorOf(MarksOf(i))
             /\ CallsFrom(pc'[r]) < CallsFrom(pc[r])

Leaves(r, i) ==
    /\ StageOf(pc[r], job[r].done, ingestions[i].nextAction)'
         = StageOf(pc[r], job[r].done, ingestions[i].nextAction)
    /\ ingestions'[i].due = ingestions[i].due
    /\ CursorOf(MarksOf(i)') = CursorOf(MarksOf(i))
    /\ CallsFrom(pc'[r]) = CallsFrom(pc[r])

LEMMA LeftOf ==
  ASSUME NEW r \in Replicas, NEW i \in Ids,
         \A x \in Replicas \ {r} : pc[x] = "idle" /\ pc'[x] = "idle"
  PROVE  /\ Left(i) = <<MaxFaults - faults,
                        StageOf(pc[r], job[r].done, ingestions[i].nextAction),
                        WaitsLeft(i), Len(source) - CursorOf(MarksOf(i)), CallsFrom(pc[r])>>
         /\ Left(i)' = <<MaxFaults - faults',
                         StageOf(pc'[r], job'[r].done, ingestions'[i].nextAction),
                         WaitsLeft(i)', Len(source') - CursorOf(MarksOf(i)'), CallsFrom(pc'[r])>>
<1>1. /\ StagesLeft(i) = StageOf(pc[r], job[r].done, ingestions[i].nextAction)
      /\ CallsLeft = CallsFrom(pc[r])
  BY StageIs DEF StagesLeft, CallsLeft, Worker
<1>2. /\ StagesLeft(i)' = StageOf(pc'[r], job'[r].done, ingestions'[i].nextAction)
      /\ CallsLeft' = CallsFrom(pc'[r])
  BY StageIs DEF StagesLeft, CallsLeft, Worker
<1>3. /\ FaultsLeft = MaxFaults - faults /\ FaultsLeft' = MaxFaults - faults'
      /\ PagesLeft(i) = Len(source) - CursorOf(MarksOf(i))
      /\ PagesLeft(i)' = Len(source') - CursorOf(MarksOf(i)')
  BY DEF FaultsLeft, PagesLeft
<1> QED
  BY <1>1, <1>2, <1>3 DEF Left

LEMMA LessensLeft ==
  ASSUME Inv, NEW r \in Replicas, NEW i \in Ids,
         \A x \in Replicas \ {r} : pc[x] = "idle" /\ pc'[x] = "idle",
         faults' = faults, source' = source
  PROVE  /\ Lessens(r, i) => Less(Left(i)', Left(i))
         /\ Leaves(r, i)  => Left(i)' = Left(i)
<1>1. PICK st, st1, w, w1, p, p1, ca, ca1, fl :
        /\ st  = StageOf(pc[r], job[r].done, ingestions[i].nextAction)
        /\ st1 = StageOf(pc'[r], job'[r].done, ingestions'[i].nextAction)
        /\ w = WaitsLeft(i) /\ w1 = WaitsLeft(i)'
        /\ p = Len(source) - CursorOf(MarksOf(i)) /\ p1 = Len(source) - CursorOf(MarksOf(i)')
        /\ ca = CallsFrom(pc[r]) /\ ca1 = CallsFrom(pc'[r]) /\ fl = MaxFaults - faults
  OBVIOUS
<1>2. Left(i) = <<fl, st, w, p, ca>> /\ Left(i)' = <<fl, st1, w1, p1, ca1>>
  BY <1>1, LeftOf
<1>3. ingestions'[i].due = ingestions[i].due => w1 = w
  BY <1>1 DEF WaitsLeft
<1>4. ASSUME CursorOf(MarksOf(i)') = CursorOf(MarksOf(i)) + 1, CursorOf(MarksOf(i)) \in Nat
      PROVE  p1 < p
  BY <1>1, <1>4, SourceLength
<1>5. ASSUME Lessens(r, i)
      PROVE  \/ st1 < st
             \/ st1 = st /\ w1 = w /\ p1 < p
             \/ st1 = st /\ w1 = w /\ p1 = p /\ ca1 < ca
  BY <1>1, <1>3, <1>4, <1>5 DEF Lessens
<1>6. Lessens(r, i) => Less(<<fl, st1, w1, p1, ca1>>, <<fl, st, w, p, ca>>)
  BY <1>5, LessBy
<1>7. Leaves(r, i) => st1 = st /\ w1 = w /\ p1 = p /\ ca1 = ca
  BY <1>1, <1>3 DEF Leaves
<1> QED
  BY <1>2, <1>6, <1>7

LEMMA Stages ==
  ASSUME NEW step, NEW done \in BOOLEAN, NEW action
  PROVE  LET caught == step \in {"setProviderBackoff", "setProviderCanceling"}
             last   == step \in MarkedSteps \cup {"settle"} /\ done
         IN  /\ caught => StageOf(step, done, action) = 4
             /\ ~caught /\ action = "backoff" => StageOf(step, done, action) = 3
             /\ ~caught /\ action = "ingest" /\ ~last => StageOf(step, done, action) = 2
             /\ ~caught /\ action \in {"rest", "cancel"} => StageOf(step, done, action) = 0
  BY DEF StageOf

LEMMA LastStage ==
  ASSUME NEW step \in MarkedSteps \cup {"settle"}, NEW done, done
  PROVE  StageOf(step, done, "ingest") = 1
  BY DEF StageOf, MarkedSteps

LEMMA RowWritten ==
  ASSUME Inv, NEW i \in OpenIds, NEW row \in Row, updateIngestionRecordById(i, row)
  PROVE  ingestions'[i] = row
<1>1. i \in Ids /\ ingestions[i].present
  BY DEF OpenIds, IsOpen, Inv, OpenIsPresent
<1> QED
  BY <1>1, UpdateById DEF Inv

\* Each step of a task does its part of an open ingestion, but for the tick that
\* finds that the wait is not over.
LEMMA TaskLessens ==
  ASSUME Inv, SoleInv, StuckInv, FollowInv, NEW r \in Replicas, TaskStep(r),
         \A x \in Replicas \ {r} : pc[x] = "idle",
         NEW i \in OpenIds, i \in OpenIds'
  PROVE  \/ Lessens(r, i)
         \/ Leaves(r, i) /\ getCurrentAction(r) /\ Branch(ingestions[i]) = "idle"
<1>i. PICK p, p1, a, a1, d, d1, u, u1, c, c1 :
        /\ p = pc[r] /\ p1 = pc'[r] /\ d = job[r].done /\ d1 = job'[r].done
        /\ a = ingestions[i].nextAction /\ a1 = ingestions'[i].nextAction
        /\ u = ingestions[i].due /\ u1 = ingestions'[i].due
        /\ c = CursorOf(MarksOf(i)) /\ c1 = CursorOf(MarksOf(i)')
  OBVIOUS
<1>t. /\ pc \in [Replicas -> Steps] /\ job \in [Replicas -> Job] /\ job[r] \in Job
      /\ ingestions \in [Ids -> Row] /\ i \in Ids /\ ingestions[i] \in Row
      /\ ingestions[i].present /\ ingestions[i].open /\ TypeOK
  BY DEF Inv, TypeOK, OpenIds, IsOpen, OpenIsPresent
<1>b. d \in BOOLEAN /\ d1 \in BOOLEAN
  <2>1. TypeOK'
    <3>1. [Next]_vars
      BY DEF Next
    <3> QED
      BY <3>1, NextInv DEF Inv
  <2> QED
    BY <1>i, <1>t, <2>1 DEF TypeOK, Job
<1>a. a \in OpenActions
  BY <1>i DEF StuckInv
<1>o. /\ p \notin WithoutRecord => job[r].ingestion = i
      /\ p \in TrySteps => a = "ingest"
      /\ p = "setProviderIngesting" => a = "backoff"
  <2>1. p \in TrySteps \cup {"setProviderIngesting"} => p \notin WithoutRecord
    BY DEF TrySteps, WithoutRecord
  <2>2. p \notin WithoutRecord =>
           /\ job[r].ingestion = i
           /\ pc[r] \in TrySteps => ingestions[i].nextAction = "ingest"
           /\ pc[r] = "setProviderIngesting" => ingestions[i].nextAction = "backoff"
    BY <1>i, OpenJob
  <2> QED
    BY <1>i, <2>1, <2>2
<1>g. ASSUME NEW step, Goto(r, step) PROVE p1 = step
  BY <1>i, <1>t, <1>g DEF Goto
<1>e. EndTick(r) => p1 = "idle"
  BY <1>g DEF EndTick
<1>c. p # "createMark" => c1 = c
  <2>1. [Next]_vars
    BY DEF Next
  <2>2. p # "createMark" => \A x \in Replicas : ~createMark(x)
    BY <1>i DEF createMark
  <2> QED
    BY <1>i, <2>1, <2>2, CursorMoves
<1>s. StageOf(p1, d1, a1) < StageOf(p, d, a) => Lessens(r, i)
  BY <1>i DEF Lessens
<1>l. /\ StageOf(p1, d1, a1) = StageOf(p, d, a) /\ u1 = u /\ p # "createMark"
      /\ CallsFrom(p1) < CallsFrom(p)
      => Lessens(r, i)
  BY <1>i, <1>c DEF Lessens
<1>1. CASE getCurrentAction(r)
  <2>1. p = "getCurrentAction" /\ u1 = u /\ a1 = a
    BY <1>i, <1>1 DEF getCurrentAction, db
  <2>2. CASE EndTick(r) /\ Branch(ingestions[i]) = "idle"
    <3>1. p1 = "idle"
      BY <1>e, <2>2
    <3>2. StageOf(p1, d1, a1) = StageOf(p, d, a) /\ CallsFrom(p1) = CallsFrom(p)
      BY <2>1, <3>1 DEF StageOf, CallsFrom, MarkedSteps
    <3> QED
      BY <1>i, <1>c, <1>1, <2>1, <2>2, <3>2 DEF Leaves
  <2>3. CASE Goto(r, Branch(ingestions[i])) /\ Branch(ingestions[i]) # "idle"
    <3>1. p1 = Branch(ingestions[i])
      BY <1>g, <2>3
    <3>2. p1 \in {"clearFinishedIngestions", "setProviderBursting", "setProviderIngesting",
                  "setProviderCanceled"}
      BY <3>1, <2>3 DEF Branch
    <3>3. StageOf(p1, d1, a1) = StageOf(p, d, a) /\ CallsFrom(p1) = 4 /\ CallsFrom(p) = 5
      BY <2>1, <3>2 DEF StageOf, CallsFrom, MarkedSteps
    <3> QED
      BY <1>l, <2>1, <3>3
  <2>4. \E k \in OpenIds : IF Branch(ingestions[k]) = "idle" THEN EndTick(r)
                           ELSE Goto(r, Branch(ingestions[k]))
    BY <1>1 DEF getCurrentAction
  <2>5. \A k \in OpenIds : k = i
    BY DEF Inv, OneOpenRecord
  <2> QED
    BY <2>2, <2>3, <2>4, <2>5
<1>2. CASE createProviderIngestionRecord(r)
  <2>1. p = "createProviderIngestionRecord" /\ EndTick(r) /\ ingestions' = ingestions
    BY <1>i, <1>2 DEF createProviderIngestionRecord, UniqueIndexAllows
  <2>2. p1 = "idle" /\ a1 = a /\ u1 = u
    BY <1>i, <1>e, <2>1
  <2>3. StageOf(p1, d1, a1) = StageOf(p, d, a) /\ CallsFrom(p1) = 5 /\ CallsFrom(p) = 6
    BY <2>1, <2>2 DEF StageOf, CallsFrom, MarkedSteps
  <2> QED
    BY <1>l, <2>1, <2>2, <2>3
<1>3. CASE clearFinishedIngestions(r)
  <2>1. p = "clearFinishedIngestions" /\ p1 = "setProviderComplete"
    BY <1>i, <1>g, <1>3 DEF clearFinishedIngestions
  <2>2. ingestions'[i] = ingestions[i]
    BY <1>t, <1>3 DEF clearFinishedIngestions, KeptRows, Closed
  <2>3. StageOf(p1, d1, a1) = StageOf(p, d, a) /\ CallsFrom(p1) = 3 /\ CallsFrom(p) = 4
    BY <1>i, <2>1, <2>2 DEF StageOf, CallsFrom, MarkedSteps
  <2> QED
    BY <1>i, <1>l, <2>1, <2>2, <2>3
<1>4. CASE setProviderComplete(r) \/ setProviderCanceled(r)
  <2>1. job[r].ingestion = i
    BY <1>i, <1>o, <1>4 DEF setProviderComplete, setProviderCanceled, WithoutRecord
  <2>2. PICK n \in NextActions :
          updateIngestionRecordById(i, [ingestions[i] EXCEPT !.nextAction = n,
              !.restCompleted = TRUE, !.status = "complete", !.open = FALSE])
    BY <1>4, <2>1 DEF setProviderComplete, setProviderCanceled, NextActions
  <2> DEFINE row == [ingestions[i] EXCEPT !.nextAction = n, !.restCompleted = TRUE,
                       !.status = "complete", !.open = FALSE]
  <2>3. row \in Row /\ ~row.open
    <3>1. "complete" \in Statuses
      BY DEF Statuses
    <3>2. row \in Row
      BY <1>t, <3>1, RowUpdates
    <3> QED
      BY <1>t, <3>2 DEF Row
  <2>4. ingestions'[i] = row
    BY <2>2, <2>3, RowWritten
  <2> QED
    BY <2>3, <2>4 DEF OpenIds, IsOpen
<1>5. CASE setProviderIngesting(r)
  <2> DEFINE row == [ingestions[i] EXCEPT !.nextAction = "ingest"]
  <2>1. p = "setProviderIngesting" /\ p1 = "idle" /\ a = "backoff" /\ job[r].ingestion = i
    BY <1>i, <1>e, <1>o, <1>5 DEF setProviderIngesting, WithoutRecord
  <2>2. row \in Row /\ row.nextAction = "ingest"
    BY <1>t DEF Row, NextActions
  <2>3. ingestions'[i] = row
    BY <1>5, <2>1, <2>2, RowWritten DEF setProviderIngesting
  <2>4. a1 = "ingest"
    BY <1>i, <2>2, <2>3
  <2>5. StageOf(p, d, a) = 3 /\ StageOf(p1, d1, a1) = 2
    BY <2>1, <2>4, <1>b, Stages DEF MarkedSteps
  <2> QED
    BY <1>s, <2>5
<1>6. CASE setProviderBursting(r)
  <2> DEFINE row == [ingestions[i] EXCEPT !.status = "bursting"]
  <2>1. p = "setProviderBursting" /\ p1 = "getLastMark" /\ job[r].ingestion = i
    BY <1>i, <1>g, <1>o, <1>6 DEF setProviderBursting, WithoutRecord
  <2>2. row \in Row /\ row.nextAction = a /\ row.due = u
    BY <1>i, <1>t DEF Row, Statuses
  <2>3. ingestions'[i] = row
    BY <1>6, <2>1, <2>2, RowWritten DEF setProviderBursting
  <2>4. a1 = a /\ u1 = u
    BY <1>i, <2>2, <2>3
  <2>5. StageOf(p1, d1, a1) = StageOf(p, d, a) /\ CallsFrom(p1) = 3 /\ CallsFrom(p) = 4
    BY <2>1, <2>4 DEF StageOf, CallsFrom, MarkedSteps
  <2> QED
    BY <1>l, <2>1, <2>4, <2>5
<1>7. CASE getLastMark(r)
  <2>1. p = "getLastMark" /\ p1 = "next" /\ a1 = a /\ u1 = u
    BY <1>i, <1>g, <1>7 DEF getLastMark, db
  <2>2. StageOf(p1, d1, a1) = StageOf(p, d, a) /\ CallsFrom(p1) = 2 /\ CallsFrom(p) = 3
    BY <2>1 DEF StageOf, CallsFrom, MarkedSteps
  <2> QED
    BY <1>l, <2>1, <2>2
<1>8. CASE next(r)
  <2>1. p = "next" /\ p1 = "createMark" /\ a1 = a /\ u1 = u
    BY <1>i, <1>g, <1>8 DEF next, db
  <2>2. StageOf(p1, d1, a1) = StageOf(p, d, a) /\ CallsFrom(p1) = 1 /\ CallsFrom(p) = 2
    BY <2>1 DEF StageOf, CallsFrom, MarkedSteps
  <2> QED
    BY <1>l, <2>1, <2>2
<1>9. CASE createMark(r)
  <2>1. /\ p = "createMark" /\ p1 \in MarkedSteps /\ a1 = a /\ u1 = u /\ d1 = d /\ a = "ingest"
        /\ d => p1 # "computeRemoved"
    <3>1. p = "createMark" /\ ingestions' = ingestions /\ job' = job
      BY <1>i, <1>9 DEF createMark
    <3>2. p1 \in MarkedSteps
      BY <1>g, <1>9 DEF createMark, AfterEntities, MarkedSteps
    <3> QED
      BY <1>i, <1>g, <1>o, <1>9, <3>1, <3>2
      DEF createMark, AfterEntities, MarkedSteps, TrySteps
  <2>2. CASE d
    <3>1. StageOf(p, d, a) = 2
      BY <2>1, <1>b, Stages DEF MarkedSteps
    <3>2. p1 \in MarkedSteps \cup {"settle"} /\ d1
      BY <2>1, <2>2
    <3>3. StageOf(p1, d1, "ingest") = 1
      BY <3>2, LastStage
    <3> QED
      BY <1>s, <2>1, <3>1, <3>3
  <2>3. CASE ~d
    <3>1. StageOf(p1, d1, a1) = StageOf(p, d, a)
      BY <2>1, <2>3, <1>b, Stages DEF MarkedSteps
    <3>2. [Next]_vars
      BY DEF Next
    <3>3. c1 = c + 1 /\ c \in Nat
      <4>1. c1 = job[r].cursor /\ job[r].cursor = c + 1
        BY <1>i, <1>9, <2>3, <3>2, CursorMoves
      <4>2. c \in Nat
        <5>1. MarksOf(i) # {} => \E m \in MarksOf(i) : CursorOf(MarksOf(i)) = m.cursor
          <6>1. ASSUME MarksOf(i) # {}
                PROVE  \E m \in MarksOf(i) : CursorOf(MarksOf(i)) = m.cursor
            <7>1. PICK m \in MarksOf(i) : \A n \in MarksOf(i) : n.sequence <= m.sequence
              BY <1>t, <6>1 DEF StuckInv, HasLast
            <7>2. Agrees(MarksOf(i)) /\ \A n \in MarksOf(i) : n.sequence \in Nat
              BY <1>t, MarkNumbers DEF FollowInv
            <7> QED
              BY <7>1, <7>2, CursorIs
          <6> QED
            BY <6>1
        <5> QED
          BY <1>i, <1>t, <5>1, MarkNumbers DEF CursorOf
      <4> QED
        BY <4>1, <4>2
    <3> QED
      BY <1>i, <2>1, <3>1, <3>3 DEF Lessens
  <2> QED
    BY <2>2, <2>3
<1>10. CASE createMarkEntities(r)
  <2>1. /\ p = "createMarkEntities" /\ p1 \in {"applyMutation", "computeRemoved"}
        /\ a1 = a /\ u1 = u /\ d1 = d
    BY <1>i, <1>g, <1>10 DEF createMarkEntities, AfterEntities
  <2>2. StageOf(p1, d1, a1) = StageOf(p, d, a)
    BY <2>1 DEF StageOf, MarkedSteps
  <2>3. CallsFrom(p1) < CallsFrom(p)
    BY <2>1 DEF CallsFrom
  <2> QED
    BY <1>l, <2>1, <2>2, <2>3
<1>11. CASE computeRemovedStep(r)
  <2>1. p = "computeRemoved" /\ p1 = "applyMutation" /\ a1 = a /\ u1 = u /\ d1 = d
    BY <1>i, <1>t, <1>g, <1>11 DEF computeRemovedStep, db, Job
  <2>2. StageOf(p1, d1, a1) = StageOf(p, d, a) /\ CallsFrom(p1) = 7 /\ CallsFrom(p) = 8
    BY <2>1 DEF StageOf, CallsFrom, MarkedSteps
  <2> QED
    BY <1>l, <2>1, <2>2
<1>12. CASE applyMutation(r)
  <2>1. p = "applyMutation" /\ a1 = a /\ u1 = u /\ a = "ingest"
    BY <1>i, <1>o, <1>12 DEF applyMutation, db, TrySteps
  <2>2. CASE Goto(r, "settle") /\ job' = [job EXCEPT ![r] = PageDone(job[r])]
    <3>1. p1 = "settle" /\ d1 = d
      BY <1>i, <1>t, <1>g, <2>2 DEF PageDone, Job
    <3>2. StageOf(p1, d1, a1) = StageOf(p, d, a) /\ CallsFrom(p1) = 6 /\ CallsFrom(p) = 7
      BY <2>1, <3>1 DEF StageOf, CallsFrom, MarkedSteps
    <3> QED
      BY <1>l, <2>1, <3>2
  <2>3. CASE Goto(r, "next") /\ ~d
    <3>1. p1 = "next"
      BY <1>g, <2>3
    <3>2. StageOf(p1, d1, a1) = StageOf(p, d, a)
      BY <2>1, <2>3, <3>1, <1>b, Stages DEF MarkedSteps
    <3>3. CallsFrom(p1) = 2 /\ CallsFrom(p) = 7
      BY <2>1, <3>1 DEF CallsFrom
    <3> QED
      BY <1>l, <2>1, <3>2, <3>3
  <2> QED
    BY <1>i, <1>12, <2>2, <2>3 DEF applyMutation
<1>13. CASE settle(r) /\ d
  <2> DEFINE row == [ingestions[i] EXCEPT !.nextAction = "rest", !.due = FALSE,
                       !.status = "resting"]
  <2>1. p = "settle" /\ p1 = "idle" /\ a = "ingest" /\ job[r].ingestion = i
    BY <1>i, <1>e, <1>o, <1>13 DEF settle, WithoutRecord, TrySteps
  <2>2. row \in Row /\ row.nextAction = "rest"
    BY <1>t DEF Row, NextActions, Statuses
  <2>3. ingestions'[i] = row
    BY <1>i, <1>13, <2>1, <2>2, RowWritten DEF settle, setProviderResting
  <2>4. a1 = "rest"
    BY <1>i, <2>2, <2>3
  <2>5. StageOf(p, d, "ingest") = 1
    <3>1. p \in MarkedSteps \cup {"settle"} /\ d
      BY <1>13, <2>1
    <3> QED
      BY <3>1, LastStage
  <2>6. StageOf(p1, d1, a1) = 0
    BY <1>b, <2>1, <2>4, Stages
  <2> QED
    BY <1>s, <2>1, <2>5, <2>6
<1>14. CASE settle(r) /\ ~d
  <2> DEFINE row == [ingestions[i] EXCEPT !.attempts = 0, !.status = "interstitial"]
  <2>1. p = "settle" /\ p1 = "idle" /\ a = "ingest" /\ job[r].ingestion = i
    BY <1>i, <1>e, <1>o, <1>14 DEF settle, WithoutRecord, TrySteps
  <2>2. row \in Row /\ row.nextAction = a /\ row.due = u
    BY <1>i, <1>t DEF Row, Statuses
  <2>3. ingestions'[i] = row
    BY <1>i, <1>14, <2>1, <2>2, RowWritten DEF settle, setProviderInterstitial
  <2>4. a1 = a /\ u1 = u
    BY <1>i, <2>2, <2>3
  <2>5. StageOf(p, d, a) = 2 /\ StageOf(p1, d1, a1) = 2
    BY <1>14, <2>1, <2>4, <1>b, Stages DEF MarkedSteps
  <2>6. CallsFrom(p1) = 5 /\ CallsFrom(p) = 6
    BY <2>1 DEF CallsFrom
  <2> QED
    BY <1>l, <2>1, <2>4, <2>5, <2>6
<1>15. CASE setProviderBackoff(r)
  <2> DEFINE row == [ingestions[i] EXCEPT !.nextAction = "backoff",
                       !.attempts = AttemptsAfterFailure(r), !.due = FALSE,
                       !.status = "backing off"]
  <2>1. p = "setProviderBackoff" /\ p1 = "idle" /\ job[r].ingestion = i
    BY <1>i, <1>e, <1>o, <1>15 DEF setProviderBackoff, WithoutRecord
  <2>2. AttemptsAfterFailure(r) \in Nat
    BY <1>t DEF AttemptsAfterFailure, Job
  <2>3. row \in Row /\ row.nextAction = "backoff"
    BY <1>t, <2>2 DEF Row, NextActions, Statuses
  <2>4. ingestions'[i] = row
    BY <1>15, <2>1, <2>3, RowWritten DEF setProviderBackoff
  <2>5. a1 = "backoff"
    BY <1>i, <2>3, <2>4
  <2>6. StageOf(p, d, a) = 4 /\ StageOf(p1, d1, a1) = 3
    BY <2>1, <2>5, <1>b, Stages
  <2> QED
    BY <1>s, <2>6
<1>16. CASE setProviderCanceling(r)
  <2> DEFINE row == [ingestions[i] EXCEPT !.nextAction = "cancel", !.due = TRUE,
                       !.status = "canceling"]
  <2>1. p = "setProviderCanceling" /\ p1 = "idle" /\ job[r].ingestion = i
    BY <1>i, <1>e, <1>o, <1>16 DEF setProviderCanceling, WithoutRecord
  <2>2. row \in Row /\ row.nextAction = "cancel"
    BY <1>t DEF Row, NextActions, Statuses
  <2>3. ingestions'[i] = row
    BY <1>16, <2>1, <2>2, RowWritten DEF setProviderCanceling
  <2>4. a1 = "cancel"
    BY <1>i, <2>2, <2>3
  <2>5. StageOf(p, d, a) = 4
    BY <2>1, <1>b, Stages
  <2>6. StageOf(p1, d1, a1) = 0
    BY <2>1, <2>4, <1>b, Stages
  <2> QED
    BY <1>s, <2>5, <2>6
<1> QED
  BY <1>1, <1>2, <1>3, <1>4, <1>5, <1>6, <1>7, <1>8, <1>9, <1>10, <1>11, <1>12, <1>13,
     <1>14, <1>15, <1>16
  DEF TaskStep

\* Every step of the engine and around it.
LEMMA NextEnds ==
  ASSUME Inv, SoleInv, StuckInv, FollowInv, NoOverlap, NoOverlap', Next,
         NEW i \in OpenIds, i \in OpenIds'
  PROVE  Less(Left(i)', Left(i)) \/ (Left(i)' = Left(i) /\ Pauses(i))
<1>t. /\ pc \in [Replicas -> Steps] /\ job \in [Replicas -> Job] /\ i \in Ids
      /\ ingestions \in [Ids -> Row] /\ faults \in Nat /\ MaxFaults \in Nat
  BY MaxFaultsAssumption DEF Inv, TypeOK, OpenIds
<1>n. (\A r \in Replicas : ~createMark(r)) => CursorOf(MarksOf(i)') = CursorOf(MarksOf(i))
  BY CursorMoves
<1>o. ASSUME NEW r \in Replicas, BeginTick(r) \/ TaskStep(r) \/ Fault(r)
      PROVE  /\ \A x \in Replicas \ {r} : pc[x] = "idle" /\ pc'[x] = "idle"
             /\ source' = source
  <2>1. /\ \A x \in Replicas \ {r} : pc'[x] = pc[x]
        /\ pc[r] # "idle" \/ pc'[r] # "idle"
        /\ source' = source
    BY <1>o, StepOfOne
  <2>2. \A x \in Replicas \ {r} : pc[x] = "idle" /\ pc'[x] = "idle"
    BY <2>1, OthersAreIdle
  <2> QED
    BY <2>1, <2>2
<1>1. ASSUME NEW r \in Replicas, TaskStep(r)
      PROVE  Less(Left(i)', Left(i)) \/ (Left(i)' = Left(i) /\ Pauses(i))
  <2>1. faults' = faults
    BY <1>1
    DEF TaskStep, getCurrentAction, createProviderIngestionRecord, clearFinishedIngestions,
        setProviderComplete, setProviderIngesting, setProviderCanceled,
        setProviderBursting, getLastMark, next, createMark, createMarkEntities,
        computeRemovedStep, applyMutation, settle, setProviderBackoff, setProviderCanceling
  <2>2. /\ Lessens(r, i) => Less(Left(i)', Left(i))
        /\ Leaves(r, i)  => Left(i)' = Left(i)
    BY <1>t, <1>o, <1>1, <2>1, LessensLeft
  <2>3. \/ Lessens(r, i)
        \/ Leaves(r, i) /\ getCurrentAction(r) /\ Branch(ingestions[i]) = "idle"
    BY <1>o, <1>1, TaskLessens
  <2> QED
    BY <2>2, <2>3 DEF Pauses
<1>2. ASSUME NEW r \in Replicas, BeginTick(r)
      PROVE  Left(i)' = Left(i) /\ Pauses(i)
  <2>1. /\ pc[r] = "idle" /\ pc'[r] = "getCurrentAction" /\ faults' = faults
        /\ ingestions' = ingestions /\ marks' = marks /\ job' = job
    BY <1>t, <1>2 DEF BeginTick, Goto, db
  <2>2. MarksOf(i)' = MarksOf(i)
    BY <2>1 DEF MarksOf
  <2>3. StageOf(pc[r], job[r].done, ingestions[i].nextAction)'
          = StageOf(pc[r], job[r].done, ingestions[i].nextAction)
    BY <2>1 DEF StageOf, MarkedSteps
  <2>4. CallsFrom(pc'[r]) = CallsFrom(pc[r])
    BY <2>1 DEF CallsFrom
  <2>5. Leaves(r, i)
    BY <2>1, <2>2, <2>3, <2>4 DEF Leaves
  <2>6. Left(i)' = Left(i)
    BY <1>t, <1>o, <1>2, <2>1, <2>5, LessensLeft
  <2> QED
    BY <1>2, <2>6 DEF Pauses
<1>3. ASSUME NEW r \in Replicas, Fault(r) PROVE Less(Left(i)', Left(i))
  <2>1. faults' = faults + 1
    BY <1>3 DEF Fault, Throw, ThrowCancel, TaskFails, Crash
  <2>2. PICK st, st1, w, w1, p, p1, ca, ca1 :
          /\ Left(i)  = <<MaxFaults - faults, st, w, p, ca>>
          /\ Left(i)' = <<MaxFaults - faults', st1, w1, p1, ca1>>
    BY <1>t, <1>o, <1>3, LeftOf
  <2>3. MaxFaults - faults' < MaxFaults - faults
    BY <1>t, <2>1
  <2>4. Less(<<MaxFaults - faults', st1, w1, p1, ca1>>, <<MaxFaults - faults, st, w, p, ca>>)
    BY <2>3, LessBy
  <2> QED
    BY <2>2, <2>4
<1>4. ASSUME UNCHANGED <<pc, job, marks, faults, source>>
      PROVE  LET w == Worker IN
             /\ Left(i) = <<MaxFaults - faults,
                            StageOf(pc[w], job[w].done, ingestions[i].nextAction),
                            WaitsLeft(i), Len(source) - CursorOf(MarksOf(i)), CallsFrom(pc[w])>>
             /\ Left(i)' = <<MaxFaults - faults,
                             StageOf(pc[w], job[w].done, ingestions'[i].nextAction),
                             WaitsLeft(i)', Len(source) - CursorOf(MarksOf(i)),
                             CallsFrom(pc[w])>>
  <2>1. MarksOf(i)' = MarksOf(i) /\ Worker' = Worker
    BY <1>4 DEF MarksOf, Worker
  <2> QED
    BY <1>4, <2>1 DEF Left, FaultsLeft, StagesLeft, PagesLeft, CallsLeft
<1>5. ASSUME NEW r \in Replicas, Expire(r) PROVE Left(i)' = Left(i) /\ Pauses(i)
  <2>1. UNCHANGED <<pc, job, marks, faults, source>> /\ ingestions' = ingestions
    BY <1>5 DEF Expire, db, engine
  <2>2. WaitsLeft(i)' = WaitsLeft(i)
    BY <2>1 DEF WaitsLeft
  <2> QED
    BY <1>4, <1>5, <2>1, <2>2 DEF Pauses
<1>6. CASE Elapse
  <2>1. UNCHANGED <<pc, job, marks, faults, source>>
    BY <1>6 DEF Elapse, engine
  <2>2. ingestions'[i].nextAction = ingestions[i].nextAction
    BY <1>6, <1>t, ElapsedRows
  <2>3. CASE ingestions'[i] = ingestions[i]
    <3>1. WaitsLeft(i)' = WaitsLeft(i)
      BY <2>3 DEF WaitsLeft
    <3> QED
      BY <1>4, <1>6, <2>1, <2>3, <3>1 DEF Pauses
  <2>4. CASE ingestions'[i] # ingestions[i]
    <3>1. ~ingestions[i].due /\ ingestions'[i].due
      BY <1>6, <1>t, <2>4 DEF Elapse, Row
    <3>2. WaitsLeft(i) = 1 /\ WaitsLeft(i)' = 0
      BY <3>1 DEF WaitsLeft
    <3>3. PICK f, st, p, ca : /\ Left(i)  = <<f, st, WaitsLeft(i), p, ca>>
                              /\ Left(i)' = <<f, st, WaitsLeft(i)', p, ca>>
      BY <1>4, <2>1, <2>2
    <3>4. Less(<<f, st, 0, p, ca>>, <<f, st, 1, p, ca>>)
      BY LessBy
    <3> QED
      BY <3>2, <3>3, <3>4
  <2> QED
    BY <2>3, <2>4
<1>7. ~SourceChanges
  BY DEF SourceChanges
<1> QED
  BY <1>1, <1>2, <1>3, <1>5, <1>6, <1>7 DEF Next

LEMMA LeftCounted ==
  ASSUME Inv, PageInv, StuckInv, FollowInv
  PROVE  LeftIsCounted
<1> SUFFICES ASSUME NEW i \in OpenIds
             PROVE  Left(i) \in Nat \X Nat \X Nat \X Nat \X Nat
  BY DEF LeftIsCounted
<1>1. FaultsLeft \in Nat
  BY MaxFaultsAssumption DEF FaultsLeft, Inv, TypeOK
<1>2. \A step, done, action : StageOf(step, done, action) \in Nat
  BY DEF StageOf
<1>3. \A step : CallsFrom(step) \in Nat
  BY DEF CallsFrom
<1>4. PagesLeft(i) \in Nat
  <2>1. i \in Ids /\ Len(source) \in Nat /\ HasLast(MarksOf(i)) /\ Agrees(MarksOf(i))
    BY SourceLength DEF OpenIds, StuckInv, FollowInv
  <2>2. \A m \in MarksOf(i) : m.sequence \in Nat /\ m.cursor \in Nat /\ m.cursor <= Len(source)
    BY <2>1, MarkNumbers DEF PageInv, MarksCovered, MarkCovered
  <2>3. CASE MarksOf(i) = {}
    BY <2>1, <2>3 DEF PagesLeft, CursorOf
  <2>4. CASE MarksOf(i) # {}
    <3>1. PICK m \in MarksOf(i) : \A n \in MarksOf(i) : n.sequence <= m.sequence
      BY <2>1, <2>4 DEF HasLast
    <3>2. CursorOf(MarksOf(i)) = m.cursor
      BY <2>1, <2>2, <3>1, CursorIs
    <3> QED
      BY <2>1, <2>2, <3>2 DEF PagesLeft
  <2> QED
    BY <2>3, <2>4
<1> QED
  BY <1>1, <1>2, <1>3, <1>4 DEF Left, StagesLeft, WaitsLeft, CallsLeft

\* While no burst outlives its lock, whatever happens to an open ingestion brings it
\* nearer to its end: a failure uses up one of those there are, every call of a task
\* one of the calls up to the next mark, every mark a page, every wait that is over
\* the wait; only a tick that begins, or comes before the wait is over, and a lock
\* that expires leave it where it is.  What is left is a tuple of numbers, so that it
\* cannot go on for ever: KeepsCycling but for the fairness.
THEOREM CyclesEnd == Spec /\ []NoOverlap => ComesToAnEnd /\ []LeftIsCounted
<1>1. Init => Inv /\ PageInv /\ SoleInv /\ StuckInv /\ FollowInv
  BY InitInv, InitPageInv, InitSole, InitStuck, InitFollow
<1>2. Inv /\ PageInv /\ SoleInv /\ StuckInv /\ FollowInv /\ NoOverlap /\ NoOverlap' /\ [Next]_vars
        => (Inv /\ PageInv /\ SoleInv /\ StuckInv /\ FollowInv)'
  BY NextInv, NextPageInv, NextSole, NextStuck, NextFollow
<1>3. Inv /\ PageInv /\ StuckInv /\ FollowInv => LeftIsCounted
  BY LeftCounted
<1>4. Inv /\ SoleInv /\ StuckInv /\ FollowInv /\ NoOverlap /\ NoOverlap' /\ [Next]_vars
        => [\A i \in OpenIds \cap OpenIds' :
               \/ Less(Left(i)', Left(i))
               \/ Left(i)' = Left(i) /\ Pauses(i)]_vars
  BY NextEnds
<1> QED
  BY <1>1, <1>2, <1>3, <1>4, PTL DEF Spec, ComesToAnEnd

-----------------------------------------------------------------------------
(* What a fault costs.                                                     *)

\* The page k is in the catalog and no sweep takes it away, or a task has its mark
\* and will see to the rest.
Saved(i, k) == source[k] \subseteq catalog \cap MarkedRefs(i)
Held(i, k)  == \E r \in Replicas : /\ pc[r] \in MarkedSteps
                                   /\ job[r].ingestion = i
                                   /\ job[r].cursor = k
HasMark(i, k) == \E m \in MarksOf(i) : m.cursor = k

\* The pages of S are what the faults have cost.
SafeBut(i, S) ==
    \A k \in (1..Len(source)) \ S : HasMark(i, k) => Saved(i, k) \/ Held(i, k)
CostOfFaults(i) ==
    \E S : IsFiniteSet(S) /\ Cardinality(S) <= faults /\ SafeBut(i, S)

\* What a task holds of its page until it is committed: the page itself; an empty mark
\* that is its own; and then a mark with the page's entities.
JobHolds(r) ==
    LET j == job[r] IN
    /\ pc[r] \in MarkedSteps \cup {"createMark"} /\ j.cursor \in 1..Len(source) =>
          j.batch = source[j.cursor]
    /\ pc[r] = "createMarkEntities" =>
          /\ \E m \in marks : IsMarkOf(m, r)
          /\ \A m \in marks : IsMarkOf(m, r) => m.refs = {}
    /\ pc[r] \in {"computeRemoved", "applyMutation"} =>
          j.batch \subseteq MarkedRefs(j.ingestion)

FaultInv == /\ \A r \in Replicas : JobHolds(r)
            /\ \A i \in OpenIds : CostOfFaults(i)

\* A step that costs no page.
SavedStays(i)  == \A k \in 1..Len(source) : Saved(i, k) => Saved(i, k)'
HeldStays(i)   == \A k \in 1..Len(source) : Held(i, k) => Held(i, k)' \/ Saved(i, k)'
MarkedIsHeld(i) == \A k \in 1..Len(source) : HasMark(i, k)' => HasMark(i, k) \/ Held(i, k)'
CostsNothing(i) == SavedStays(i) /\ HeldStays(i) /\ MarkedIsHeld(i)

LEMMA CostStays ==
  ASSUME NEW i, CostsNothing(i), source' = source, faults' = faults, CostOfFaults(i)
  PROVE  CostOfFaults(i)'
<1>1. PICK S : IsFiniteSet(S) /\ Cardinality(S) <= faults /\ SafeBut(i, S)
  BY DEF CostOfFaults
<1>2. ASSUME NEW k \in (1..Len(source)) \ S, HasMark(i, k)'
      PROVE  Saved(i, k)' \/ Held(i, k)'
  BY <1>1, <1>2 DEF SafeBut, CostsNothing, SavedStays, HeldStays, MarkedIsHeld
<1>3. \A k \in (1..Len(source')) \ S : HasMark(i, k)' => Saved(i, k)' \/ Held(i, k)'
  BY <1>2
<1>4. SafeBut(i, S)'
  BY <1>3 DEF SafeBut
<1> QED
  BY <1>1, <1>4 DEF CostOfFaults

\* Whoever leaves marks, catalog and the page that is held as they are costs nothing.
LEMMA QuietCostsNothing ==
  ASSUME NEW i, MarksOf(i)' = MarksOf(i), catalog' = catalog, source' = source,
         \A r \in Replicas : pc[r] \in MarkedSteps =>
            pc'[r] \in MarkedSteps /\ job'[r].ingestion = job[r].ingestion
                                   /\ job'[r].cursor = job[r].cursor
  PROVE  CostsNothing(i)
<1>1. MarkedRefs(i)' = MarkedRefs(i)
  BY DEF MarkedRefs
<1>2. SavedStays(i)
  BY <1>1 DEF SavedStays, Saved
<1>3. HeldStays(i)
  BY DEF HeldStays, Held
<1>4. MarkedIsHeld(i)
  BY DEF MarkedIsHeld, HasMark
<1> QED
  BY <1>2, <1>3, <1>4 DEF CostsNothing

\* What a task holds follows it from its page to the commit.
LEMMA TaskStepHolds ==
  ASSUME Inv, SoleInv, FollowInv, NEW r \in Replicas, JobHolds(r), TaskStep(r),
         source' = source
  PROVE  JobHolds(r)'
<1> DEFINE i == job[r].ingestion
           c == job[r].cursor
           b == job[r].batch
<1>t. /\ pc \in [Replicas -> Steps] /\ job \in [Replicas -> Job] /\ marks \subseteq Mark
      /\ Len(source) \in Nat /\ JobSole(r) /\ JobFollows(r)
  BY SourceLength DEF Inv, TypeOK, SoleInv, JobsSole, FollowInv
<1>g. \A step : Goto(r, step) => pc'[r] = step
  BY <1>t DEF Goto
<1>n. pc'[r] \notin MarkedSteps \cup {"createMark"} => JobHolds(r)'
  BY DEF JobHolds, MarkedSteps
<1>1. CASE next(r)
  <2> DEFINE d == job[r].cursor
  <2>1. /\ pc'[r] = "createMark" /\ job'[r].batch = Page(d) /\ job'[r].cursor = After(d)
        /\ d \in Nat
    BY <1>1, <1>g, <1>t DEF next, Job
  <2>2. After(d) \in 1..Len(source) => Page(d) = source[After(d)]
    BY <2>1, <1>t DEF After, Page
  <2> QED
    BY <2>1, <2>2 DEF JobHolds, MarkedSteps
<1>2. CASE createMark(r)
  <2>1. /\ pc[r] = "createMark" /\ job' = job /\ marks' = marks \cup {NewMark(r)}
        /\ pc'[r] = IF b # {} THEN "createMarkEntities" ELSE AfterEntities(r)
    BY <1>2, <1>g DEF createMark, NewMark
  <2>2. c \in 1..Len(source) => b = source[c]
    BY <2>1 DEF JobHolds
  <2>3. CASE b = {}
    <3>1. pc'[r] # "createMarkEntities"
      BY <2>1, <2>3 DEF AfterEntities
    <3> QED
      BY <2>1, <2>2, <2>3, <3>1 DEF JobHolds, MarkedSteps
  <2>4. CASE b # {}
    <3>1. pc'[r] = "createMarkEntities"
      BY <2>1, <2>4
    <3>2. Above(MarksOf(i), job[r].sequence)
      BY <1>t, <2>1 DEF JobFollows, Follows
    <3>3. ASSUME NEW m \in marks, IsMarkOf(m, r) PROVE FALSE
      <4>1. m \in MarksOf(i) /\ m.sequence = job[r].sequence
        BY <3>3 DEF IsMarkOf, MarksOf
      <4>2. job[r].sequence \in Nat
        BY <1>t DEF Job
      <4> QED
        BY <3>2, <4>1, <4>2 DEF Above
    <3>4. NewMark(r) \in marks' /\ NewMark(r).refs = {} /\ IsMarkOf(NewMark(r), r)
      BY <2>1 DEF NewMark, IsMarkOf
    <3>5. \A m : IsMarkOf(m, r)' <=> IsMarkOf(m, r)
      BY <2>1 DEF IsMarkOf
    <3>6. /\ \E m \in marks' : IsMarkOf(m, r)'
          /\ \A m \in marks' : IsMarkOf(m, r)' => m.refs = {}
      BY <2>1, <3>3, <3>4, <3>5
    <3> QED
      BY <2>1, <2>2, <3>1, <3>6 DEF JobHolds
  <2> QED
    BY <2>3, <2>4
<1>3. CASE createMarkEntities(r)
  <2>1. /\ pc[r] = "createMarkEntities" /\ job' = job
        /\ marks' = {IF IsMarkOf(m, r) THEN [m EXCEPT !.refs = b] ELSE m : m \in marks}
        /\ pc'[r] \in {"computeRemoved", "applyMutation"}
    BY <1>3, <1>g DEF createMarkEntities, AfterEntities
  <2>2. c \in 1..Len(source) => b = source[c]
    BY <2>1 DEF JobHolds, MarkedSteps
  <2>3. PICK m \in marks : IsMarkOf(m, r)
    BY <2>1 DEF JobHolds
  <2> DEFINE w == [m EXCEPT !.refs = b]
  <2>4. w \in marks' /\ w.ingestion = i /\ w.refs = b
    BY <1>t, <2>1, <2>3 DEF IsMarkOf, Mark
  <2> HIDE DEF w
  <2>5. job'[r].batch \subseteq MarkedRefs(job[r].ingestion)'
    BY <2>1, <2>4 DEF MarkedRefs, MarksOf
  <2> QED
    BY <2>1, <2>2, <2>5 DEF JobHolds
<1>4. CASE computeRemovedStep(r)
  <2>1. /\ pc[r] = "computeRemoved" /\ pc'[r] = "applyMutation" /\ marks' = marks
        /\ job'[r].batch = b /\ job'[r].ingestion = i /\ job'[r].cursor = c
    BY <1>4, <1>g, <1>t DEF computeRemovedStep, db, Job
  <2>2. /\ c \in 1..Len(source) => b = source[c]
        /\ b \subseteq MarkedRefs(i)
    BY <2>1 DEF JobHolds, MarkedSteps
  <2>3. job'[r].batch \subseteq MarkedRefs(job[r].ingestion)'
    BY <2>1, <2>2 DEF MarkedRefs, MarksOf
  <2> QED
    BY <2>1, <2>2, <2>3 DEF JobHolds
<1>5. CASE applyMutation(r)
  <2>1. pc'[r] \in {"settle", "next"}
    BY <1>5, <1>g DEF applyMutation
  <2> QED
    BY <1>n, <2>1 DEF MarkedSteps
<1>6. CASE \/ createProviderIngestionRecord(r) \/ clearFinishedIngestions(r)
           \/ setProviderComplete(r) \/ setProviderIngesting(r) \/ setProviderCanceled(r)
           \/ setProviderBursting(r) \/ getLastMark(r) \/ settle(r)
           \/ setProviderBackoff(r) \/ setProviderCanceling(r)
  <2>1. pc'[r] \in {"idle", "setProviderBursting", "setProviderComplete", "getLastMark",
                    "next"}
    BY <1>6, <1>g
    DEF createProviderIngestionRecord, clearFinishedIngestions, setProviderComplete,
        setProviderIngesting, setProviderCanceled, setProviderBursting, getLastMark,
        settle, setProviderBackoff, setProviderCanceling, EndTick
  <2> QED
    BY <1>n, <2>1 DEF MarkedSteps
<1>7. CASE getCurrentAction(r)
  <2>1. \A row : Branch(row) \notin MarkedSteps \cup {"createMark"}
    BY DEF Branch, MarkedSteps
  <2>2. pc'[r] \notin MarkedSteps \cup {"createMark"}
    BY <1>7, <1>g, <2>1 DEF getCurrentAction, EndTick, MarkedSteps
  <2> QED
    BY <1>n, <2>2
<1> QED
  BY <1>1, <1>2, <1>3, <1>4, <1>5, <1>6, <1>7 DEF TaskStep
\* A step of a task that works alone costs an open ingestion nothing.
LEMMA TaskCostsNothing ==
  ASSUME Inv, SoleInv, FollowInv, NEW r \in Replicas, JobHolds(r), TaskStep(r),
         \A x \in Replicas \ {r} : pc[x] = "idle" /\ pc'[x] = "idle",
         source' = source, NEW i \in OpenIds
  PROVE  CostsNothing(i)
<1> DEFINE c == job[r].cursor
           b == job[r].batch
<1>t. /\ pc \in [Replicas -> Steps] /\ job \in [Replicas -> Job] /\ marks \subseteq Mark
      /\ Len(source) \in Nat /\ JobSole(r) /\ i \in Ids /\ catalog \subseteq Entities
  BY SourceLength DEF Inv, TypeOK, SoleInv, JobsSole, OpenIds
<1>g. \A step : Goto(r, step) => pc'[r] = step
  BY <1>t DEF Goto
<1>i. pc[r] \notin WithoutRecord => job[r].ingestion = i
  BY OpenJob
<1>o. \A k : Held(i, k) => pc[r] \in MarkedSteps /\ c = k
  BY DEF Held, MarkedSteps
<1>1. CASE createMark(r)
  <2>1. /\ pc[r] = "createMark" /\ job' = job /\ marks' = marks \cup {NewMark(r)}
        /\ pc'[r] = IF b # {} THEN "createMarkEntities" ELSE AfterEntities(r)
        /\ catalog' = catalog
    BY <1>1, <1>g DEF createMark, NewMark
  <2>2. job[r].ingestion = i /\ pc'[r] \in MarkedSteps
    BY <1>i, <2>1 DEF WithoutRecord, AfterEntities, MarkedSteps
  <2>3. /\ MarksOf(i)' = MarksOf(i) \cup {NewMark(r)}
        /\ NewMark(r).cursor = c /\ NewMark(r).refs = {}
    BY <1>1, <1>t, <2>2, MarkAdded DEF NewMark
  <2>4. MarkedRefs(i)' = MarkedRefs(i)
    BY <2>3 DEF MarkedRefs
  <2>5. SavedStays(i)
    BY <2>1, <2>4 DEF SavedStays, Saved
  <2>6. HeldStays(i)
    BY <1>o, <2>1 DEF HeldStays, MarkedSteps
  <2>7. \A k : k = c => Held(i, k)'
    BY <2>1, <2>2 DEF Held
  <2>8. MarkedIsHeld(i)
    BY <2>3, <2>7 DEF MarkedIsHeld, HasMark
  <2> QED
    BY <2>5, <2>6, <2>8 DEF CostsNothing
<1>2. CASE createMarkEntities(r)
  <2> DEFINE w(m) == IF IsMarkOf(m, r) THEN [m EXCEPT !.refs = b] ELSE m
  <2>1. /\ pc[r] = "createMarkEntities" /\ job' = job /\ catalog' = catalog
        /\ marks' = {w(m) : m \in marks} /\ pc'[r] \in MarkedSteps
    BY <1>2, <1>g DEF createMarkEntities, AfterEntities, MarkedSteps
  <2>2. ASSUME NEW m \in marks
        PROVE  /\ w(m).ingestion = m.ingestion /\ w(m).cursor = m.cursor
               /\ m.refs \subseteq w(m).refs
    <3>1. IsMarkOf(m, r) => m.refs = {}
      BY <2>1 DEF JobHolds
    <3>2. m \in Mark
      BY <1>t
    <3> QED
      BY <3>1, <3>2 DEF Mark
  <2> HIDE DEF w
  <2>3. \A m \in MarksOf(i) : w(m) \in MarksOf(i)' /\ m.refs \subseteq w(m).refs
    BY <2>1, <2>2 DEF MarksOf
  <2>4. MarkedRefs(i) \subseteq MarkedRefs(i)'
    BY <2>3 DEF MarkedRefs
  <2>5. SavedStays(i)
    BY <2>1, <2>4 DEF SavedStays, Saved
  <2>6. HeldStays(i)
    BY <1>o, <2>1 DEF HeldStays, Held
  <2>7. \A n \in MarksOf(i)' : \E m \in MarksOf(i) : m.cursor = n.cursor
    BY <2>1, <2>2 DEF MarksOf
  <2>8. MarkedIsHeld(i)
    BY <2>7 DEF MarkedIsHeld, HasMark
  <2> QED
    BY <2>5, <2>6, <2>8 DEF CostsNothing
<1>3. CASE applyMutation(r)
  <2> DEFINE gone == job[r].removed
  <2>1. /\ pc[r] = "applyMutation" /\ catalog' = (catalog \ gone) \cup b
        /\ marks' = marks /\ job[r].ingestion = i
    BY <1>3, <1>i DEF applyMutation, db, WithoutRecord
  <2>2. MarksOf(i)' = MarksOf(i) /\ MarkedRefs(i)' = MarkedRefs(i)
    BY <2>1 DEF MarksOf, MarkedRefs
  <2>3. gone \cap MarkedRefs(i) = {}
    BY <1>t, <2>1 DEF JobSole
  <2>4. SavedStays(i)
    BY <2>1, <2>2, <2>3 DEF SavedStays, Saved
  <2>5. ASSUME NEW k \in 1..Len(source), Held(i, k) PROVE Saved(i, k)'
    <3>1. c = k /\ b = source[k] /\ b \subseteq MarkedRefs(i)
      BY <1>o, <2>1, <2>5 DEF JobHolds, MarkedSteps
    <3> QED
      BY <2>1, <2>2, <3>1 DEF Saved
  <2>6. HeldStays(i)
    BY <2>5 DEF HeldStays
  <2>7. MarkedIsHeld(i)
    BY <2>2 DEF MarkedIsHeld, HasMark
  <2> QED
    BY <2>4, <2>6, <2>7 DEF CostsNothing
<1>4. CASE computeRemovedStep(r)
  <2>1. /\ marks' = marks /\ catalog' = catalog /\ pc'[r] \in MarkedSteps
        /\ job'[r].ingestion = job[r].ingestion /\ job'[r].cursor = c
    BY <1>4, <1>g, <1>t DEF computeRemovedStep, db, Job, MarkedSteps
  <2>2. MarksOf(i)' = MarksOf(i)
    BY <2>1 DEF MarksOf
  <2>3. \A x \in Replicas : pc[x] \in MarkedSteps => x = r
    BY DEF MarkedSteps
  <2> QED
    BY <2>1, <2>2, <2>3, QuietCostsNothing
<1>5. CASE \/ getCurrentAction(r) \/ createProviderIngestionRecord(r)
           \/ clearFinishedIngestions(r) \/ setProviderComplete(r)
           \/ setProviderIngesting(r) \/ setProviderCanceled(r)
           \/ setProviderBursting(r) \/ getLastMark(r) \/ next(r) \/ settle(r)
           \/ setProviderBackoff(r) \/ setProviderCanceling(r)
  <2>1. /\ marks' = marks \/ marks' = KeptMarks
        /\ catalog' = catalog /\ pc[r] \notin MarkedSteps
    BY <1>5
    DEF getCurrentAction, createProviderIngestionRecord, clearFinishedIngestions,
        setProviderComplete, setProviderIngesting, setProviderCanceled,
        setProviderBursting, getLastMark, next, settle, setProviderBackoff,
        setProviderCanceling, db, MarkedSteps
  <2>2. MarksOf(i)' = MarksOf(i)
    BY <2>1 DEF MarksOf, KeptMarks, Closed, OpenIds, IsOpen
  <2>3. \A x \in Replicas : pc[x] \notin MarkedSteps
    BY <2>1 DEF MarkedSteps
  <2> QED
    BY <2>1, <2>2, <2>3, QuietCostsNothing
<1> QED
  BY <1>1, <1>2, <1>3, <1>4, <1>5 DEF TaskStep

\* A fault costs the page that its task held.
LEMMA FaultCosts ==
  ASSUME Inv, SoleInv, NEW r \in Replicas, Fault(r),
         \A x \in Replicas \ {r} : pc[x] = "idle" /\ pc'[x] = "idle",
         NEW i \in OpenIds, CostOfFaults(i)
  PROVE  CostOfFaults(i)' /\ JobHolds(r)'
<1>t. pc \in [Replicas -> Steps] /\ faults \in Nat
  BY DEF Inv, TypeOK
<1>1. /\ marks' = marks /\ catalog' = catalog /\ source' = source /\ faults' = faults + 1
      /\ pc'[r] \in {"setProviderBackoff", "setProviderCanceling", "idle"}
  BY <1>t DEF Fault, Throw, ThrowCancel, TaskFails, Crash, EndTick, Goto, db
<1>2. JobHolds(r)'
  BY <1>1 DEF JobHolds, MarkedSteps
<1>3. PICK S : IsFiniteSet(S) /\ Cardinality(S) <= faults /\ SafeBut(i, S)
  BY DEF CostOfFaults
<1>c. PICK T : T = S \cup {job[r].cursor}
  OBVIOUS
<1>4. IsFiniteSet(T) /\ Cardinality(T) <= faults'
  <2>1. /\ IsFiniteSet(T)
        /\ Cardinality(T) = Cardinality(S) \/ Cardinality(T) = Cardinality(S) + 1
    BY <1>3, <1>c, FS_AddElement
  <2>2. Cardinality(S) \in Nat
    BY <1>3, FS_CardinalityType
  <2> QED
    BY <1>t, <1>1, <1>3, <2>1, <2>2
<1>5. MarksOf(i)' = MarksOf(i) /\ MarkedRefs(i)' = MarkedRefs(i)
  BY <1>1 DEF MarksOf, MarkedRefs
<1>6. ASSUME NEW k \in (1..Len(source)) \ T, HasMark(i, k)
      PROVE  Saved(i, k)'
  <2>1. Saved(i, k) \/ Held(i, k)
    BY <1>3, <1>c, <1>6 DEF SafeBut
  <2>2. ~Held(i, k)
    BY <1>c, <1>6 DEF Held, MarkedSteps
  <2> QED
    BY <1>1, <1>5, <2>1, <2>2 DEF Saved
<1>7. SafeBut(i, T)'
  BY <1>1, <1>5, <1>6 DEF SafeBut, HasMark
<1> QED
  BY <1>2, <1>4, <1>7 DEF CostOfFaults
\* Steps that move no task.
LEMMA StillCostsNothing ==
  ASSUME NEW i, marks' = marks, catalog' = catalog, source' = source, pc' = pc, job' = job
  PROVE  CostsNothing(i) /\ \A r \in Replicas : JobHolds(r) => JobHolds(r)'
<1>1. MarksOf(i)' = MarksOf(i)
  BY DEF MarksOf
<1>2. CostsNothing(i)
  BY <1>1, QuietCostsNothing
<1>3. \A r \in Replicas : JobHolds(r) => JobHolds(r)'
  BY DEF JobHolds, IsMarkOf, MarkedRefs, MarksOf
<1> QED
  BY <1>2, <1>3

LEMMA InitFault == Init => FaultInv
<1> SUFFICES ASSUME Init PROVE FaultInv
  OBVIOUS
<1>1. \A r \in Replicas : JobHolds(r)
  BY DEF Init, JobHolds, MarkedSteps
<1>2. OpenIds = {}
  BY DEF Init, OpenIds, IsOpen, NoRow
<1> QED
  BY <1>1, <1>2 DEF FaultInv

LEMMA NextFault ==
  Inv /\ SoleInv /\ FollowInv /\ FaultInv /\ NoOverlap /\ NoOverlap' /\ [Next]_vars
    => FaultInv'
<1> SUFFICES ASSUME Inv, SoleInv, FollowInv, FaultInv, NoOverlap, NoOverlap', [Next]_vars
             PROVE  FaultInv'
  OBVIOUS
<1>f. /\ \A r \in Replicas : JobHolds(r)
      /\ \A i \in OpenIds : CostOfFaults(i)
  BY DEF FaultInv
<1>n. \A r \in Replicas : pc'[r] = "idle" => JobHolds(r)'
  BY DEF JobHolds, MarkedSteps
<1>1. ASSUME NEW r \in Replicas, BeginTick(r) \/ TaskStep(r) \/ Fault(r)
      PROVE  FaultInv'
  <2>1. /\ \A x \in Replicas \ {r} : pc'[x] = pc[x]
        /\ pc[r] # "idle" \/ pc'[r] # "idle"
        /\ source' = source
    BY <1>1, StepOfOne
  <2>2. \A x \in Replicas \ {r} : pc[x] = "idle" /\ pc'[x] = "idle"
    BY <2>1, OthersAreIdle
  <2>3. JobHolds(r)'
    <3>1. CASE BeginTick(r)
      <4>1. pc'[r] = "getCurrentAction"
        BY <3>1 DEF BeginTick, Goto, Inv, TypeOK
      <4> QED
        BY <4>1 DEF JobHolds, MarkedSteps
    <3>2. CASE TaskStep(r)
      BY <1>f, <2>1, <3>2, TaskStepHolds
    <3>3. CASE Fault(r)
      <4>1. pc'[r] \in {"setProviderBackoff", "setProviderCanceling", "idle"}
        BY <3>3 DEF Fault, Throw, ThrowCancel, TaskFails, Crash, EndTick, Goto, Inv, TypeOK
      <4> QED
        BY <4>1 DEF JobHolds, MarkedSteps
    <3> QED
      BY <1>1, <3>1, <3>2, <3>3
  <2>4. ASSUME NEW i \in OpenIds PROVE CostOfFaults(i)'
    <3>1. CASE BeginTick(r)
      <4>1. /\ pc'[r] = "getCurrentAction" /\ pc[r] = "idle" /\ marks' = marks
            /\ catalog' = catalog /\ faults' = faults
        BY <3>1 DEF BeginTick, Goto, Inv, TypeOK, db
      <4>2. MarksOf(i)' = MarksOf(i)
        BY <4>1 DEF MarksOf
      <4>3. \A x \in Replicas : pc[x] \notin MarkedSteps
        BY <2>2, <4>1 DEF MarkedSteps
      <4>4. CostsNothing(i)
        BY <2>1, <4>1, <4>2, <4>3, QuietCostsNothing
      <4> QED
        BY <1>f, <2>1, <4>1, <4>4, CostStays
    <3>2. CASE TaskStep(r)
      <4>1. CostsNothing(i)
        BY <1>f, <2>1, <2>2, <3>2, TaskCostsNothing
      <4>2. faults' = faults
        BY <3>2
        DEF TaskStep, getCurrentAction, createProviderIngestionRecord,
            clearFinishedIngestions, setProviderComplete, setProviderIngesting,
            setProviderCanceled, setProviderBursting, getLastMark, next, createMark,
            createMarkEntities, computeRemovedStep, applyMutation, settle,
            setProviderBackoff, setProviderCanceling
      <4> QED
        BY <1>f, <2>1, <4>1, <4>2, CostStays
    <3>3. CASE Fault(r)
      BY <1>f, <2>2, <3>3, FaultCosts
    <3> QED
      BY <1>1, <3>1, <3>2, <3>3
  <2>5. ASSUME NEW i \in OpenIds' PROVE CostOfFaults(i)'
    <3>1. CASE RowsOnlyClose
      <4>1. i \in OpenIds
        BY <3>1 DEF RowsOnlyClose, OpenIds, IsOpen
      <4> QED
        BY <2>4, <4>1
    <3>2. ASSUME NEW q \in Replicas, RowCreated, createProviderIngestionRecord(q)
          PROVE  CostOfFaults(i)'
      <4>1. /\ i = NewId /\ NewId \in FreshIds /\ marks' = marks /\ faults' = faults
        BY <3>2, <2>5 DEF RowCreated, createProviderIngestionRecord, OpenIds, IsOpen, Inv, TypeOK
      <4>2. MarksOf(i)' = {}
        BY <4>1 DEF FreshIds, MarksOf
      <4>3. SafeBut(i, {})'
        BY <4>2 DEF SafeBut, HasMark
      <4>4. IsFiniteSet({}) /\ Cardinality({}) = 0 /\ faults \in Nat
        BY FS_EmptySet DEF Inv, TypeOK
      <4> QED
        BY <4>1, <4>3, <4>4 DEF CostOfFaults
    <3>3. [Next]_vars
      OBVIOUS
    <3> QED
      BY <3>1, <3>2, <3>3, NextRows
  <2> QED
    BY <1>n, <2>2, <2>3, <2>5 DEF FaultInv
<1>2. ASSUME UNCHANGED <<marks, catalog, source, pc, job, faults>>,
             \A i \in Ids : ingestions'[i].open => ingestions[i].open
      PROVE  FaultInv'
  <2>1. \A i : CostsNothing(i) /\ \A r \in Replicas : JobHolds(r) => JobHolds(r)'
    BY <1>2, StillCostsNothing
  <2>2. ASSUME NEW i \in OpenIds' PROVE CostOfFaults(i)'
    <3>1. i \in OpenIds
      BY <1>2, <2>2 DEF OpenIds, IsOpen
    <3> QED
      BY <1>2, <1>f, <2>1, <3>1, CostStays
  <2> QED
    BY <1>f, <2>1, <2>2 DEF FaultInv
<1>3. CASE \E r \in Replicas : Expire(r)
  BY <1>2, <1>3 DEF Expire, db, engine
<1>4. CASE Elapse
  <2>1. \A i \in Ids : ingestions'[i].open => ingestions[i].open
    BY <1>4 DEF Elapse, Inv, TypeOK, Row
  <2> QED
    BY <1>2, <1>4, <2>1 DEF Elapse, engine
<1>5. CASE UNCHANGED vars
  BY <1>2, <1>5 DEF vars
<1>6. CASE SourceChanges
  <2>1. OpenIds = {} /\ ingestions' = ingestions /\ pc' = pc /\ job' = job /\ marks' = marks
    BY <1>6 DEF SourceChanges, db, engine
  <2>2. \A r \in Replicas : pc[r] \in WithoutRecord
    BY <2>1 DEF SoleInv, JobsSole, JobSole
  <2>3. \A r \in Replicas : JobHolds(r)'
    BY <2>1, <2>2 DEF JobHolds, WithoutRecord, MarkedSteps
  <2>4. OpenIds' = {}
    BY <2>1 DEF OpenIds, IsOpen
  <2> QED
    BY <2>3, <2>4 DEF FaultInv
<1> QED
  BY <1>1, <1>3, <1>4, <1>5, <1>6 DEF Next

LEMMA CostIsBounded ==
  ASSUME Inv, FaultInv
  PROVE  FaultCostsOnePage
<1> SUFFICES ASSUME NEW i \in OpenIds PROVE Cardinality(LostPages(i)) <= faults
  BY DEF FaultCostsOnePage
<1>1. PICK S : IsFiniteSet(S) /\ Cardinality(S) <= faults /\ SafeBut(i, S)
  BY DEF FaultInv, CostOfFaults
<1>2. ASSUME NEW k \in LostPages(i) PROVE k \in S
  <2>1. SUFFICES ASSUME k \notin S PROVE FALSE
    OBVIOUS
  <2>2. k \in 1..Len(source) /\ HasMark(i, k) /\ ~(source[k] \subseteq catalog)
    BY DEF LostPages, HasMark
  <2>3. CASE Saved(i, k)
    BY <2>2, <2>3 DEF Saved
  <2>4. CASE Held(i, k)
    <3>1. PICK r \in Replicas : /\ pc[r] \in MarkedSteps
                                /\ job[r].ingestion = i /\ job[r].cursor = k
      BY <2>4 DEF Held
    <3>2. job[r].batch = source[k]
      BY <2>2, <3>1 DEF FaultInv, JobHolds
    <3> QED
      BY <3>1, <3>2 DEF LostPages
  <2> QED
    BY <1>1, <2>1, <2>2, <2>3, <2>4 DEF SafeBut
<1>3. Cardinality(LostPages(i)) <= Cardinality(S)
  BY <1>1, <1>2, FS_Subset
<1>4. Cardinality(LostPages(i)) \in Nat /\ Cardinality(S) \in Nat /\ faults \in Nat
  BY <1>1, <1>2, FS_Subset, FS_CardinalityType DEF Inv, TypeOK
<1> QED
  BY <1>1, <1>3, <1>4

\* While no burst outlives its lock, a fault costs the catalog one page at most: the
\* page that its task had marked and not committed.  createMark is the first write of
\* a page and applyMutation the last, and neither the retry, which goes on behind the
\* mark, nor a sweep takes away a page between whose mark and whose commit nothing
\* failed.
THEOREM FaultsCostOnePage == Spec /\ []NoOverlap => []FaultCostsOnePage
<1>1. Init => Inv /\ PageInv /\ SoleInv /\ StuckInv /\ FollowInv /\ FaultInv
  BY InitInv, InitPageInv, InitSole, InitStuck, InitFollow, InitFault
<1>2. Inv /\ PageInv /\ SoleInv /\ StuckInv /\ FollowInv /\ FaultInv
        /\ NoOverlap /\ NoOverlap' /\ [Next]_vars
        => (Inv /\ PageInv /\ SoleInv /\ StuckInv /\ FollowInv /\ FaultInv)'
  BY NextInv, NextPageInv, NextSole, NextStuck, NextFollow, NextFault
<1>3. Inv /\ FaultInv => FaultCostsOnePage
  BY CostIsBounded
<1> QED
  BY <1>1, <1>2, <1>3, PTL DEF Spec
=============================================================================
