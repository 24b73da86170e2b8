--------------------------- MODULE ScaffolderTask ---------------------------
(***************************************************************************)
(* Tasks of the scaffolder that run the actions of this repository:        *)
(* yaml:set, yaml:append, backend:add-annotation, humanitec:create-app.    *)
(*                                                                         *)
(* External: the scaffolder runs the steps of a task in order, in a        *)
(* workspace of its own, several tasks at a time, and ends a task with the *)
(* first step that throws.  fetch:plain copies the directory of a file of  *)
(* a repository over the workspace.                                        *)
(***************************************************************************)
EXTENDS YamlOperations, HumanitecCreateApp

CONSTANTS
    Files,      \* the files of one directory
    Repository, \* file -> its documents, or None
    Shared,     \* file -> the documents under its absolute path, or None
    Templates   \* the sequences of steps that a task may have

\* A file of the repository is a sequence of documents.
ASSUME RepositoryAssumption ==
    \A f \in Files : Repository[f] # None =>
        /\ Repository[f] \in Seq(ToSet(Repository[f]))
        /\ \A i \in DOMAIN Repository[f] : DOMAIN Repository[f][i] = {"entity", "contents"}

\* A task has steps; those that edit name a file and the keys of a path.
ASSUME TemplatesAssumption ==
    \A template \in Templates :
        /\ template \in Seq(ToSet(template)) /\ template # <<>>
        /\ \A step \in ToSet(template) : step.action # "humanitec:create-app" =>
                step.file \in Files /\ step.path \in Seq(ToSet(step.path))

\* A step runs one of these actions.
ASSUME ActionsAssumption ==
    \A template \in Templates : \A step \in ToSet(template) :
        step.action \in {"yaml:set", "yaml:append", "backend:add-annotation", "humanitec:create-app"}

\* What may be appended to is a sequence of nodes.
Appended == UNION {{step.path : step \in {s \in ToSet(template) : s.action = "yaml:append"}} :
                        template \in Templates}
HasItems(node) == node.kind = "seq" => node.items \in Seq(ToSet(node.items))

ASSUME ItemsAssumption ==
    \A f \in Files : Repository[f] # None =>
        \A i \in DOMAIN Repository[f] : \A path \in Appended :
            HasItems(getIn(Repository[f][i].contents, path))

VARIABLES
    steps,      \* task -> its steps
    at,         \* task -> the step that runs
    pc,         \* task -> what that step does next
    content,    \* task -> the documents that the step has read
    status,     \* task -> "processing", "completed" or "failed"
    workspace,  \* task -> file -> documents
    shared,     \* file -> documents
    docs,       \* task -> the workspace has a directory docs
    edits       \* history: task -> the edits of its workspace that nothing may undo

taskVars == <<steps, at, pc, content, status, workspace, shared, docs, edits>>
vars == <<taskVars, createVars>>

Step(t) == steps[t][at[t]]

Init ==
    /\ CreateInit
    /\ steps \in [Runs -> Templates]
    /\ at = [t \in Runs |-> 1]
    /\ pc = [t \in Runs |-> "start"]
    /\ content = [t \in Runs |-> None]
    /\ status = [t \in Runs |-> "processing"]
    /\ workspace = [t \in Runs |-> [f \in Files |-> None]]
    /\ shared = Shared
    /\ docs = [t \in Runs |-> FALSE]
    /\ edits = [t \in Runs |-> {}]

-----------------------------------------------------------------------------
(* What a step does to its task.                                           *)

Running(t, action, label) ==
    /\ status[t] = "processing" /\ pc[t] = label
    /\ Step(t).action \in action

Goto(t, label) == pc' = [pc EXCEPT ![t] = label] /\ UNCHANGED <<at, status>>

StepDone(t) ==
    /\ pc' = [pc EXCEPT ![t] = "start"]
    /\ IF at[t] = Len(steps[t])
       THEN status' = [status EXCEPT ![t] = "completed"] /\ UNCHANGED at
       ELSE at' = [at EXCEPT ![t] = @ + 1] /\ UNCHANGED status

StepThrows(t) ==
    /\ pc' = [pc EXCEPT ![t] = "start"]
    /\ status' = [status EXCEPT ![t] = "failed"]
    /\ UNCHANGED at

-----------------------------------------------------------------------------
(* yaml:set and yaml:append.                                               *)

YamlActions == {"yaml:set", "yaml:append"}

\* A url makes the action fetch its directory first: the files of the repository
\* lie over those of the workspace.
FetchDirectory(t) ==
    /\ Running(t, YamlActions, "start")
    /\ Step(t).from = "url"
    /\ workspace' = [workspace EXCEPT ![t] =
            [f \in Files |-> IF Repository[f] = None THEN @[f] ELSE Repository[f]]]
    /\ edits' = [edits EXCEPT ![t] = {e \in @ : Repository[e.file] = None}]
    /\ Goto(t, "read")
    /\ UNCHANGED <<steps, content, shared, docs, createVars>>

FetchFails(t) ==
    /\ Running(t, YamlActions, "start")
    /\ Step(t).from = "url"
    /\ StepThrows(t)
    /\ UNCHANGED <<steps, content, workspace, shared, docs, edits, createVars>>

NoFetch(t) ==
    /\ Running(t, YamlActions, "start")
    /\ Step(t).from # "url"
    /\ Goto(t, "read")
    /\ UNCHANGED <<steps, content, workspace, shared, docs, edits, createVars>>

\* sourceFilepath: what it names before the write, and what the write changes.
ContentOf(t) ==
    IF Step(t).from = "absolute" THEN shared[Step(t).file] ELSE workspace[t][Step(t).file]

Write(t, documents) ==
    IF Step(t).from = "absolute"
    THEN shared' = [shared EXCEPT ![Step(t).file] = documents] /\ UNCHANGED workspace
    ELSE workspace' = [workspace EXCEPT ![t][Step(t).file] = documents] /\ UNCHANGED shared

readFile(t) ==
    /\ Running(t, YamlActions, "read")
    /\ content' = [content EXCEPT ![t] = ContentOf(t)]
    /\ IF ContentOf(t) = None THEN StepThrows(t) ELSE Goto(t, "write")
    /\ UNCHANGED <<steps, workspace, shared, docs, edits, createVars>>

SkipsOf(step, documents) ==
    [i \in DOMAIN documents |-> Skips(documents[i], step.entityRef)]

EditsOf(step, documents) ==
    [i \in DOMAIN documents |->
        IF step.action = "yaml:set" THEN set(documents[i].contents, step.path, step.value)
        ELSE append(documents[i].contents, step.path, step.value)]

updated(step, documents) == EditAll(documents, EditsOf(step, documents), SkipsOf(step, documents))

\* The history: an edit counts in the documents it is meant for, where there was a
\* place for it; a later set of the path, or of one above it, takes it back.
Reaches(step, document) ==
    /\ step.path # <<>> /\ step.entityRef \in {None, document.entity}
    /\ step.action = "yaml:append" =>
            \/ getIn(document.contents, step.path).kind = "seq"
            \/ isMap(getIn(document.contents, Front(step.path)))

Remembered(t, step, documents) ==
    LET reached == {i \in DOMAIN documents : Reaches(step, documents[i])}
        undone == {e \in edits[t] : /\ e.file = step.file
                                    /\ ~Skips(documents[e.document], step.entityRef)
                                    /\ step.action = "yaml:set" /\ IsPrefix(step.path, e.path)}
    IN  IF step.from = "absolute" THEN edits[t]
        ELSE (edits[t] \ undone) \cup
             {[file |-> step.file, document |-> i, path |-> step.path, value |-> step.value] : i \in reached}

writeFile(t) ==
    /\ Running(t, YamlActions, "write")
    /\ LET documents == updated(Step(t), content[t])
       IN  IF documents = None
           THEN StepThrows(t) /\ UNCHANGED <<workspace, shared, edits>>
           ELSE /\ Write(t, documents)
                /\ edits' = [edits EXCEPT ![t] = Remembered(t, Step(t), content[t])]
                /\ StepDone(t)
    /\ content' = [content EXCEPT ![t] = None]
    /\ UNCHANGED <<steps, docs, createVars>>

-----------------------------------------------------------------------------
(* backend:add-annotation.                                                 *)

\* The file as it is in the repository, with the annotation.
Annotated(step) ==
    LET documents == Repository[step.file]
    IN  EditAll(documents,
                [i \in DOMAIN documents |->
                    IF documents[i].entity = None THEN Edit(TRUE, documents[i].contents)
                    ELSE addAnnotation(documents[i].contents, "file:./docs")],
                [i \in DOMAIN documents |->
                    documents[i].entity # None /\ documents[i].entity # step.entityRef])

\* The file is written before the directory docs is made, which must not be there,
\* and before the template of the documentation is copied.
addAnnotationAction(t) ==
    /\ Running(t, {"backend:add-annotation"}, "start")
    /\ IF Repository[Step(t).file] = None \/ Annotated(Step(t)) = None
       THEN StepThrows(t) /\ UNCHANGED <<workspace, docs, edits>>
       ELSE /\ workspace' = [workspace EXCEPT ![t][Step(t).file] = Annotated(Step(t))]
            /\ edits' = [edits EXCEPT ![t] = {e \in @ : e.file # Step(t).file}]
            /\ docs' = [docs EXCEPT ![t] = TRUE]
            /\ \/ ~docs[t] /\ StepDone(t)
               \/ StepThrows(t)
    /\ UNCHANGED <<steps, content, shared, createVars>>

\* getContent is not answered.
getContentFails(t) ==
    /\ Running(t, {"backend:add-annotation"}, "start")
    /\ StepThrows(t)
    /\ UNCHANGED <<steps, content, workspace, shared, docs, edits, createVars>>

-----------------------------------------------------------------------------
(* humanitec:create-app.                                                   *)

CreateApp == {"humanitec:create-app"}

\* A setup file that is no file, or that has another form, makes the step throw;
\* one that is missing or no YAML is logged, and the step ends.
loadSetupFile(t) ==
    /\ Running(t, CreateApp, "start")
    /\ \/ BeginCreating(t) /\ Goto(t, "calls")
       \/ StepDone(t) /\ UNCHANGED createVars
       \/ StepThrows(t) /\ UNCHANGED createVars
    /\ UNCHANGED <<steps, content, workspace, shared, docs, edits>>

HumanitecAnswers(t) ==
    /\ Running(t, CreateApp, "calls")
    /\ CallAnswered(t)
    /\ UNCHANGED taskVars

handlerReturns(t) ==
    /\ Running(t, CreateApp, "calls")
    /\ todo[t] = <<>>
    /\ StepDone(t)
    /\ UNCHANGED <<steps, content, workspace, shared, docs, edits, createVars>>

StepOf(t) ==
    \/ FetchDirectory(t)
    \/ FetchFails(t)
    \/ NoFetch(t)
    \/ readFile(t)
    \/ writeFile(t)
    \/ addAnnotationAction(t)
    \/ getContentFails(t)
    \/ loadSetupFile(t)
    \/ HumanitecAnswers(t)
    \/ handlerReturns(t)

Next == \E t \in Runs : StepOf(t)

Spec == Init /\ [][Next]_vars

\* The scaffolder goes on with a task, and Humanitec and the repository answer.
Fairness == \A t \in Runs : WF_vars(StepOf(t))

LiveSpec == Spec /\ Fairness

-----------------------------------------------------------------------------
(* Properties.                                                             *)

Holds(contents, path, value) ==
    LET node == getIn(contents, path)
    IN  \/ node = Scalar(value)
        \/ node.kind = "seq" /\ Scalar(value) \in ToSet(node.items)

\* Steps share the files of the workspace: what one of them set or appended is
\* still in its document after every later step, unless a step set that path or
\* one above it, or fetched the file again; a step that throws in the middle of
\* a file takes nothing back.
EditsSurvive ==
    \A t \in Runs : \A e \in edits[t] :
        Holds(workspace[t][e.file][e.document].contents, e.path, e.value)

\* A file has the documents of several entities: those that no step up to now
\* named stay as they are in the repository.
OthersUntouched ==
    \A t \in Runs : \A f \in Files : workspace[t][f] # None =>
        /\ Len(workspace[t][f]) = Len(Repository[f])
        /\ \A i \in DOMAIN Repository[f] :
            (/\ Repository[f][i].entity # None
             /\ \A n \in 1 .. at[t] : steps[t][n].file = f =>
                    steps[t][n].entityRef \notin {None, Repository[f][i].entity})
            => workspace[t][f][i] = Repository[f][i]

\* Whatever calls failed, were retried or ran twice: a run deploys the delta that
\* it created itself for that environment, and creates nothing in an application
\* that it did not create, another run's with the same id in particular.
DeploysOwnDelta ==
    \A i \in DOMAIN humanitec : LET object == humanitec[i] IN
        /\ object.resource = "deployment" =>
                /\ object.delta \in 1 .. i - 1
                /\ humanitec[object.delta] =
                        [resource |-> "delta", app |-> object.app, env |-> object.env,
                         by |-> object.by, delta |-> 0]
        /\ object.resource # "application" =>
                \E j \in 1 .. i - 1 :
                    humanitec[j].resource = "application" /\ humanitec[j].app = object.app
                    /\ humanitec[j].by = object.by

CreatedBy(t, call) ==
    \E i \in DOMAIN humanitec :
        humanitec[i].resource = call.resource /\ humanitec[i].app = call.app
        /\ humanitec[i].env = call.env /\ humanitec[i].by = t

\* A failure costs what depends on the call that failed and nothing else: when the
\* action returns, all the rest of the setup file has been created.
CompleteButForFailures ==
    \A t \in Runs : pc[t] = "calls" /\ todo[t] = <<>> =>
        \A call \in ToSet(Calls) :
            \/ CreatedBy(t, call)
            \/ \E lost \in failed[t] :
                    /\ lost.nth = call.nth
                    /\ \/ lost = call \/ lost.resource = "application"
                       \/ lost.resource = "delta" /\ call.resource = "deployment" /\ lost.env = call.env

\* Every task comes to an end, whatever its calls are answered.
TaskEnds == \A t \in Runs : status[t] = "processing" ~> status[t] # "processing"
=============================================================================
