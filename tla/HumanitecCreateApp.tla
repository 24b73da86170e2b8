------------------------- MODULE HumanitecCreateApp -------------------------
(***************************************************************************)
(* humanitec:create-app, plugins/humanitec-backend/src/actions/create-app, *)
(* with the client it calls, plugins/humanitec-common/src/clients.         *)
(*                                                                         *)
(* The calls that the handler has still to make are a sequence; what fails *)
(* takes the calls that depend on it away with it, and no others.          *)
(***************************************************************************)
EXTENDS Naturals, SequencesExt

CONSTANTS
    Runs,       \* the tasks that run the action
    Setup,      \* the parsed setup file: a sequence of [id, environments, automations]
    Attempts,   \* numOfAttempts of the client's backOff
    MaxFaults   \* bound: answers of Humanitec that are no success, conflicts apart

ASSUME AttemptsAssumption == Attempts \in Nat \ {0}
ASSUME SetupAssumption ==
    Setup \in Seq([id: STRING, environments: Seq(STRING), automations: Seq(STRING)])

VARIABLES
    humanitec,  \* the objects of the organisation, in the order they were created
    todo,       \* run -> the calls that are left, the one in flight first
    attempts,   \* run -> how often the first of them was answered by 403
    delta,      \* run -> the object that createDelta answered last
    failed,     \* history: run -> the calls that failed
    faults

createVars == <<humanitec, todo, attempts, delta, failed, faults>>

Call(resource, nth, env) ==
    [resource |-> resource, nth |-> nth, app |-> Setup[nth].id, env |-> env]

\* What the body of the loop over apps does for one of them.
CallsFor(nth) ==
    LET app == Setup[nth]
    IN  <<Call("application", nth, "none")>>
        \o FlattenSeq([i \in DOMAIN app.environments |->
                <<Call("delta", nth, app.environments[i]), Call("deployment", nth, app.environments[i])>>])
        \o [i \in DOMAIN app.automations |-> Call("automation", nth, app.automations[i])]

\* The loop over apps from one of them on.
CallsFrom(first) == FlattenSeq([i \in 1 .. Len(Setup) + 1 - first |-> CallsFor(first + i - 1)])

Calls == CallsFrom(1)

CreateInit ==
    /\ humanitec = <<>> /\ faults = 0
    /\ todo = [r \in Runs |-> <<>>]
    /\ attempts = [r \in Runs |-> 0]
    /\ delta = [r \in Runs |-> 0]
    /\ failed = [r \in Runs |-> {}]

\* The setup file was read and has the right form.
BeginCreating(r) ==
    /\ todo' = [todo EXCEPT ![r] = Calls]
    /\ UNCHANGED <<humanitec, attempts, delta, failed, faults>>

\* What Humanitec makes of a call.
Created(r, call) ==
    Append(humanitec, [resource |-> call.resource, app |-> call.app, env |-> call.env, by |-> r,
                       delta |-> IF call.resource = "deployment" THEN delta[r] ELSE 0])

\* External: an application is created once.
Conflicts(call) ==
    /\ call.resource = "application"
    /\ \E i \in DOMAIN humanitec :
            humanitec[i].resource = "application" /\ humanitec[i].app = call.app

\* Faulty: the loop over apps ends with the application that failed.
BreaksTheLoop(calls) ==
    IF Head(calls).resource = "application" THEN <<>>
    ELSE IF Head(calls).resource = "delta" THEN Tail(Tail(calls)) ELSE Tail(calls)

\* Faulty: the deployment is not nested in the try block of its delta.
DeploysAnyway(calls) ==
    IF Head(calls).resource = "application" THEN CallsFrom(Head(calls).nth + 1) ELSE Tail(calls)

\* Faulty: an application that is already there is asked for again.
TriesAgain(calls) ==
    IF Head(calls).resource = "application" THEN calls ELSE Tail(calls)

\* The catch blocks: without its application the loop goes on with the next app,
\* and without its delta there is no deployment.
AfterFailure(calls) ==
    LET call == Head(calls)
    IN  CASE call.resource = "application" -> CallsFrom(call.nth + 1)
          [] call.resource = "delta" -> Tail(Tail(calls))
          [] OTHER -> Tail(calls)

Succeeds(r) ==
    LET call == Head(todo[r])
    IN  /\ todo[r] # <<>> /\ ~Conflicts(call)
        /\ humanitec' = Created(r, call)
        /\ delta' = [delta EXCEPT ![r] = IF call.resource = "delta" THEN Len(humanitec') ELSE @]
        /\ todo' = [todo EXCEPT ![r] = Tail(@)]
        /\ attempts' = [attempts EXCEPT ![r] = 0]
        /\ UNCHANGED <<failed, faults>>

\* The call is given up.
GivesUp(r) ==
    /\ todo' = [todo EXCEPT ![r] = AfterFailure(@)]
    /\ attempts' = [attempts EXCEPT ![r] = 0]
    /\ failed' = [failed EXCEPT ![r] = @ \cup {Head(todo[r])}]
    /\ UNCHANGED delta

\* An answer that is no success; what was asked for may have been done.
Faulty(r) ==
    /\ todo[r] # <<>> /\ faults < MaxFaults
    /\ faults' = faults + 1
    /\ humanitec' \in {humanitec} \cup
            (IF Conflicts(Head(todo[r])) THEN {} ELSE {Created(r, Head(todo[r]))})

\* _fetch tries again after a 403.
Forbidden(r) ==
    /\ Faulty(r)
    /\ IF attempts[r] + 1 < Attempts
       THEN /\ attempts' = [attempts EXCEPT ![r] = @ + 1]
            /\ UNCHANGED <<todo, delta, failed>>
       ELSE GivesUp(r)

Fails(r) == Faulty(r) /\ GivesUp(r)

AlreadyExists(r) ==
    /\ todo[r] # <<>> /\ Conflicts(Head(todo[r]))
    /\ GivesUp(r)
    /\ UNCHANGED <<humanitec, faults>>

CallAnswered(r) == Succeeds(r) \/ Forbidden(r) \/ Fails(r) \/ AlreadyExists(r)
=============================================================================
