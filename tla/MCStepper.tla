------------------------------ MODULE MCStepper ------------------------------
(* Instances of Stepper for TLC.                                           *)
EXTENDS Stepper

Item(type, uiField, properties) == [type |-> type, uiField |-> uiField, properties |-> properties]
NoItems == Item("none", NoField, <<>>)

\* Step one asks for a list of objects, whose second property has a validator
\* ("Shown" is an extension without a validation).  Step two asks for a
\* repository, an object with an owner and a validator of its own.
TwoSteps == <<<<"tags">>, <<"repo">>>>
TwoStepsSchema ==
    [tags  |-> [type |-> "array", uiField |-> NoField, properties |-> <<>>,
                items |-> Item("object", NoField, <<"Shown", "Tag">>)],
     repo  |-> [type |-> "object", uiField |-> "Repo", properties |-> <<"owner">>, items |-> NoItems],
     owner |-> [type |-> "string", uiField |-> "Owner", properties |-> <<>>, items |-> NoItems]]

TwoStepsRejects == [Tag |-> {"bad"}, Repo |-> {"bad"}, Owner |-> {Absent}]

TwoStepsValues == [tags |-> {"one", "bad"}, repo |-> {Absent, "one"}, owner |-> {"one"}]

\* The tags are given, as entityRef is, and may be changed.
TwoStepsInitial == [tags |-> "one", repo |-> "one", owner |-> Absent]
=============================================================================
