---------------------------- MODULE MCRunWorkflow ----------------------------
(* Instances of RunWorkflow for TLC.                                       *)
EXTENDS RunWorkflow

OneStep == {"fetch"}

\* A step begins, and an entry that belongs to no step.
TwoEntries == <<[step |-> "fetch", status |-> "processing"],
                [step |-> "", status |-> NoStatus]>>
=============================================================================
