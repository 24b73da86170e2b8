--------------------------- MODULE IngestionCycle ---------------------------
(***************************************************************************)
(* What an incremental entity provider promises, whatever its replicas,    *)
(* their bursts and their errors do: ingestions follow one another, each   *)
(* consumes the pages of its source in their order, rests once it has them *)
(* all, and is recorded as done only then.                                 *)
(***************************************************************************)
EXTENDS Integers

CONSTANTS
    Ids,    \* the ingestions
    Sizes   \* the numbers of pages that a source may have

VARIABLES
    pages,    \* the number of pages of the source
    record,   \* ingestion -> "absent", "open", "done" or "canceled"
    consumed, \* the pages that the open ingestion has consumed
    resting   \* the open ingestion rests

vars == <<pages, record, consumed, resting>>

Outcomes == {"done", "canceled"}
Open     == {i \in Ids : record[i] = "open"}

Init ==
    /\ pages \in Sizes
    /\ record = [i \in Ids |-> "absent"]
    /\ consumed = {}
    /\ resting = FALSE

\* One ingestion is under way at a time, and an id is used afresh.
Begin(i) ==
    /\ Open = {} /\ record[i] = "absent"
    /\ record' = [record EXCEPT ![i] = "open"]
    /\ UNCHANGED <<pages, consumed, resting>>

\* A page comes after all the pages before it.
Consume(p) ==
    /\ Open # {}
    /\ 1..(p - 1) \subseteq consumed
    /\ consumed' = consumed \cup {p}
    /\ UNCHANGED <<pages, record, resting>>

Rest ==
    /\ Open # {} /\ consumed = 1..pages
    /\ resting' = TRUE
    /\ UNCHANGED <<pages, record, consumed>>

\* Something that is late takes the rest back; the pages stay consumed.
Wake ==
    /\ resting' = FALSE
    /\ UNCHANGED <<pages, record, consumed>>

Close(i, outcome) ==
    /\ record[i] = "open"
    /\ record' = [record EXCEPT ![i] = outcome]
    /\ consumed' = {}
    /\ resting' = FALSE
    /\ UNCHANGED pages

Complete(i) == consumed = 1..pages /\ Close(i, "done")
Cancel(i)   == Close(i, "canceled")

\* A task that outlived its lease writes over the outcome of a closed record.
Overwrite(i) ==
    /\ record[i] \in Outcomes
    /\ \E outcome \in Outcomes : record' = [record EXCEPT ![i] = outcome]
    /\ UNCHANGED <<pages, consumed, resting>>

Forget ==
    /\ record' = [i \in Ids |-> IF record[i] = "open" THEN "open" ELSE "absent"]
    /\ UNCHANGED <<pages, consumed, resting>>

\* The source changes between two ingestions.
Change ==
    /\ Open = {}
    /\ pages' \in Sizes
    /\ UNCHANGED <<record, consumed, resting>>

Next ==
    \/ \E i \in Ids : Begin(i) \/ Complete(i) \/ Cancel(i) \/ Overwrite(i)
    \/ \E p \in 1..pages : Consume(p)
    \/ Rest \/ Wake \/ Forget \/ Change

Spec == Init /\ [][Next]_vars
=============================================================================
