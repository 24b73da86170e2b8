---------------------- MODULE IncrementalIngestionCycle ----------------------
(* IncrementalIngestion implements IngestionCycle: the cycle is read off    *)
(* the rows and the marks, the way an operator of the database would.       *)
EXTENDS IncrementalIngestion

Outcome(row) ==
    CASE ~row.present                                   -> "absent"
      [] row.present /\ row.open                        -> "open"
      [] row.present /\ ~row.open
            /\ row.nextAction = "nothing (canceled)"    -> "canceled"
      [] OTHER                                          -> "done"

Cycle == INSTANCE IngestionCycle WITH
    Sizes    <- {Len(l) : l \in Listings},
    pages    <- Len(source),
    record   <- [i \in Ids |-> Outcome(ingestions[i])],
    consumed <- {m.cursor : m \in {n \in marks : IsOpen(n.ingestion)}} \ {0},
    resting  <- \E i \in OpenIds : ingestions[i].nextAction = "rest"

\* However the bursts of the replicas overlap, crash or fail, what they do to the
\* rows and the marks is an ingestion cycle.
IsACycle == Cycle!Spec
=============================================================================
