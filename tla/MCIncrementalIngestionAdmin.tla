--------------------- MODULE MCIncrementalIngestionAdmin ---------------------
(* Instances of IncrementalIngestionAdmin for TLC.                         *)
EXTENDS IncrementalIngestionAdmin

CONSTANTS e1, e2, e3

\* A source of two pages that never changes.
ConstantListing == {<<{e1}, {e2}>>}
=============================================================================
