----------------------- MODULE MCIncrementalIngestion -----------------------
(* Instances of IncrementalIngestion for TLC.                              *)
EXTENDS IncrementalIngestionCycle, TLC

CONSTANTS e1, e2, e3

\* Two pages, then two other pages: e3 goes and e2 changes page.
TwoListings == {<<{e1}, {e2, e3}>>, <<{e2}, {e1}>>}

\* And one of three pages, with a page that has others before and behind it.
ThreeListings == TwoListings \cup {<<{e3}, {e1}, {e2}>>}

ReplicaSymmetry == Permutations(Replicas)
=============================================================================
