------------------------- MODULE MCIndexerLifecycle -------------------------
(* Instances of IndexerLifecycle for TLC.                                   *)
EXTENDS IndexerLifecycle, TLC

\* Names are interchangeable: the safety runs treat them as symmetric.
Symmetry == Permutations(Names)
=============================================================================
