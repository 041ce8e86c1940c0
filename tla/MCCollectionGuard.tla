-------------------------- MODULE MCCollectionGuard --------------------------
(* CollectionGuard on a few threads, one process death.                    *)
EXTENDS CollectionGuard, TLC

ThreadSymmetry == Permutations(Background)
==============================================================================
