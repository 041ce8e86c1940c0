---------------------------- MODULE MCDiscovery ----------------------------
EXTENDS Discovery, TLC
CONSTANTS a, b, x

\* Two products with one path each.
OnePath == {[p \in Products |-> Paths]}
ProductSymmetry == Permutations(Products)
=============================================================================
