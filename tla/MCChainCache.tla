---------------------------- MODULE MCChainCache ----------------------------
EXTENDS ChainCache
CONSTANTS s1, s2, saver1, saver2, run
=============================================================================
