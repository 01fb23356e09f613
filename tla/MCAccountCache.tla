---------------------------- MODULE MCAccountCache ----------------------------
(***************************************************************************)
(* The account cache, instantiated for TLC.                                *)
(***************************************************************************)
EXTENDS AccountCache

CONSTANTS t1, t2, d1, d2, d3

\* Threads are interchangeable, and so are accounts.
Interchangeable == Permutations({t1, t2}) \cup Permutations({d1, d2, d3})

\* Addresses enough for every account to be open, one of them twice.
SomeContexts == 1..4
=============================================================================
