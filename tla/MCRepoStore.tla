------------------------------ MODULE MCRepoStore ------------------------------
(***************************************************************************)
(* The repository store, instantiated for TLC.                             *)
(***************************************************************************)
EXTENDS RepoStore, TLC

CONSTANTS k1, k2, v1, v2

\* Record contents are interchangeable.
Interchangeable == Permutations({v1, v2})
=============================================================================
