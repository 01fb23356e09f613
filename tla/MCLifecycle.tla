------------------------------ MODULE MCLifecycle ------------------------------
(***************************************************************************)
(* The life of accounts, instantiated for TLC.                             *)
(***************************************************************************)
EXTENDS Lifecycle, TLC

CONSTANTS d1, d2

\* Accounts are interchangeable.
Interchangeable == Permutations({d1, d2})
=============================================================================
