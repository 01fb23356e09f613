----------------------------- MODULE MCSequencer -----------------------------
(***************************************************************************)
(* The sequencer, instantiated for TLC.  The cfg files give the constants  *)
(* their values.                                                           *)
(***************************************************************************)
EXTENDS SequencerFeed, TLC

CONSTANTS a1, a2, c1, c2

\* Accounts and consumers are interchangeable.
Interchangeable == Permutations({a1, a2}) \cup Permutations({c1, c2})
=============================================================================
