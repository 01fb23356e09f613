------------------------------ MODULE MCBlobs ------------------------------
(* Instance of Blobs for TLC. *)
EXTENDS Blobs, TLC

Interchangeable == Permutations(Requests) \union Permutations(Keys) \union Permutations(Cids)
=============================================================================
