------------------------------ MODULE MCOAuth ------------------------------
(* Instances of OAuth for TLC. *)
EXTENDS OAuth, TLC

Symmetry == Permutations(Requests) \union Permutations(Subjects)
            \union Permutations(Clients)

=============================================================================
