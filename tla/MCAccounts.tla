----------------------------- MODULE MCAccounts -----------------------------
\* Sign-up, handles and deletion, instantiated for TLC.
EXTENDS AccountsInv, TLC

CONSTANTS r1, r2, d1, d2, d3, h1, h2, h3, c1

\* Request threads and handles are interchangeable.
Interchangeable == Permutations(Requests) \cup Permutations(Handles)
=============================================================================
