--------------------------- MODULE SequencerFeed ---------------------------
(***************************************************************************)
(* The sequencer as an implementation of the feed its consumers rely on.   *)
(* An event can be read while it has a row, the seeding placeholder that a *)
(* failure leaves behind being one; a subscription stands from the start   *)
(* of its worker until the worker leaves its loop.                         *)
(***************************************************************************)
EXTENDS Sequencer

Streaming == {c \in Subs : pc[c] \in {"run", "holding"} /\ err[c] = "none"}

Promised == INSTANCE Feed WITH
    Consumers <- Subs,
    Seqs      <- 1..MaxSeq,
    log       <- {r.seq : r \in rows},
    withdrawn <- lost \cup purged,
    following <- Streaming,
    at        <- [c \in Subs |-> IF c \in Streaming THEN cursor[c] ELSE 0],
    got       <- [c \in Subs |-> IF c \in Streaming THEN sent[c] ELSE {}]

\* The sequencer is a feed: behind the separate holds of its mutex, the worker
\* threads, the retention passes and purges between a read and a send, the
\* failures and the restarts, a consumer sees numbers that only ascend, a
\* newest event that is never taken back, and no event passed over that could
\* still be read; and it is never let in at a position still to come.
ImplementsFeed == Promised!Spec
=============================================================================
