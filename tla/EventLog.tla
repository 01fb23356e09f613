------------------------------- MODULE EventLog -------------------------------
(***************************************************************************)
(* The `events` table of the firehose log (src/sequencer.c), as a set of   *)
(* rows, and the SQL statements that the sequencer runs on it.  A row has  *)
(* at least the fields seq (INTEGER PRIMARY KEY AUTOINCREMENT) and did (the*)
(* account that the event belongs to); the modules that use the log add    *)
(* the fields their properties tell apart.                                 *)
(***************************************************************************)
EXTENDS Naturals, FiniteSets

\* Mutant: COUNT(*) taken for MAX(seq).
CurrentByCount(rows) == Cardinality(rows)

\* SELECT COALESCE(MAX(seq),0) FROM events
current_locked(rows) ==
    IF rows = {} THEN 0
    ELSE CHOOSE m \in {r.seq : r \in rows} : \A r \in rows : r.seq <= m

\* The rows WHERE did = ?
OfAccount(rows, did) == {r \in rows : r.did = did}

\* Mutant: the row at the cursor is read again.
AfterOrAt(rows, cursor) == {r \in rows : r.seq >= cursor}

\* The rows a subscriber at `cursor` has still to be sent: WHERE seq > ?
After(rows, cursor) == {r \in rows : r.seq > cursor}

\* Mutant: the ORDER BY is forgotten.
ReadAnyNext(rows, cursor) == After(rows, cursor)

\* SELECT ... WHERE seq > ? ORDER BY seq LIMIT 1, as the set of rows found
\* (empty when the stream is up to date).
read_next_locked(rows, cursor) ==
    {r \in After(rows, cursor) : \A q \in After(rows, cursor) : r.seq <= q.seq}

\* DELETE FROM events WHERE seq <= cutoff AND created_at < cutoff_ts.  Rows are
\* written in the order of their created_at, so the age test is a bound `aged`
\* on seq; the seeding placeholder is dated '' and is older than any cutoff.
Expired(rows, cutoff, aged, none) ==
    {r \in rows : r.seq <= cutoff /\ (r.seq <= aged \/ r.did = none)}

\* Mutant: the newest row of the account goes too.
SupersededAndNewest(rows, did) == OfAccount(rows, did)

\* The rows purge_account deletes: every row of the account below its newest.
Superseded(rows, did) ==
    {r \in OfAccount(rows, did) :
        \E q \in OfAccount(rows, did) : r.seq < q.seq}
===============================================================================
