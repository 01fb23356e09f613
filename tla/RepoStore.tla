------------------------------- MODULE RepoStore -------------------------------
(***************************************************************************)
(* One account's repository store (src/repo/repo_store.c, and importRepo   *)
(* in src/repo/repo_routes.c): signed commits over a tree of records, kept *)
(* in memory as a CAR and a head, and in SQLite as content-addressed       *)
(* blocks, a head row and a record index; every commit is announced to the *)
(* firehose, and a restart announces a head the firehose has not heard of. *)
(*                                                                         *)
(* Writers hold s->mutex throughout, so that only one is between its steps;*)
(* a step ends where the process may die with the earlier writes on disk:  *)
(* the commit's transaction, each index statement, the announcement.  A    *)
(* request that fails a check (its key, its $type, a swapCommit or         *)
(* swapRecord that does not match) changes nothing.                        *)
(***************************************************************************)
EXTENDS Naturals, FiniteSets

CONSTANTS
    Keys,        \* record paths, collection/rkey
    Linked,      \* those in a collection with one record per subject: a
                 \* follow, block, like or repost, whose value is its subject
    Values,      \* record contents
    Gone,        \* a write that deletes
    MaxRev,      \* bound: revisions minted
    MaxFailures  \* bound: different kinds of database failure in a behaviour

ASSUME RepoStoreAssumption ==
    /\ Linked \subseteq Keys
    /\ Gone \notin Values
    /\ MaxRev \in Nat
    /\ MaxFailures \in Nat

VARIABLES
    up, pc,      \* is the store open, and which step its writer is at
    head,        \* s->head, as the commit it names
    override,    \* s->rev_override, 0 for NULL
    car,         \* the blocks of s->car
    flushed,     \* the first s->persisted_blocks of them
    db,          \* the database as this connection sees it
    disk,        \* the database as a restart will find it
    stuck,       \* a COMMIT failed and left its transaction open
    op,          \* the write in progress: what to index, what it replaced
    boot,        \* the store was opened by a starting server
    clock,       \* the last revision minted (wf_tid_now)
    last,        \* this repository's newest #commit or #sync in the firehose
    \* history, read by no action
    quiet,       \* an import has moved the head, unannounced, since the last #commit
    torn,        \* keys whose index statement a crash prevented
    acked,       \* the newest revision whose writer was told it succeeded
    failed       \* the kinds of database failure there have been

memVars == <<head, override, car, flushed>>
dbVars  == <<db, disk, stuck>>
vars    == <<up, pc, memVars, dbVars, op, boot, clock, last, quiet, torn, acked, failed>>

-----------------------------------------------------------------------------
(* Commits, trees and blocks.                                              *)

Trees == UNION {[S -> Values] : S \in SUBSET Keys}

NoTree   == [k \in {} |-> Gone]
NoCommit == [rev |-> 0, tree |-> NoTree]
NoOp     == [todo |-> NoTree, prev |-> NoCommit]
NoEvent  == [kind |-> "none", rev |-> 0, since |-> 0, blocks |-> {},
             commit |-> NoCommit, prev |-> NoCommit]

\* The blocks of a commit: itself, its tree's root, its records.  A block is its
\* content: two commits over equal trees share the block of the root.
Blocks(c) ==
    IF c.rev = 0 THEN {}
    ELSE {<<"commit", c.rev>>, <<"mst", c.tree>>}
           \cup {<<"record", c.tree[k]>> : k \in DOMAIN c.tree}

\* The tree after the writes ws, a function from keys to a value or Gone.
Written(tree, ws) ==
    [k \in {j \in DOMAIN tree \cup DOMAIN ws : j \in DOMAIN ws => ws[j] # Gone}
        |-> IF k \in DOMAIN ws THEN ws[k] ELSE tree[k]]

\* get_effective_rev
EffectiveRev == IF override # 0 THEN override ELSE head.rev

Init ==
    /\ up = FALSE /\ pc = "idle" /\ boot = TRUE
    /\ head = NoCommit /\ override = 0 /\ car = {} /\ flushed = {}
    /\ db = [head |-> NoCommit, override |-> 0,
             blocks |-> [b \in {} |-> 0], index |-> NoTree]
    /\ disk = db /\ stuck = FALSE
    /\ op = NoOp /\ clock = 0 /\ last = NoEvent
    /\ quiet = FALSE /\ torn = {} /\ acked = 0 /\ failed = {}

-----------------------------------------------------------------------------
(* commit_persist.                                                         *)

\* persist_new_blocks: INSERT OR IGNORE of the blocks not flushed yet, stamped
\* with the head commit's revision.
Inserted(blocks, new, rev) ==
    [b \in DOMAIN blocks \cup new |-> IF b \in DOMAIN blocks THEN blocks[b] ELSE rev]

MayFail(kind) == kind \in failed \/ Cardinality(failed) < MaxFailures

\* A statement of this kind fails; nothing but a log line comes of it.
Ignored(kind) ==
    /\ MayFail(kind)
    /\ failed' = failed \cup {kind}

\* How the transaction ends: committed; BEGIN or a block's INSERT fails; the
\* head's INSERT fails; COMMIT fails and rolls back; COMMIT fails, busy, and
\* the transaction stays open, so that every later BEGIN fails.  COMMIT's
\* result is not looked at.
Endings ==
    IF stuck THEN {"early"}
    ELSE {"committed"} \cup {e \in {"early", "late", "lost", "busy"} : MayFail(e)}

\* Mutant: the new blocks are counted as flushed and never inserted.
PersistHeadOnly(c, after) ==
    /\ head' = c /\ override' = 0
    /\ car' = car \cup Blocks(c) /\ flushed' = car'
    /\ db' = [db EXCEPT !.head = c, !.override = 0]
    /\ disk' = db'
    /\ pc' = after
    /\ UNCHANGED <<stuck, failed>>

\* Mutant: the writer goes on before its transaction is durable.
PersistLater(c, after) ==
    /\ head' = c /\ override' = 0
    /\ car' = car \cup Blocks(c) /\ flushed' = car'
    /\ db' = [db EXCEPT !.head = c, !.override = 0,
                        !.blocks = Inserted(@, car' \ flushed, c.rev)]
    /\ stuck' = TRUE /\ pc' = after
    /\ UNCHANGED <<disk, failed>>

\* The head in memory moves first and stays moved whatever happens; so does
\* persisted_blocks once the blocks were inserted.
commit_persist(c, after) ==
    /\ head' = c /\ override' = 0
    /\ car' = car \cup Blocks(c)
    /\ \E e \in Endings :
         LET new == [db EXCEPT !.head = c, !.override = 0,
                               !.blocks = Inserted(@, car' \ flushed, c.rev)]
         IN /\ flushed' = IF e = "early" THEN flushed ELSE car'
            /\ db' = IF e \in {"committed", "busy"} THEN new ELSE db
            /\ disk' = IF e = "committed" THEN new ELSE disk
            /\ stuck' = (stuck \/ e = "busy")
            /\ failed' = failed \cup ({e} \ {"committed"})
            /\ pc' = IF e \in {"early", "late"} THEN "idle" ELSE after

\* A statement outside any transaction of ours: durable at once, unless the
\* transaction that COMMIT left open swallows it.
Autocommit(new) ==
    /\ db' = new
    /\ disk' = IF stuck THEN disk ELSE new
    /\ UNCHANGED failed

-----------------------------------------------------------------------------
(* Writes.                                                                 *)

\* The writes ws land as one commit on the head.
Commit(ws) ==
    LET c == [rev |-> clock + 1, tree |-> Written(head.tree, ws)] IN
    /\ up /\ pc = "idle" /\ ~boot
    /\ clock < MaxRev
    /\ \A k \in DOMAIN ws : ws[k] = Gone => k \in DOMAIN head.tree
    /\ clock' = clock + 1
    /\ commit_persist(c, "index")
    /\ op' = [todo |-> ws, prev |-> head]
    /\ UNCHANGED <<up, boot, last, quiet, torn, acked>>

\* Mutant: duplicates are not looked for.
NoConflicts(k, v) == {}

\* find_backlink_conflicts, answered from the record index.
Conflicts(k, v) ==
    IF k \in Linked
    THEN {j \in DOMAIN db.index \cap Linked : j # k /\ db.index[j] = v}
    ELSE {}

\* create_record_locked: the records in conflict go in the same commit.  It is
\* refused when the key exists, or when a record in conflict is one that only
\* the index knows.
create_record_locked(k, v) ==
    LET conflicts == Conflicts(k, v) IN
    /\ k \notin DOMAIN head.tree
    /\ Commit([j \in conflicts \cup {k} |-> IF j = k THEN v ELSE Gone])

\* put_record_locked: content equal to what is there is a no-op.
put_record_locked(k, v) ==
    /\ k \in DOMAIN head.tree => head.tree[k] # v
    /\ Commit([j \in {k} |-> v])

delete_record_locked(k) == Commit([j \in {k} |-> Gone])

\* apply_writes_locked, on two keys at once.
apply_writes_locked(j, k, v, w) ==
    /\ j # k
    /\ Commit([i \in {j, k} |-> IF i = j THEN v ELSE w])

\* Mutant: deleted records stay in the index.
IndexUpsertOnly(k) ==
    /\ up /\ pc = "index" /\ k \in DOMAIN op.todo
    /\ IF op.todo[k] = Gone THEN UNCHANGED <<db, disk, failed>>
       ELSE Autocommit([db EXCEPT !.index = Written(@, [j \in {k} |-> op.todo[k]])])
    /\ torn' = torn \ {k}
    /\ op' = [op EXCEPT !.todo = [j \in DOMAIN @ \ {k} |-> @[j]]]
    /\ UNCHANGED <<up, pc, memVars, stuck, boot, clock, last, quiet, acked>>

\* One index statement after the commit; its result is not looked at.
IndexOne(k) ==
    /\ up /\ pc = "index" /\ k \in DOMAIN op.todo
    /\ \/ Autocommit([db EXCEPT !.index = Written(@, [j \in {k} |-> op.todo[k]])])
       \/ Ignored("index") /\ UNCHANGED <<db, disk>>
    /\ torn' = torn \ {k}
    /\ op' = [op EXCEPT !.todo = [j \in DOMAIN @ \ {k} |-> @[j]]]
    /\ UNCHANGED <<up, pc, memVars, stuck, boot, clock, last, quiet, acked>>

\* metalbear_repo_store_export_locked: the blocks persisted after revision since.
ExportSince(since) == {b \in DOMAIN db.blocks : db.blocks[b] > since}

\* append_event of the sequencer; a failure is only logged.
Announce(event) ==
    \/ last' = event /\ UNCHANGED failed
    \/ Ignored("append") /\ UNCHANGED last

\* Mutant: the announcement names the new revision as its own predecessor.
EmitSinceItself ==
    /\ up /\ pc = "index" /\ DOMAIN op.todo = {}
    /\ Announce([kind |-> "commit", rev |-> head.rev, since |-> head.rev,
                 blocks |-> ExportSince(op.prev.rev),
                 commit |-> head, prev |-> op.prev])
    /\ quiet' = FALSE /\ acked' = head.rev /\ pc' = "idle" /\ op' = NoOp
    /\ UNCHANGED <<up, memVars, dbVars, boot, clock, torn>>

\* emit_commit_event_ops, and repo_event in the sequencer.  The writer then
\* answers its client.
emit_commit_event_ops ==
    /\ up /\ pc = "index" /\ DOMAIN op.todo = {}
    /\ Announce([kind |-> "commit", rev |-> head.rev, since |-> op.prev.rev,
                 blocks |-> ExportSince(op.prev.rev),
                 commit |-> head, prev |-> op.prev])
    /\ quiet' = FALSE /\ acked' = head.rev /\ pc' = "idle" /\ op' = NoOp
    /\ UNCHANGED <<up, memVars, dbVars, boot, clock, torn>>

-----------------------------------------------------------------------------
(* importRepo: a commit signed elsewhere is adopted as it is, the index is *)
(* rebuilt, and a fresh revision overrides the commit's own.  No event.    *)

ImportCommit(tree) ==
    /\ up /\ pc = "idle" /\ ~boot
    /\ clock + 1 < MaxRev
    /\ head.rev # 0 => tree # head.tree
    /\ clock' = clock + 1
    /\ commit_persist([rev |-> clock + 1, tree |-> tree], "clear")
    /\ quiet' = TRUE
    /\ UNCHANGED <<up, op, boot, last, torn, acked>>

\* reindex_all: DELETE, then a statement per record of the head.
ReindexClear ==
    /\ up /\ pc = "clear"
    /\ \/ Autocommit([db EXCEPT !.index = NoTree])
       \/ Ignored("index") /\ UNCHANGED <<db, disk>>
    /\ pc' = "fill"
    /\ UNCHANGED <<up, memVars, stuck, op, boot, clock, last, quiet, torn, acked>>

ReindexFill ==
    /\ up /\ pc = "fill"
    /\ \/ Autocommit([db EXCEPT !.index = Written(@, head.tree)])
       \/ Ignored("index") /\ UNCHANGED <<db, disk>>
    /\ torn' = {}
    /\ pc' = "override"
    /\ UNCHANGED <<up, memVars, stuck, op, boot, clock, last, quiet, acked>>

\* The import then answers its client.
set_rev_override ==
    /\ up /\ pc = "override"
    /\ clock' = clock + 1
    /\ override' = clock + 1
    /\ \/ Autocommit([db EXCEPT !.head = head, !.override = clock + 1])
       \/ Ignored("override") /\ UNCHANGED <<db, disk>>
    /\ acked' = head.rev
    /\ pc' = "idle"
    /\ UNCHANGED <<up, head, car, flushed, stuck, op, boot, last, quiet, torn>>

-----------------------------------------------------------------------------
(* Opening, closing, crashing.                                             *)

\* metalbear_repo_store_open_with_key, load_all_blocks
Open ==
    /\ ~up
    /\ up' = TRUE
    /\ head' = disk.head /\ override' = disk.override
    /\ car' = DOMAIN disk.blocks /\ flushed' = DOMAIN disk.blocks
    /\ db' = disk /\ stuck' = FALSE
    /\ UNCHANGED <<pc, disk, op, boot, clock, last, quiet, torn, acked, failed>>

\* Mutant: startup does not compare the log with the head.
NoReconcile ==
    /\ up /\ boot
    /\ boot' = FALSE
    /\ UNCHANGED <<up, pc, memVars, dbVars, op, clock, last, quiet, torn, acked, failed>>

\* metalbear_sequencer_reconcile_repo, which a starting server runs before it
\* registers its routes: a #sync when the log's newest revision of this
\* repository is not the head's.
reconcile_repo ==
    /\ up /\ boot
    /\ boot' = FALSE
    /\ \/ /\ head.rev = 0 \/ last.rev = EffectiveRev
          /\ UNCHANGED <<last, failed>>
       \/ /\ head.rev # 0 /\ last.rev # EffectiveRev
          /\ Announce([kind |-> "sync", rev |-> EffectiveRev, since |-> 0,
                       blocks |-> {<<"commit", head.rev>>},
                       commit |-> head, prev |-> NoCommit])
    /\ UNCHANGED <<up, pc, memVars, dbVars, op, clock, quiet, torn, acked>>

\* The account cache evicts the idle account; sqlite3_close rolls back a
\* transaction left open.  The next get opens the store again.
Evict ==
    /\ up /\ pc = "idle" /\ ~boot
    /\ up' = FALSE
    /\ db' = disk
    /\ UNCHANGED <<pc, memVars, disk, stuck, op, boot, clock, last, quiet, torn,
                   acked, failed>>

Crash ==
    /\ up
    /\ up' = FALSE /\ boot' = TRUE /\ pc' = "idle" /\ op' = NoOp
    /\ db' = disk
    /\ torn' = CASE pc = "index" -> torn \cup DOMAIN op.todo
                 [] pc \in {"clear", "fill"} -> Keys
                 [] OTHER -> torn
    /\ UNCHANGED <<memVars, disk, stuck, clock, last, quiet, acked, failed>>

Next ==
    \/ \E k \in Keys, v \in Values :
          create_record_locked(k, v) \/ put_record_locked(k, v)
    \/ \E k \in Keys : delete_record_locked(k) \/ IndexOne(k)
    \/ \E j, k \in Keys, v, w \in Values \cup {Gone} :
          apply_writes_locked(j, k, v, w)
    \/ emit_commit_event_ops
    \/ \E tree \in Trees : ImportCommit(tree)
    \/ ReindexClear \/ ReindexFill \/ set_rev_override
    \/ Open \/ reconcile_repo \/ Evict \/ Crash

Spec == Init /\ [][Next]_vars

-----------------------------------------------------------------------------
(* Properties.                                                             *)

Commits == [rev : Nat, tree : Trees]

\* The values the code's variables range over.
TypeOK ==
    /\ up \in BOOLEAN /\ boot \in BOOLEAN /\ stuck \in BOOLEAN
    /\ pc \in {"idle", "index", "clear", "fill", "override"}
    /\ head \in Commits /\ override \in Nat /\ clock \in Nat
    /\ flushed \subseteq car
    /\ \A d \in {db, disk} :
          /\ d.head \in Commits /\ d.override \in Nat /\ d.index \in Trees
          /\ \A b \in DOMAIN d.blocks : d.blocks[b] \in Nat

\* The failures of a commit's transaction that its writer reports.
Refused == {"early", "late"}

\* Those it does not.
Unnoticed == {"lost", "busy"}

\* The head row on disk never names a commit whose blocks are not there with
\* it, so that a restart at any moment finds a whole repository, unless a
\* transaction was rolled back after its blocks had been counted as flushed.
HeadCompleteUnlessRolledBack ==
    failed \cap {"late", "lost"} = {} => Blocks(disk.head) \subseteq DOMAIN disk.blocks

\* A write whose client was told that it succeeded survives a crash; no failure
\* endangers that but the COMMIT itself's, whose result nobody looks at.
AckedIsDurable == failed \cap Unnoticed = {} => acked <= disk.head.rev

\* The record index, from which listRecords and the search for duplicate links
\* are answered, mirrors the live head, but for the keys whose index statement a
\* crash came before: nothing rebuilds the index when the store is opened.
IndexMirrorsHead ==
    up /\ pc = "idle" /\ failed \cap (Refused \cup Unnoticed \cup {"index"}) = {} =>
        \A k \in Keys \ torn :
            /\ k \in DOMAIN db.index <=> k \in DOMAIN head.tree
            /\ k \in DOMAIN head.tree => db.index[k] = head.tree[k]

\* Whenever the store is at rest, the firehose has heard of its head: a commit
\* that a crash left unannounced is announced by the next start.
HeadAnnounced ==
    (/\ up /\ ~boot /\ pc = "idle" /\ ~quiet
     /\ failed \cap (Refused \cup Unnoticed \cup {"append"}) = {})
        => last.rev = EffectiveRev

\* Each #commit names as its predecessor the revision announced before it,
\* unless an import moved the head in between, for which there is no event.
ChainUnbroken ==
    [][(/\ last' # last /\ last'.kind = "commit" /\ ~quiet
        /\ failed \cap (Refused \cup Unnoticed \cup {"append"}) = {})
            => last'.since = last.rev]_vars

\* createRecord leaves one link to its subject, whatever duplicates putRecord
\* and applyWrites left before, unless a crash hid one from the index.
CreateLeavesOneLink ==
    [][\A k \in Linked, v \in Values :
        failed = {} /\ create_record_locked(k, v) =>
        \A j \in (Linked \cap DOMAIN head'.tree) \ (torn \cup {k}) :
            head'.tree[j] # v]_vars

-----------------------------------------------------------------------------
(* What the repository says of the store and the code does not do.         *)

\* repo_store.c says of commit_persist that it persists the new head commit and
\* any new blocks atomically.  persisted_blocks is not put back on ROLLBACK: the
\* next commit's head is persisted without the blocks of the one that failed.
DurableHeadComplete == Blocks(disk.head) \subseteq DOMAIN disk.blocks

\* repo_store.h calls the blocks of a #commit an incremental CAR: with them, a
\* consumer that has the previous commit has the new one.  A block that an
\* earlier commit already persisted keeps the revision it was first stamped
\* with, and is left out.
IncrementalCarComplete ==
    failed = {} /\ last.kind = "commit" =>
        Blocks(last.commit) \subseteq Blocks(last.prev) \cup last.blocks
=============================================================================
