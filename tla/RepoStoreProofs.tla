---------------------------- MODULE RepoStoreProofs ----------------------------
(***************************************************************************)
(* What holds of the repository store for any records, any number of       *)
(* commits, crashes and database failures.                                 *)
(*                                                                         *)
(* The argument is one inductive invariant in five parts, each conditional *)
(* on the failures that would break it: what the connection sees is what a *)
(* restart would find, unless COMMIT left its transaction open (Fits); a   *)
(* writer past its transaction has its commit on disk (DurInv) and its     *)
(* blocks (CompleteInv); and, when no commit ever failed, memory and disk  *)
(* have the same head (HeadInv), the index differs from it only in what is *)
(* still to do or was torn (IndexInv), and the firehose has heard of it,   *)
(* or of the commit before the one under way (AnnInv).                     *)
(*                                                                         *)
(* The second half is about the account cache (AccountCache), which opens  *)
(* the repositories: for any threads and accounts, what a request holds    *)
(* stays open, and the cache keeps to its budget.                          *)
(***************************************************************************)
EXTENDS RepoStore, AccountCache, FiniteSetTheorems, SequenceTheorems, TLAPS

Changes == UNION {[S -> Values \cup {Gone}] : S \in SUBSET Keys}

HasDb(d) ==
    d \in [head : {d.head}, override : {d.override}, blocks : {d.blocks}, index : {d.index}]

Typed(d) ==
    /\ HasDb(d) /\ d.head \in Commits /\ d.override \in Nat /\ d.index \in Trees
    /\ \A b \in DOMAIN d.blocks : d.blocks[b] \in Nat

Fits ==
    /\ pc \in {"idle", "index", "clear", "fill", "override"}
    /\ up \in BOOLEAN /\ boot \in BOOLEAN /\ stuck \in BOOLEAN /\ quiet \in BOOLEAN
    /\ head \in Commits /\ override \in Nat /\ clock \in Nat /\ acked \in Nat
    /\ op \in [todo : Changes, prev : Commits] /\ last.rev \in Nat
    /\ Typed(db) /\ Typed(disk)
    /\ flushed \subseteq car
    /\ pc # "idle" => up /\ ~boot
    /\ stuck => "busy" \in failed
    /\ ~stuck \/ ~up => db = disk
    /\ disk.head.rev <= clock /\ head.rev <= clock

DurInv ==
    failed \cap Unnoticed = {} =>
        /\ acked <= disk.head.rev
        /\ pc # "idle" => disk.head = head

CompleteInv ==
    failed \cap {"late", "lost"} = {} =>
        /\ Blocks(disk.head) \subseteq DOMAIN disk.blocks
        /\ Blocks(db.head) \subseteq DOMAIN db.blocks
        /\ up => flushed \subseteq DOMAIN db.blocks
        /\ pc # "idle" => db.head = head

Sound == failed \cap (Refused \cup Unnoticed) = {}

HeadInv ==
    Sound =>
        /\ up => head = disk.head
        /\ pc = "index" => override = 0 /\ disk.override = 0
        /\ ~quiet => disk.override = 0 /\ (up => override = 0)
        /\ pc \in {"clear", "fill", "override"} => quiet

\* The index and the tree have the same record, or none, under k.
Agree(index, tree, k) ==
    /\ k \in DOMAIN index <=> k \in DOMAIN tree
    /\ k \in DOMAIN tree => index[k] = tree[k]

IndexInv ==
    Sound /\ "index" \notin failed =>
        /\ pc \in {"idle", "override"} =>
             \A k \in Keys \ torn : Agree(disk.index, disk.head.tree, k)
        /\ pc = "index" =>
             /\ \A k \in Keys \ torn :
                  k \notin DOMAIN op.todo => Agree(disk.index, disk.head.tree, k)
             /\ \A k \in DOMAIN op.todo :
                  IF op.todo[k] = Gone THEN k \notin DOMAIN head.tree
                  ELSE k \in DOMAIN head.tree /\ head.tree[k] = op.todo[k]
        /\ pc = "fill" => disk.index = NoTree

AnnInv ==
    Sound /\ "append" \notin failed =>
        /\ disk.head.rev = 0 => last.rev = 0
        /\ (~boot /\ ~quiet /\ pc = "idle") => last.rev = disk.head.rev
        /\ (~quiet /\ pc = "index") => last.rev = op.prev.rev

RepoInv == Fits /\ DurInv /\ CompleteInv /\ HeadInv /\ IndexInv /\ AnnInv

-----------------------------------------------------------------------------
(* Trees.                                                                  *)

\* A tree with writes applied has what was written and, elsewhere, what it had.
LEMMA WrittenAt ==
    ASSUME NEW tree, NEW ws, NEW k
    PROVE  /\ k \in DOMAIN ws =>
                /\ k \in DOMAIN Written(tree, ws) <=> ws[k] # Gone
                /\ ws[k] # Gone => Written(tree, ws)[k] = ws[k]
           /\ k \notin DOMAIN ws =>
                /\ k \in DOMAIN Written(tree, ws) <=> k \in DOMAIN tree
                /\ k \in DOMAIN tree => Written(tree, ws)[k] = tree[k]
BY DEF Written

LEMMA TreesAre == \A t : t \in Trees <=> \E S \in SUBSET Keys : t \in [S -> Values]
BY DEF Trees

LEMMA ChangesAre ==
    \A t : t \in Changes <=> \E S \in SUBSET Keys : t \in [S -> Values \cup {Gone}]
BY DEF Changes

LEMMA WrittenIsTree ==
    ASSUME NEW tree \in Trees, NEW ws \in Changes
    PROVE  Written(tree, ws) \in Trees
<1>1. PICK S \in SUBSET Keys : tree \in [S -> Values]
  BY TreesAre
<1>2. PICK U \in SUBSET Keys : ws \in [U -> Values \cup {Gone}]
  BY ChangesAre
<1> DEFINE D == {j \in DOMAIN tree \cup DOMAIN ws : j \in DOMAIN ws => ws[j] # Gone}
<1>3. D \in SUBSET Keys
  BY <1>1, <1>2
<1>4. Written(tree, ws) \in [D -> Values]
  BY <1>1, <1>2 DEF Written
<1> QED
  BY <1>3, <1>4, TreesAre

LEMMA EmptyTree == NoTree \in Trees /\ NoTree \in Changes /\ DOMAIN NoTree = {}
<1>1. NoTree \in [{} -> Values] /\ NoTree \in [{} -> Values \cup {Gone}] /\ DOMAIN NoTree = {}
  BY DEF NoTree
<1> QED
  BY <1>1, TreesAre, ChangesAre

LEMMA TreeIsChange == ASSUME NEW tree \in Trees PROVE tree \in Changes
<1>1. PICK S \in SUBSET Keys : tree \in [S -> Values]
  BY TreesAre
<1>2. tree \in [S -> Values \cup {Gone}]
  BY <1>1
<1> QED
  BY <1>2, ChangesAre

\* No record of a tree is Gone.
LEMMA TreeValues ==
    ASSUME NEW tree \in Trees
    PROVE  DOMAIN tree \subseteq Keys /\ \A k \in DOMAIN tree : tree[k] \in Values /\ tree[k] # Gone
<1>1. PICK S \in SUBSET Keys : tree \in [S -> Values]
  BY TreesAre
<1> QED
  BY <1>1, RepoStoreAssumption

-----------------------------------------------------------------------------
(* commit_persist.                                                         *)

\* What the database is after a transaction that stored c.
Stored(d, c) ==
    /\ HasDb(d) /\ d.head = c /\ d.override = 0 /\ d.index = db.index
    /\ DOMAIN d.blocks = DOMAIN db.blocks \cup (car' \ flushed)
    /\ \A b \in DOMAIN d.blocks : d.blocks[b] \in Nat

\* The five endings of a commit's transaction.
Committed(c, after) ==
    /\ ~stuck /\ stuck' = stuck /\ failed' = failed
    /\ Stored(db', c) /\ disk' = db' /\ flushed' = car' /\ pc' = after
Failed(after) ==
    /\ UNCHANGED <<db, disk, stuck>>
    /\ \/ "early" \in failed' /\ flushed' = flushed /\ pc' = "idle"
       \/ "late" \in failed' /\ flushed' = car' /\ pc' = "idle"
       \/ "lost" \in failed' /\ flushed' = car' /\ pc' = after
Hanging(c, after) ==
    /\ stuck' = TRUE /\ "busy" \in failed' /\ Stored(db', c) /\ disk' = disk
    /\ flushed' = car' /\ pc' = after

LEMMA PersistEndings ==
    ASSUME Fits, NEW c \in Commits, NEW after, commit_persist(c, after)
    PROVE  /\ head' = c /\ override' = 0 /\ car' = car \cup Blocks(c) /\ failed \subseteq failed'
           /\ Committed(c, after) \/ Failed(after) \/ Hanging(c, after)
<1>1. /\ head' = c /\ override' = 0 /\ car' = car \cup Blocks(c)
  BY DEF commit_persist
<1> DEFINE new == [db EXCEPT !.head = c, !.override = 0,
                             !.blocks = Inserted(@, car' \ flushed, c.rev)]
<1>2. Stored(new, c)
  <2>1. \A b, f, r : DOMAIN Inserted(b, f, r) = DOMAIN b \cup f
    BY DEF Inserted
  <2>0. ASSUME NEW b, NEW f, NEW r \in Nat, \A x \in DOMAIN b : b[x] \in Nat
        PROVE  \A x \in DOMAIN b \cup f : Inserted(b, f, r)[x] \in Nat
    BY <2>0 DEF Inserted
  <2>2. HasDb(db) /\ (\A b \in DOMAIN db.blocks : db.blocks[b] \in Nat) /\ c.rev \in Nat
    BY DEF Fits, Typed, Commits
  <2>3. /\ HasDb(new) /\ new.head = c /\ new.override = 0 /\ new.index = db.index
        /\ new.blocks = Inserted(db.blocks, car' \ flushed, c.rev)
    BY <2>2 DEF HasDb
  <2> HIDE DEF new
  <2>4. \A b \in DOMAIN new.blocks : new.blocks[b] \in Nat
    BY <2>0, <2>1, <2>2, <2>3
  <2>5. DOMAIN new.blocks = DOMAIN db.blocks \cup (car' \ flushed)
    BY <2>1, <2>3
  <2> QED
    BY <2>3, <2>4, <2>5 DEF Stored
<1>3. PICK e \in Endings :
        /\ flushed' = IF e = "early" THEN flushed ELSE car'
        /\ db' = IF e \in {"committed", "busy"} THEN new ELSE db
        /\ disk' = IF e = "committed" THEN new ELSE disk
        /\ stuck' = (stuck \/ e = "busy")
        /\ failed' = failed \cup ({e} \ {"committed"})
        /\ pc' = IF e \in {"early", "late"} THEN "idle" ELSE after
  BY DEF commit_persist
<1> HIDE DEF new
<1>4. /\ e \in {"committed", "early", "late", "lost", "busy"} /\ (stuck => e = "early")
  BY <1>3 DEF Endings
<1>5. stuck \in BOOLEAN
  BY DEF Fits
<1>6. CASE e = "committed"
  <2>1. /\ flushed' = car' /\ db' = new /\ disk' = new /\ failed' = failed /\ pc' = after
        /\ ~stuck /\ stuck' = stuck
    BY <1>3, <1>4, <1>5, <1>6
  <2> QED
    BY <1>1, <1>2, <2>1 DEF Committed
<1>7. CASE e \in {"early", "late", "lost"}
  <2>1. /\ db' = db /\ disk' = disk /\ e \in failed' /\ stuck' = stuck
        /\ flushed' = (IF e = "early" THEN flushed ELSE car')
        /\ pc' = (IF e \in {"early", "late"} THEN "idle" ELSE after)
    BY <1>3, <1>4, <1>5, <1>7
  <2> QED
    BY <1>1, <1>3, <1>7, <2>1 DEF Failed
<1>8. CASE e = "busy"
  <2>1. /\ flushed' = car' /\ db' = new /\ disk' = disk /\ "busy" \in failed' /\ pc' = after
        /\ stuck' = TRUE
    BY <1>3, <1>4, <1>5, <1>8
  <2> QED
    BY <1>1, <1>2, <1>3, <2>1 DEF Hanging
<1> QED
  BY <1>1, <1>3, <1>4, <1>6, <1>7, <1>8

\* The commit c is written to the idle store: the parts of the invariant that
\* do not depend on what is written.
LEMMA PersistKeeps ==
    ASSUME RepoInv, NEW c \in Commits, NEW after \in {"index", "clear"},
           commit_persist(c, after), up, ~boot, c.rev = clock + 1, clock' = clock + 1,
           UNCHANGED <<up, boot, last, acked>>, quiet' \in BOOLEAN,
           op' \in [todo : Changes, prev : Commits]
    PROVE  Fits' /\ DurInv' /\ CompleteInv'
<1>0. Fits /\ DurInv /\ CompleteInv /\ clock \in Nat
  BY DEF RepoInv, Fits
<1>1. /\ head' = c /\ override' = 0 /\ car' = car \cup Blocks(c) /\ failed \subseteq failed'
      /\ Committed(c, after) \/ Failed(after) \/ Hanging(c, after)
  BY <1>0, PersistEndings
<1>2. Fits'
  <2>1. Typed(db)' /\ Typed(disk)'
    BY <1>0, <1>1 DEF Fits, Typed, Committed, Failed, Hanging, Stored, Commits
  <2>2. /\ pc' \in {"idle", "index", "clear"} /\ stuck' \in BOOLEAN
        /\ flushed' \subseteq car'
    BY <1>0, <1>1 DEF Fits, Committed, Failed, Hanging
  <2>3. /\ stuck' => "busy" \in failed'
        /\ ~stuck' \/ ~up' => db' = disk'
        /\ disk'.head.rev <= clock' /\ head'.rev <= clock'
    BY <1>0, <1>1 DEF Fits, Committed, Failed, Hanging, Stored, Typed, Commits
  <2> QED
    BY <1>0, <1>1, <2>1, <2>2, <2>3 DEF Fits
<1>3. DurInv'
  <2>1. acked \in Nat /\ disk.head.rev \in Nat /\ disk.head.rev <= clock
    BY <1>0 DEF Fits, Typed, Commits
  <2> SUFFICES ASSUME failed' \cap Unnoticed = {}
               PROVE  acked <= disk'.head.rev /\ (pc' # "idle" => disk'.head = head')
    BY DEF DurInv
  <2>2. failed \cap Unnoticed = {} /\ acked <= disk.head.rev
    BY <1>0, <1>1 DEF DurInv
  <2>3. CASE Committed(c, after)
    BY <1>0, <1>1, <2>1, <2>2, <2>3 DEF Committed, Stored
  <2>4. CASE Failed(after)
    BY <2>2, <2>4 DEF Failed, Unnoticed
  <2>5. CASE Hanging(c, after)
    BY <2>5 DEF Hanging, Unnoticed
  <2> QED
    BY <1>1, <2>3, <2>4, <2>5
<1>4. CompleteInv'
  <2> SUFFICES ASSUME failed' \cap {"late", "lost"} = {}
               PROVE  /\ Blocks(disk'.head) \subseteq DOMAIN disk'.blocks
                      /\ Blocks(db'.head) \subseteq DOMAIN db'.blocks
                      /\ flushed' \subseteq DOMAIN db'.blocks
                      /\ pc' # "idle" => db'.head = head'
    BY DEF CompleteInv, Blocks
  <2>1. /\ Blocks(disk.head) \subseteq DOMAIN disk.blocks
        /\ Blocks(db.head) \subseteq DOMAIN db.blocks
        /\ flushed \subseteq DOMAIN db.blocks
    BY <1>0, <1>1 DEF CompleteInv
  <2>2. CASE Committed(c, after)
    BY <1>1, <2>1, <2>2 DEF Committed, Stored
  <2>3. CASE Failed(after)
    BY <2>1, <2>3 DEF Failed
  <2>4. CASE Hanging(c, after)
    BY <1>1, <2>1, <2>4 DEF Hanging, Stored
  <2> QED
    BY <1>1, <2>2, <2>3, <2>4
<1> QED
  BY <1>2, <1>3, <1>4

\* Where no commit failed, this one was committed.
LEMMA SoundCommitted ==
    ASSUME Fits, NEW c \in Commits, NEW after, commit_persist(c, after), Sound'
    PROVE  Sound /\ Committed(c, after) /\ head' = c /\ override' = 0 /\ db = disk
<1>1. /\ head' = c /\ override' = 0 /\ failed \subseteq failed'
      /\ Committed(c, after) \/ Failed(after) \/ Hanging(c, after)
  BY PersistEndings
<1>2. "early" \notin failed' /\ "late" \notin failed' /\ "lost" \notin failed' /\ "busy" \notin failed'
  BY DEF Sound, Refused, Unnoticed
<1>3. Committed(c, after)
  BY <1>1, <1>2 DEF Failed, Hanging
<1> QED
  BY <1>1, <1>3 DEF Sound, Refused, Unnoticed, Fits, Committed

-----------------------------------------------------------------------------
(* Writes.                                                                 *)

LEMMA CommitStep ==
    ASSUME RepoInv, NEW ws \in Changes, Commit(ws)
    PROVE  RepoInv'
<1>0. Fits /\ HeadInv /\ IndexInv /\ AnnInv /\ clock \in Nat /\ head \in Commits
  BY DEF RepoInv, Fits
<1> DEFINE c == [rev |-> clock + 1, tree |-> Written(head.tree, ws)]
<1>1. /\ up /\ pc = "idle" /\ ~boot /\ clock' = clock + 1 /\ commit_persist(c, "index")
      /\ op' = [todo |-> ws, prev |-> head]
      /\ UNCHANGED <<up, boot, last, quiet, torn, acked>>
  BY DEF Commit
<1>2. c \in Commits /\ c.rev = clock + 1 /\ c.tree = Written(head.tree, ws)
  BY <1>0, WrittenIsTree DEF Commits
<1>3. op'.todo = ws /\ op'.prev = head /\ op' \in [todo : Changes, prev : Commits]
  BY <1>0, <1>1
<1> HIDE DEF c
<1>4. Fits' /\ DurInv' /\ CompleteInv'
  BY <1>1, <1>2, <1>3, PersistKeeps DEF RepoInv, Fits
<1>5. ASSUME Sound'
      PROVE  /\ Sound /\ db = disk /\ head' = c /\ override' = 0 /\ disk'.head = c
             /\ disk'.override = 0 /\ disk'.index = disk.index /\ pc' = "index"
             /\ failed' = failed /\ head = disk.head
  <2>1. Sound /\ Committed(c, "index") /\ head' = c /\ override' = 0 /\ db = disk
    BY <1>0, <1>1, <1>2, <1>5, SoundCommitted
  <2> QED
    BY <1>0, <1>1, <2>1 DEF Committed, Stored, HeadInv
<1>6. HeadInv'
  BY <1>1, <1>5 DEF HeadInv
<1>7. IndexInv'
  <2> SUFFICES ASSUME Sound', "index" \notin failed'
               PROVE  /\ \A k \in Keys \ torn :
                           k \notin DOMAIN ws => Agree(disk'.index, c.tree, k)
                      /\ \A k \in DOMAIN ws :
                           IF ws[k] = Gone THEN k \notin DOMAIN c.tree
                           ELSE k \in DOMAIN c.tree /\ c.tree[k] = ws[k]
    BY <1>1, <1>3, <1>5 DEF IndexInv, Agree
  <2>1. \A k \in Keys \ torn : Agree(disk.index, head.tree, k)
    BY <1>0, <1>1, <1>5 DEF IndexInv
  <2>2. ASSUME NEW k \in Keys \ torn, k \notin DOMAIN ws
        PROVE  Agree(disk'.index, c.tree, k)
    BY <1>2, <1>5, <2>1, <2>2, WrittenAt DEF Agree
  <2>3. ASSUME NEW k \in DOMAIN ws
        PROVE  IF ws[k] = Gone THEN k \notin DOMAIN c.tree
               ELSE k \in DOMAIN c.tree /\ c.tree[k] = ws[k]
    BY <1>2, WrittenAt
  <2> QED
    BY <2>2, <2>3
<1>8. AnnInv'
  BY <1>0, <1>1, <1>2, <1>3, <1>5 DEF AnnInv
<1> QED
  BY <1>4, <1>6, <1>7, <1>8 DEF RepoInv

LEMMA ImportStep ==
    ASSUME RepoInv, NEW tree \in Trees, ImportCommit(tree)
    PROVE  RepoInv'
<1>0. Fits /\ HeadInv /\ AnnInv /\ clock \in Nat
  BY DEF RepoInv, Fits
<1> DEFINE c == [rev |-> clock + 1, tree |-> tree]
<1>1. /\ up /\ pc = "idle" /\ ~boot /\ clock' = clock + 1 /\ commit_persist(c, "clear")
      /\ quiet' = TRUE /\ UNCHANGED <<up, op, boot, last, torn, acked>>
  BY DEF ImportCommit
<1>2. c \in Commits /\ c.rev = clock + 1
  BY <1>0 DEF Commits
<1> HIDE DEF c
<1>3. op' \in [todo : Changes, prev : Commits]
  BY <1>0, <1>1 DEF Fits
<1>4. Fits' /\ DurInv' /\ CompleteInv'
  BY <1>1, <1>2, <1>3, PersistKeeps
<1>5. ASSUME Sound'
      PROVE  Sound /\ head' = c /\ disk'.head = c /\ pc' = "clear"
  <2>1. Sound /\ Committed(c, "clear") /\ head' = c
    BY <1>0, <1>1, <1>2, <1>5, SoundCommitted
  <2> QED
    BY <2>1 DEF Committed, Stored
<1>6. HeadInv'
  BY <1>1, <1>5 DEF HeadInv
<1>7. IndexInv'
  BY <1>5 DEF IndexInv
<1>8. AnnInv'
  BY <1>0, <1>1, <1>2, <1>5 DEF AnnInv
<1> QED
  BY <1>4, <1>6, <1>7, <1>8 DEF RepoInv

\* The writes of the four entry points are changes to records.
LEMMA WritesAreChanges ==
    ASSUME RepoInv
    PROVE  /\ \A k \in Keys, v \in Values : create_record_locked(k, v) =>
                \E ws \in Changes : Commit(ws)
           /\ \A k \in Keys, v \in Values : put_record_locked(k, v) =>
                \E ws \in Changes : Commit(ws)
           /\ \A k \in Keys : delete_record_locked(k) => \E ws \in Changes : Commit(ws)
           /\ \A j, k \in Keys, v, w \in Values \cup {Gone} :
                apply_writes_locked(j, k, v, w) => \E ws \in Changes : Commit(ws)
<1>1. ASSUME NEW k \in Keys, NEW v \in Values, create_record_locked(k, v)
      PROVE  \E ws \in Changes : Commit(ws)
  <2> DEFINE S == Conflicts(k, v) \cup {k}
             ws == [j \in S |-> IF j = k THEN v ELSE Gone]
  <2>1. db.index \in Trees
    BY DEF RepoInv, Fits, Typed
  <2>2. S \in SUBSET Keys
    BY <2>1, TreeValues DEF Conflicts
  <2>3. ws \in [S -> Values \cup {Gone}]
    OBVIOUS
  <2>4. ws \in Changes
    BY <2>2, <2>3, ChangesAre
  <2>5. Commit(ws)
    BY <1>1 DEF create_record_locked
  <2> QED
    BY <2>4, <2>5
<1>2. \A k \in Keys, v \in Values \cup {Gone} : [j \in {k} |-> v] \in Changes
  <2> TAKE k \in Keys, v \in Values \cup {Gone}
  <2>1. [j \in {k} |-> v] \in [{k} -> Values \cup {Gone}] /\ {k} \in SUBSET Keys
    OBVIOUS
  <2> QED
    BY <2>1, ChangesAre
<1>3. ASSUME NEW j \in Keys, NEW k \in Keys, NEW v \in Values \cup {Gone},
             NEW w \in Values \cup {Gone}
      PROVE  [i \in {j, k} |-> IF i = j THEN v ELSE w] \in Changes
  <2>1. /\ [i \in {j, k} |-> IF i = j THEN v ELSE w] \in [{j, k} -> Values \cup {Gone}]
        /\ {j, k} \in SUBSET Keys
    OBVIOUS
  <2> QED
    BY <2>1, ChangesAre
<1>4. ASSUME NEW k \in Keys, NEW v \in Values, put_record_locked(k, v)
      PROVE  \E ws \in Changes : Commit(ws)
  BY <1>2, <1>4 DEF put_record_locked
<1>5. ASSUME NEW k \in Keys, delete_record_locked(k)
      PROVE  \E ws \in Changes : Commit(ws)
  BY <1>2, <1>5 DEF delete_record_locked
<1>6. ASSUME NEW j \in Keys, NEW k \in Keys, NEW v \in Values \cup {Gone},
             NEW w \in Values \cup {Gone}, apply_writes_locked(j, k, v, w)
      PROVE  \E ws \in Changes : Commit(ws)
  BY <1>3, <1>6 DEF apply_writes_locked
<1> QED
  BY <1>1, <1>4, <1>5, <1>6

-----------------------------------------------------------------------------
(* Index statements.                                                       *)

\* A statement that would make the index t, or fails.
IndexStatement(t) ==
    \/ Autocommit([db EXCEPT !.index = t])
    \/ Ignored("index") /\ UNCHANGED <<db, disk>>

\* Nothing but the index changes in the database.
SameButIndex(d, e) ==
    /\ Typed(e) /\ e.head = d.head /\ e.override = d.override /\ e.blocks = d.blocks

LEMMA IndexStatementDoes ==
    ASSUME Fits, NEW t \in Trees, IndexStatement(t)
    PROVE  /\ SameButIndex(db, db') /\ SameButIndex(disk, disk')
           /\ failed \subseteq failed' /\ failed' \subseteq failed \cup {"index"}
           /\ ~stuck \/ ~up => db' = disk' \/ stuck
           /\ ~stuck /\ "index" \notin failed' => disk'.index = t
<1>0. Typed(db) /\ Typed(disk) /\ stuck \in BOOLEAN /\ (~stuck => db = disk)
  BY DEF Fits
<1> DEFINE new == [db EXCEPT !.index = t]
<1>1. SameButIndex(db, new) /\ new.index = t
  <2>1. /\ HasDb(new) /\ new.head = db.head /\ new.override = db.override
        /\ new.blocks = db.blocks /\ new.index = t
    BY <1>0 DEF Typed, HasDb
  <2> HIDE DEF new
  <2> QED
    BY <1>0, <2>1 DEF SameButIndex, Typed
<1>2. SameButIndex(db, db) /\ SameButIndex(disk, disk)
  BY <1>0 DEF SameButIndex
<1> HIDE DEF new
<1>3. CASE Autocommit(new)
  <2>1. db' = new /\ disk' = (IF stuck THEN disk ELSE new) /\ failed' = failed
    BY <1>3 DEF Autocommit
  <2> QED
    BY <1>0, <1>1, <1>2, <2>1
<1>4. CASE Ignored("index") /\ UNCHANGED <<db, disk>>
  <2>1. failed' = failed \cup {"index"} /\ db' = db /\ disk' = disk
    BY <1>4 DEF Ignored
  <2> QED
    BY <1>0, <1>2, <2>1
<1> QED
  BY <1>3, <1>4 DEF IndexStatement, new

\* The parts of the invariant that no index statement touches.
LEMMA IndexStatementKeeps ==
    ASSUME RepoInv, NEW t \in Trees, IndexStatement(t), up, ~boot,
           UNCHANGED <<up, boot, memVars, stuck, clock, last, quiet, acked>>,
           op' \in [todo : Changes, prev : Commits], op'.prev = op.prev,
           \/ pc = "index" /\ pc' = "index"
           \/ pc = "clear" /\ pc' = "fill"
           \/ pc = "fill" /\ pc' = "override"
    PROVE  /\ Fits' /\ DurInv' /\ CompleteInv' /\ HeadInv' /\ AnnInv' /\ failed \subseteq failed'
           /\ (Sound' => Sound) /\ SameButIndex(disk, disk')
           /\ Sound /\ "index" \notin failed' => disk'.index = t
<1>0. Fits /\ DurInv /\ CompleteInv /\ HeadInv /\ AnnInv
  BY DEF RepoInv
<1>1. /\ SameButIndex(db, db') /\ SameButIndex(disk, disk')
      /\ failed \subseteq failed' /\ failed' \subseteq failed \cup {"index"}
      /\ ~stuck => db' = disk'
      /\ ~stuck /\ "index" \notin failed' => disk'.index = t
  BY <1>0, IndexStatementDoes
<1>2. UNCHANGED <<head, override, car, flushed>>
  BY DEF memVars
<1>3. Fits'
  BY <1>0, <1>1, <1>2 DEF Fits, SameButIndex
<1>4. DurInv'
  BY <1>0, <1>1, <1>2 DEF DurInv, SameButIndex
<1>5. CompleteInv'
  BY <1>0, <1>1, <1>2 DEF CompleteInv, SameButIndex, Blocks
<1>6. Sound' => Sound
  BY <1>1 DEF Sound
<1>7. HeadInv'
  BY <1>0, <1>1, <1>2, <1>6 DEF HeadInv, SameButIndex
<1>8. AnnInv'
  BY <1>0, <1>1, <1>6 DEF AnnInv, SameButIndex
<1>9. Sound => ~stuck
  BY <1>0 DEF Fits, Sound, Unnoticed
<1> QED
  BY <1>1, <1>3, <1>4, <1>5, <1>6, <1>7, <1>8, <1>9

LEMMA IndexOneStep ==
    ASSUME RepoInv, NEW k \in Keys, IndexOne(k)
    PROVE  RepoInv'
<1>0. Fits /\ HeadInv /\ IndexInv /\ op \in [todo : Changes, prev : Commits]
  BY DEF RepoInv, Fits
<1> DEFINE w == [j \in {k} |-> op.todo[k]]
           t == Written(db.index, w)
           todo == [j \in DOMAIN op.todo \ {k} |-> op.todo[j]]
<1>1. /\ up /\ pc = "index" /\ k \in DOMAIN op.todo /\ torn' = torn \ {k}
      /\ op' = [op EXCEPT !.todo = todo] /\ IndexStatement(t)
      /\ UNCHANGED <<up, pc, memVars, stuck, boot, clock, last, quiet, acked>>
  BY DEF IndexOne, IndexStatement
<1>2. PICK S \in SUBSET Keys : op.todo \in [S -> Values \cup {Gone}]
  BY <1>0, ChangesAre
<1>3. todo \in Changes /\ DOMAIN todo = DOMAIN op.todo \ {k} /\ \A j \in DOMAIN todo : todo[j] = op.todo[j]
  <2>1. todo \in [S \ {k} -> Values \cup {Gone}] /\ S \ {k} \in SUBSET Keys
    BY <1>2
  <2> QED
    BY <2>1, ChangesAre
<1>4. w \in Changes /\ DOMAIN w = {k} /\ w[k] = op.todo[k]
  <2>1. w \in [{k} -> Values \cup {Gone}] /\ {k} \in SUBSET Keys
    BY <1>1, <1>2
  <2> QED
    BY <2>1, ChangesAre
<1> HIDE DEF w, todo
<1>5. t \in Trees
  BY <1>0, <1>4, WrittenIsTree DEF Fits, Typed
<1>6. /\ \A j : j # k => /\ j \in DOMAIN t <=> j \in DOMAIN db.index
                         /\ j \in DOMAIN db.index => t[j] = db.index[j]
      /\ k \in DOMAIN t <=> op.todo[k] # Gone
      /\ op.todo[k] # Gone => t[k] = op.todo[k]
  BY <1>4, WrittenAt
<1> HIDE DEF t
<1>7. op' \in [todo : Changes, prev : Commits] /\ op'.prev = op.prev /\ op'.todo = todo
  BY <1>0, <1>1, <1>3
<1>8. /\ Fits' /\ DurInv' /\ CompleteInv' /\ HeadInv' /\ AnnInv' /\ failed \subseteq failed'
      /\ (Sound' => Sound) /\ SameButIndex(disk, disk')
      /\ Sound /\ "index" \notin failed' => disk'.index = t
  BY <1>0, <1>1, <1>5, <1>7, IndexStatementKeeps DEF Fits
<1>9. IndexInv'
  <2> SUFFICES ASSUME Sound', "index" \notin failed'
               PROVE  /\ \A j \in Keys \ torn' :
                           j \notin DOMAIN todo => Agree(t, disk.head.tree, j)
                      /\ \A j \in DOMAIN todo :
                           IF todo[j] = Gone THEN j \notin DOMAIN head.tree
                           ELSE j \in DOMAIN head.tree /\ head.tree[j] = todo[j]
    BY <1>1, <1>7, <1>8 DEF IndexInv, Agree, SameButIndex, memVars
  <2>1. Sound /\ "index" \notin failed
    BY <1>8
  <2>2. disk.head = head /\ db = disk
    BY <1>0, <1>1, <2>1 DEF HeadInv, Fits, Sound, Unnoticed
  <2>3. /\ \A j \in Keys \ torn :
             j \notin DOMAIN op.todo => Agree(disk.index, disk.head.tree, j)
        /\ \A j \in DOMAIN op.todo :
             IF op.todo[j] = Gone THEN j \notin DOMAIN head.tree
             ELSE j \in DOMAIN head.tree /\ head.tree[j] = op.todo[j]
    BY <1>0, <1>1, <2>1 DEF IndexInv
  <2>4. Agree(t, disk.head.tree, k)
    BY <1>1, <1>6, <2>2, <2>3 DEF Agree
  <2>5. ASSUME NEW j \in Keys \ torn', j \notin DOMAIN todo
        PROVE  Agree(t, disk.head.tree, j)
    <3>1. CASE j = k
      BY <2>4, <3>1
    <3>2. CASE j # k
      <4>1. j \in Keys \ torn /\ j \notin DOMAIN op.todo
        BY <1>1, <1>3, <2>5, <3>2
      <4>2. Agree(db.index, disk.head.tree, j)
        BY <2>2, <2>3, <4>1
      <4> QED
        BY <1>6, <3>2, <4>2 DEF Agree
    <3> QED
      BY <3>1, <3>2
  <2>6. \A j \in DOMAIN todo :
          IF todo[j] = Gone THEN j \notin DOMAIN head.tree
          ELSE j \in DOMAIN head.tree /\ head.tree[j] = todo[j]
    BY <1>3, <2>3
  <2> QED
    BY <2>5, <2>6
<1> QED
  BY <1>8, <1>9 DEF RepoInv

LEMMA ReindexStep ==
    ASSUME RepoInv, ReindexClear \/ ReindexFill
    PROVE  RepoInv'
<1>0. Fits /\ HeadInv /\ IndexInv /\ op \in [todo : Changes, prev : Commits]
  BY DEF RepoInv, Fits
<1>1. CASE ReindexClear
  <2>1. /\ up /\ pc = "clear" /\ pc' = "fill" /\ IndexStatement(NoTree)
        /\ UNCHANGED <<up, memVars, stuck, op, boot, clock, last, quiet, torn, acked>>
    BY <1>1 DEF ReindexClear, IndexStatement
  <2>2. /\ Fits' /\ DurInv' /\ CompleteInv' /\ HeadInv' /\ AnnInv' /\ failed \subseteq failed'
        /\ Sound' => Sound
        /\ Sound /\ "index" \notin failed' => disk'.index = NoTree
    BY <1>0, <2>1, EmptyTree, IndexStatementKeeps DEF Fits
  <2>3. IndexInv'
    BY <2>1, <2>2 DEF IndexInv
  <2> QED
    BY <2>2, <2>3 DEF RepoInv
<1>2. CASE ReindexFill
  <2> DEFINE t == Written(db.index, head.tree)
  <2>1. /\ up /\ pc = "fill" /\ pc' = "override" /\ torn' = {} /\ IndexStatement(t)
        /\ UNCHANGED <<up, memVars, stuck, op, boot, clock, last, quiet, acked>>
    BY <1>2 DEF ReindexFill, IndexStatement
  <2>2. head.tree \in Trees /\ t \in Trees
    BY <1>0, TreeIsChange, WrittenIsTree DEF Fits, Typed, Commits
  <2>3. ASSUME db.index = NoTree, NEW k PROVE Agree(t, head.tree, k)
    <3>1. /\ k \in DOMAIN head.tree => /\ k \in DOMAIN t <=> head.tree[k] # Gone
                                       /\ head.tree[k] # Gone => t[k] = head.tree[k]
          /\ k \notin DOMAIN head.tree => (k \in DOMAIN t <=> k \in DOMAIN db.index)
      BY WrittenAt
    <3>2. k \in DOMAIN head.tree => head.tree[k] # Gone
      BY <2>2, TreeValues
    <3> HIDE DEF t
    <3> QED
      BY <2>3, <3>1, <3>2, EmptyTree DEF Agree
  <2> HIDE DEF t
  <2>4. /\ Fits' /\ DurInv' /\ CompleteInv' /\ HeadInv' /\ AnnInv' /\ failed \subseteq failed'
        /\ (Sound' => Sound) /\ SameButIndex(disk, disk')
        /\ Sound /\ "index" \notin failed' => disk'.index = t
    BY <1>0, <2>1, <2>2, IndexStatementKeeps DEF Fits
  <2>5. IndexInv'
    <3> SUFFICES ASSUME Sound', "index" \notin failed'
                 PROVE  \A k \in Keys : Agree(t, disk.head.tree, k)
      BY <2>1, <2>4 DEF IndexInv, Agree, SameButIndex
    <3>1. Sound /\ "index" \notin failed
      BY <2>4
    <3>2. db.index = NoTree /\ head = disk.head
      BY <1>0, <2>1, <3>1 DEF HeadInv, Fits, Sound, Unnoticed, IndexInv
    <3> QED
      BY <2>3, <3>2
  <2> QED
    BY <2>4, <2>5 DEF RepoInv
<1> QED
  BY <1>1, <1>2

-----------------------------------------------------------------------------
(* The other steps.                                                        *)

LEMMA EmitStep ==
    ASSUME RepoInv, emit_commit_event_ops
    PROVE  RepoInv'
<1>0. Fits /\ DurInv /\ CompleteInv /\ HeadInv /\ IndexInv /\ AnnInv
  BY DEF RepoInv
<1>1. /\ up /\ pc = "index" /\ DOMAIN op.todo = {} /\ quiet' = FALSE /\ acked' = head.rev
      /\ pc' = "idle" /\ op' = NoOp
      /\ UNCHANGED <<up, head, override, car, flushed, db, disk, stuck, boot, clock, torn>>
  BY DEF emit_commit_event_ops, memVars, dbVars
<1>2. \/ last'.rev = head.rev /\ failed' = failed
      \/ failed' = failed \cup {"append"} /\ last' = last
  BY DEF emit_commit_event_ops, Announce, Ignored
<1>3. NoOp \in [todo : Changes, prev : Commits] /\ NoOp.todo = NoTree /\ head.rev \in Nat
  BY <1>0, EmptyTree DEF NoOp, NoCommit, Commits, Fits
<1>4. Fits'
  BY <1>0, <1>1, <1>2, <1>3 DEF Fits
<1>5. DurInv'
  BY <1>0, <1>1, <1>2 DEF DurInv, Fits, Typed, Commits
<1>6. CompleteInv'
  BY <1>0, <1>1, <1>2 DEF CompleteInv, Blocks
<1>7. Sound' => Sound
  BY <1>2 DEF Sound
<1>8. HeadInv'
  BY <1>0, <1>1, <1>7 DEF HeadInv
<1>9. IndexInv'
  BY <1>0, <1>1, <1>2, <1>7 DEF IndexInv, Agree
<1>10. AnnInv'
  BY <1>0, <1>1, <1>2, <1>7 DEF AnnInv, HeadInv
<1> QED
  BY <1>4, <1>5, <1>6, <1>8, <1>9, <1>10 DEF RepoInv

LEMMA OverrideStep ==
    ASSUME RepoInv, set_rev_override
    PROVE  RepoInv'
<1>0. Fits /\ DurInv /\ CompleteInv /\ HeadInv /\ IndexInv /\ AnnInv /\ clock \in Nat
  BY DEF RepoInv, Fits
<1> DEFINE new == [db EXCEPT !.head = head, !.override = clock + 1]
<1>1. /\ up /\ pc = "override" /\ acked' = head.rev /\ pc' = "idle" /\ clock' = clock + 1
      /\ override' = clock + 1
      /\ UNCHANGED <<up, head, car, flushed, stuck, op, boot, last, quiet, torn>>
  BY DEF set_rev_override
<1>2. Autocommit(new) \/ (Ignored("override") /\ UNCHANGED <<db, disk>>)
  BY DEF set_rev_override
<1>3. /\ Typed(new) /\ new.head = head /\ new.override = clock + 1
      /\ new.blocks = db.blocks /\ new.index = db.index
  <2>1. /\ HasDb(new) /\ new.head = head /\ new.override = clock + 1
        /\ new.blocks = db.blocks /\ new.index = db.index
    BY <1>0 DEF Fits, Typed, HasDb
  <2> HIDE DEF new
  <2> QED
    BY <1>0, <2>1 DEF Fits, Typed
<1> HIDE DEF new
<1>4. /\ failed \subseteq failed' /\ failed' \subseteq failed \cup {"override"}
      /\ \/ db' = new /\ disk' = (IF stuck THEN disk ELSE new)
         \/ db' = db /\ disk' = disk
  BY <1>2 DEF Autocommit, Ignored
<1>5. head.rev \in Nat /\ disk.head.rev \in Nat /\ disk.head.rev <= clock
  BY <1>0 DEF Fits, Typed, Commits
<1>6. Fits'
  <2>1. Typed(db)' /\ Typed(disk)' /\ disk'.head.rev <= clock'
    BY <1>0, <1>1, <1>3, <1>4, <1>5 DEF Fits, Typed
  <2>2. ~stuck' \/ ~up' => db' = disk'
    BY <1>0, <1>1, <1>4 DEF Fits
  <2> QED
    BY <1>0, <1>1, <1>4, <1>5, <2>1, <2>2 DEF Fits
<1>7. DurInv'
  <2> SUFFICES ASSUME failed' \cap Unnoticed = {} PROVE head.rev <= disk'.head.rev
    BY <1>1 DEF DurInv
  <2>1. disk.head = head
    BY <1>0, <1>1, <1>4 DEF DurInv
  <2> QED
    BY <1>3, <1>4, <1>5, <2>1
<1>8. CompleteInv'
  <2> SUFFICES ASSUME failed' \cap {"late", "lost"} = {}
               PROVE  /\ Blocks(disk'.head) \subseteq DOMAIN disk'.blocks
                      /\ Blocks(db'.head) \subseteq DOMAIN db'.blocks
                      /\ flushed' \subseteq DOMAIN db'.blocks
    BY <1>1 DEF CompleteInv, Blocks
  <2>1. /\ Blocks(disk.head) \subseteq DOMAIN disk.blocks
        /\ Blocks(db.head) \subseteq DOMAIN db.blocks
        /\ flushed \subseteq DOMAIN db.blocks /\ db.head = head
    BY <1>0, <1>1, <1>4 DEF CompleteInv
  <2> QED
    BY <1>1, <1>3, <1>4, <2>1
<1>9. Sound' => Sound /\ ~stuck /\ db = disk
  BY <1>0, <1>4 DEF Sound, Fits, Unnoticed
<1>10. HeadInv'
  BY <1>0, <1>1, <1>3, <1>4, <1>9 DEF HeadInv
<1>11. Sound' => disk'.head = disk.head /\ disk'.index = disk.index
  BY <1>0, <1>1, <1>3, <1>4, <1>9 DEF HeadInv
<1>12. IndexInv'
  BY <1>0, <1>1, <1>4, <1>9, <1>11 DEF IndexInv, Agree
<1>13. AnnInv'
  BY <1>0, <1>1, <1>4, <1>9, <1>11 DEF AnnInv, HeadInv
<1> QED
  BY <1>6, <1>7, <1>8, <1>10, <1>12, <1>13 DEF RepoInv

LEMMA OpenStep ==
    ASSUME RepoInv, Open
    PROVE  RepoInv'
<1>0. Fits /\ DurInv /\ CompleteInv /\ HeadInv /\ IndexInv /\ AnnInv
  BY DEF RepoInv
<1>1. /\ ~up /\ up' = TRUE /\ head' = disk.head /\ override' = disk.override
      /\ car' = DOMAIN disk.blocks /\ flushed' = DOMAIN disk.blocks
      /\ db' = disk /\ stuck' = FALSE
      /\ UNCHANGED <<pc, disk, op, boot, clock, last, quiet, torn, acked, failed>>
  BY DEF Open
<1>2. pc = "idle"
  BY <1>0, <1>1 DEF Fits
<1>3. Fits'
  BY <1>0, <1>1, <1>2 DEF Fits, Typed
<1>4. DurInv'
  BY <1>0, <1>1, <1>2 DEF DurInv
<1>5. CompleteInv'
  BY <1>0, <1>1, <1>2 DEF CompleteInv, Blocks
<1>6. Sound' = Sound
  BY <1>1 DEF Sound
<1>7. HeadInv'
  BY <1>0, <1>1, <1>2, <1>6 DEF HeadInv
<1>8. IndexInv'
  BY <1>0, <1>1, <1>2, <1>6 DEF IndexInv, Agree
<1>9. AnnInv'
  BY <1>0, <1>1, <1>2, <1>6 DEF AnnInv
<1> QED
  BY <1>3, <1>4, <1>5, <1>7, <1>8, <1>9 DEF RepoInv

LEMMA ReconcileStep ==
    ASSUME RepoInv, reconcile_repo
    PROVE  RepoInv'
<1>0. Fits /\ DurInv /\ CompleteInv /\ HeadInv /\ IndexInv /\ AnnInv
  BY DEF RepoInv
<1>1. /\ up /\ boot /\ boot' = FALSE
      /\ UNCHANGED <<up, pc, head, override, car, flushed, db, disk, stuck, op, clock, quiet,
                     torn, acked>>
  BY DEF reconcile_repo, memVars, dbVars
<1>2. \/ (head.rev = 0 \/ last.rev = EffectiveRev) /\ last' = last /\ failed' = failed
      \/ head.rev # 0 /\ last'.rev = EffectiveRev /\ failed' = failed
      \/ failed' = failed \cup {"append"} /\ last' = last
  BY DEF reconcile_repo, Announce, Ignored
<1>3. pc = "idle" /\ EffectiveRev \in Nat
  BY <1>0, <1>1 DEF Fits, EffectiveRev, Commits
<1>4. Fits'
  BY <1>0, <1>1, <1>2, <1>3 DEF Fits
<1>5. DurInv'
  BY <1>0, <1>1, <1>2, <1>3 DEF DurInv
<1>6. CompleteInv'
  BY <1>0, <1>1, <1>2, <1>3 DEF CompleteInv, Blocks
<1>7. Sound' => Sound
  BY <1>2 DEF Sound
<1>8. HeadInv'
  BY <1>0, <1>1, <1>3, <1>7 DEF HeadInv
<1>9. IndexInv'
  BY <1>0, <1>1, <1>2, <1>3, <1>7 DEF IndexInv, Agree
<1>10. AnnInv'
  BY <1>0, <1>1, <1>2, <1>3, <1>7 DEF AnnInv, HeadInv, EffectiveRev
<1> QED
  BY <1>4, <1>5, <1>6, <1>8, <1>9, <1>10 DEF RepoInv

LEMMA EvictStep ==
    ASSUME RepoInv, Evict
    PROVE  RepoInv'
<1>0. Fits /\ DurInv /\ CompleteInv /\ HeadInv /\ IndexInv /\ AnnInv
  BY DEF RepoInv
<1>1. /\ up /\ pc = "idle" /\ up' = FALSE /\ db' = disk
      /\ UNCHANGED <<pc, head, override, car, flushed, disk, stuck, op, boot, clock, last, quiet,
                     torn, acked, failed>>
  BY DEF Evict, memVars
<1>2. Sound' = Sound
  BY <1>1 DEF Sound
<1>3. Fits'
  BY <1>0, <1>1 DEF Fits, Typed
<1>4. DurInv' /\ CompleteInv'
  BY <1>0, <1>1 DEF DurInv, CompleteInv, Blocks
<1>5. HeadInv' /\ IndexInv' /\ AnnInv'
  BY <1>0, <1>1, <1>2 DEF HeadInv, IndexInv, AnnInv, Agree
<1> QED
  BY <1>3, <1>4, <1>5 DEF RepoInv

LEMMA CrashStep ==
    ASSUME RepoInv, Crash
    PROVE  RepoInv'
<1>0. Fits /\ DurInv /\ CompleteInv /\ HeadInv /\ IndexInv /\ AnnInv
  BY DEF RepoInv
<1>1. /\ up /\ up' = FALSE /\ boot' = TRUE /\ pc' = "idle" /\ op' = NoOp /\ db' = disk
      /\ UNCHANGED <<head, override, car, flushed, disk, stuck, clock, last, quiet,
                     acked, failed>>
  BY DEF Crash, memVars
<1>2. NoOp \in [todo : Changes, prev : Commits]
  BY EmptyTree DEF NoOp, NoCommit, Commits
<1>3. /\ pc = "index" => torn' = torn \cup DOMAIN op.todo
      /\ pc \in {"clear", "fill"} => torn' = Keys
      /\ pc \in {"idle", "override"} => torn' = torn
  BY DEF Crash
<1>4. Sound' = Sound
  BY <1>1 DEF Sound
<1>5. Fits'
  BY <1>0, <1>1, <1>2 DEF Fits, Typed
<1>6. DurInv' /\ CompleteInv'
  BY <1>0, <1>1 DEF DurInv, CompleteInv, Blocks
<1>7. HeadInv' /\ AnnInv'
  BY <1>0, <1>1, <1>4 DEF HeadInv, AnnInv
<1>8. IndexInv'
  BY <1>0, <1>1, <1>3, <1>4 DEF IndexInv, Agree, Fits
<1> QED
  BY <1>5, <1>6, <1>7, <1>8 DEF RepoInv

-----------------------------------------------------------------------------
LEMMA InitRepoInv == Init => RepoInv
<1> SUFFICES ASSUME Init PROVE RepoInv
  OBVIOUS
<1>1. /\ NoCommit \in Commits /\ NoCommit.rev = 0 /\ NoCommit.tree = NoTree
      /\ NoOp \in [todo : Changes, prev : Commits] /\ NoEvent.rev = 0
  BY EmptyTree DEF NoOp, NoCommit, NoEvent, Commits
<1>2. /\ HasDb(db) /\ db.head = NoCommit /\ db.override = 0 /\ db.index = NoTree /\ disk = db
      /\ DOMAIN db.blocks = {}
  BY DEF Init, HasDb
<1>3. Typed(db) /\ Typed(disk)
  BY <1>1, <1>2, EmptyTree DEF Typed
<1>4. Fits
  <2>1. /\ pc = "idle" /\ up = FALSE /\ boot = TRUE /\ stuck = FALSE /\ quiet = FALSE
        /\ head = NoCommit /\ override = 0 /\ clock = 0 /\ acked = 0 /\ op = NoOp
        /\ last = NoEvent /\ flushed = {} /\ car = {}
    BY DEF Init
  <2> QED
    <3>1. head \in Commits /\ op \in [todo : Changes, prev : Commits] /\ last.rev \in Nat
      BY <1>1, <2>1
    <3>2. disk.head.rev <= clock /\ head.rev <= clock
      BY <1>1, <1>2, <2>1
    <3> QED
      BY <1>2, <1>3, <2>1, <3>1, <3>2 DEF Fits
<1>5. DurInv /\ CompleteInv
  BY <1>1, <1>2 DEF DurInv, CompleteInv, Init, Blocks
<1>6. HeadInv /\ IndexInv /\ AnnInv
  BY <1>1, <1>2 DEF HeadInv, IndexInv, AnnInv, Init, Agree
<1> QED
  BY <1>4, <1>5, <1>6 DEF RepoInv

LEMMA NextRepoInv == RepoInv /\ [Next]_vars => RepoInv'
<1> SUFFICES ASSUME RepoInv, [Next]_vars PROVE RepoInv'
  OBVIOUS
<1>1. CASE \E ws \in Changes : Commit(ws)
  BY <1>1, CommitStep
<1>2. CASE \E k \in Keys, v \in Values : create_record_locked(k, v) \/ put_record_locked(k, v)
  BY <1>1, <1>2, WritesAreChanges
<1>3. CASE \E k \in Keys : delete_record_locked(k)
  BY <1>1, <1>3, WritesAreChanges
<1>4. CASE \E j, k \in Keys, v, w \in Values \cup {Gone} : apply_writes_locked(j, k, v, w)
  BY <1>1, <1>4, WritesAreChanges
<1>5. CASE \E k \in Keys : IndexOne(k)
  BY <1>5, IndexOneStep
<1>6. CASE \E tree \in Trees : ImportCommit(tree)
  BY <1>6, ImportStep
<1>7. CASE UNCHANGED vars
  <2>1. /\ UNCHANGED <<up, pc, head, override, car, flushed, db, disk, stuck, op, boot, clock>>
        /\ UNCHANGED <<last, quiet, torn, acked, failed>>
    BY <1>7 DEF vars, memVars, dbVars
  <2>2. Fits' /\ DurInv' /\ CompleteInv'
    BY <2>1 DEF RepoInv, Fits, Typed, HasDb, DurInv, CompleteInv, Blocks
  <2>3. HeadInv' /\ IndexInv' /\ AnnInv'
    BY <2>1 DEF RepoInv, HeadInv, IndexInv, AnnInv, Sound, Agree
  <2> QED
    BY <2>2, <2>3 DEF RepoInv
<1>8. CASE emit_commit_event_ops \/ ReindexClear \/ ReindexFill \/ set_rev_override
  BY <1>8, EmitStep, ReindexStep, OverrideStep
<1>9. CASE Open \/ reconcile_repo \/ Evict \/ Crash
  BY <1>9, OpenStep, ReconcileStep, EvictStep, CrashStep
<1> QED
  BY <1>2, <1>3, <1>4, <1>5, <1>6, <1>7, <1>8, <1>9 DEF Next

\* The inductive invariant of the repository store holds in every reachable
\* state.
THEOREM RepoInvariant == Spec => []RepoInv
BY InitRepoInv, NextRepoInv, PTL DEF Spec

\* The values of the store's variables.
THEOREM RepoTypes == Spec => []TypeOK
<1>1. RepoInv => TypeOK
  BY DEF RepoInv, Fits, Typed, TypeOK
<1> QED
  BY <1>1, RepoInvariant, PTL

\* commit_persist stores a commit's blocks with its head row: a restart at any
\* moment finds a whole repository, unless a transaction was rolled back after
\* persisted_blocks had moved.
THEOREM DurableHeadHasItsBlocks == Spec => []HeadCompleteUnlessRolledBack
<1>1. RepoInv => HeadCompleteUnlessRolledBack
  BY DEF RepoInv, CompleteInv, HeadCompleteUnlessRolledBack
<1> QED
  BY <1>1, RepoInvariant, PTL

\* A writer that was told it succeeded, after emit_commit_event_ops or after an
\* import, has its commit on disk, unless the unchecked COMMIT itself failed.
THEOREM AcknowledgedWritesSurvive == Spec => []AckedIsDurable
<1>1. RepoInv => AckedIsDurable
  BY DEF RepoInv, DurInv, AckedIsDurable
<1> QED
  BY <1>1, RepoInvariant, PTL

\* The record index of a store at rest is its head's tree, key by key, but for
\* the keys whose index statement a crash came before.
THEOREM IndexFollowsHead == Spec => []IndexMirrorsHead
<1>1. RepoInv => IndexMirrorsHead
  <2> SUFFICES ASSUME RepoInv, up, pc = "idle",
                      failed \cap (Refused \cup Unnoticed \cup {"index"}) = {},
                      NEW k \in Keys \ torn
               PROVE  Agree(db.index, head.tree, k)
    BY DEF IndexMirrorsHead, Agree
  <2>1. Sound /\ "index" \notin failed
    BY DEF Sound
  <2>2. head = disk.head /\ db = disk
    BY <2>1 DEF RepoInv, HeadInv, Fits, Sound, Unnoticed
  <2> QED
    BY <2>1, <2>2 DEF RepoInv, IndexInv
<1> QED
  BY <1>1, RepoInvariant, PTL

\* The firehose has heard of the head of a store at rest: emit_commit_event_ops
\* follows every commit and reconcile_repo makes up for a crash in between.
THEOREM HeadIsAnnounced == Spec => []HeadAnnounced
<1>1. RepoInv => HeadAnnounced
  <2> SUFFICES ASSUME RepoInv, up, ~boot, pc = "idle", ~quiet,
                      failed \cap (Refused \cup Unnoticed \cup {"append"}) = {}
               PROVE  last.rev = EffectiveRev
    BY DEF HeadAnnounced
  <2>1. Sound /\ "append" \notin failed
    BY DEF Sound
  <2> QED
    BY <2>1 DEF RepoInv, HeadInv, AnnInv, EffectiveRev
<1> QED
  BY <1>1, RepoInvariant, PTL

\* Each #commit of emit_commit_event_ops names the revision announced before it
\* as its predecessor, across evictions, crashes and restarts.
THEOREM CommitsFormAChain == Spec => ChainUnbroken
<1> DEFINE Step == (/\ last' # last /\ last'.kind = "commit" /\ ~quiet
                    /\ failed \cap (Refused \cup Unnoticed \cup {"append"}) = {})
                       => last'.since = last.rev
<1>1. RepoInv /\ [Next]_vars => [Step]_vars
  <2> SUFFICES ASSUME RepoInv, [Next]_vars, last' # last, last'.kind = "commit", ~quiet,
                      failed \cap (Refused \cup Unnoticed \cup {"append"}) = {}
               PROVE  last'.since = last.rev
    OBVIOUS
  <2>1. Sound /\ "append" \notin failed
    BY DEF Sound
  <2>2. ~ (\E ws : Commit(ws)) /\ ~ (\E tree : ImportCommit(tree)) /\ ~ (\E k : IndexOne(k))
    BY DEF Commit, ImportCommit, IndexOne
  <2>3. ~ (\E k, v : create_record_locked(k, v) \/ put_record_locked(k, v))
    BY <2>2 DEF create_record_locked, put_record_locked
  <2>4. /\ ~ (\E k : delete_record_locked(k))
        /\ ~ (\E j, k, v, w : apply_writes_locked(j, k, v, w))
    BY <2>2 DEF delete_record_locked, apply_writes_locked
  <2>5. ~ (ReindexClear \/ ReindexFill \/ set_rev_override \/ Open \/ Evict \/ Crash
            \/ UNCHANGED vars)
    BY DEF ReindexClear, ReindexFill, set_rev_override, Open, Evict, Crash, vars
  <2>6. CASE emit_commit_event_ops
    <3>1. pc = "index" /\ last'.since = op.prev.rev
      BY <2>6 DEF emit_commit_event_ops, Announce
    <3>2. last.rev = op.prev.rev
      BY <2>1, <3>1 DEF RepoInv, AnnInv
    <3> QED
      BY <3>1, <3>2
  <2>7. CASE reconcile_repo
    <3>1. last'.kind = "sync"
      BY <2>7 DEF reconcile_repo, Announce
    <3> QED
      BY <3>1
  <2> QED
    BY <2>2, <2>3, <2>4, <2>5, <2>6, <2>7 DEF Next
<1>2. Spec => [][Step]_vars
  BY <1>1, RepoInvariant, PTL DEF Spec
<1> QED
  BY <1>2 DEF ChainUnbroken

\* createRecord's commit removes every other link to its subject that the index
\* knows of: what it leaves is one link per subject, whatever putRecord and
\* applyWrites left before.
THEOREM CreateRemovesDuplicates == Spec => CreateLeavesOneLink
<1> DEFINE Step == \A k \in Linked, v \in Values :
                     failed = {} /\ create_record_locked(k, v) =>
                     \A j \in (Linked \cap DOMAIN head'.tree) \ (torn \cup {k}) :
                         head'.tree[j] # v
<1>1. RepoInv /\ [Next]_vars => [Step]_vars
  <2> SUFFICES ASSUME RepoInv, NEW k \in Linked, NEW v \in Values, failed = {},
                      create_record_locked(k, v),
                      NEW j \in (Linked \cap DOMAIN head'.tree) \ (torn \cup {k}),
                      head'.tree[j] = v
               PROVE  FALSE
    OBVIOUS
  <2> DEFINE ws == [i \in Conflicts(k, v) \cup {k} |-> IF i = k THEN v ELSE Gone]
  <2>1. Commit(ws)
    BY DEF create_record_locked
  <2>2. /\ DOMAIN ws = Conflicts(k, v) \cup {k}
        /\ \A i \in Conflicts(k, v) : i # k => ws[i] = Gone
    OBVIOUS
  <2> HIDE DEF ws
  <2>3. head' = [rev |-> clock + 1, tree |-> Written(head.tree, ws)] /\ up /\ pc = "idle"
    BY <2>1 DEF Commit, commit_persist
  <2>4. head'.tree = Written(head.tree, ws)
    BY <2>3
  <2>5. j \notin Conflicts(k, v)
    BY <2>2, <2>4, WrittenAt
  <2>6. j \in DOMAIN head.tree /\ head.tree[j] = v
    BY <2>2, <2>4, <2>5, WrittenAt
  <2>7. Agree(db.index, head.tree, j)
    <3>1. Sound /\ "index" \notin failed /\ ~stuck
      BY DEF Sound, RepoInv, Fits
    <3>2. head = disk.head /\ db = disk
      BY <2>3, <3>1 DEF RepoInv, HeadInv, Fits
    <3> QED
      BY <2>3, <3>1, <3>2, RepoStoreAssumption DEF RepoInv, IndexInv
  <2> QED
    BY <2>5, <2>6, <2>7 DEF Conflicts, Agree
<1>2. Spec => [][Step]_vars
  BY <1>1, RepoInvariant, PTL DEF Spec
<1> QED
  BY <1>2 DEF CreateLeavesOneLink

-----------------------------------------------------------------------------
(* The cache that holds repository stores open (AccountCache), for any     *)
(* number of threads, accounts and addresses and any budget.               *)
(*                                                                         *)
(* A listed context's reference count is the number of places in the       *)
(* threads' lists that name it, so that an idle one, the only kind an      *)
(* eviction closes, is held by nobody.  A context that is opened and not   *)
(* yet inserted is named by its thread alone.                              *)

Entry == [did : Dids, ctx : Contexts, refcount : Nat]

\* A list whose contexts are distinct, open in own, and for distinct accounts.
ListOk(list, own) ==
    /\ list \in Seq(Entry)
    /\ \A i, j \in 1..Len(list) :
          (list[i].ctx = list[j].ctx \/ list[i].did = list[j].did) => i = j
    /\ \A i \in 1..Len(list) :
          list[i].ctx \in DOMAIN own /\ own[list[i].ctx] = list[i].did

\* What is left of a list when the entries after p, up to v, are cut out.
LEMMA UnlinkList ==
    ASSUME NEW S, NEW list \in Seq(S), NEW p \in 0..Len(list), NEW v \in 1..Len(list), p < v
    PROVE  /\ Unlink(list, p, v) \in Seq(S)
           /\ Len(Unlink(list, p, v)) = p + (Len(list) - v)
           /\ \A i \in 1..Len(Unlink(list, p, v)) :
                 Unlink(list, p, v)[i] = IF i <= p THEN list[i] ELSE list[i + (v - p)]
<1> DEFINE a == SubSeq(list, 1, p)
           b == SubSeq(list, v + 1, Len(list))
<1>1. a \in Seq(S) /\ Len(a) = p /\ \A i \in 1..p : a[i] = list[i]
  OBVIOUS
<1>2. b \in Seq(S) /\ Len(b) = Len(list) - v /\ \A i \in 1..(Len(list) - v) : b[i] = list[v + i]
  OBVIOUS
<1>3. Unlink(list, p, v) = a \o b
  BY DEF Unlink
<1> HIDE DEF a, b
<1>4. /\ a \o b \in Seq(S) /\ Len(a \o b) = Len(a) + Len(b)
      /\ \A i \in 1..(Len(a) + Len(b)) : (a \o b)[i] = IF i <= Len(a) THEN a[i] ELSE b[i - Len(a)]
  BY <1>1, <1>2, ConcatProperties
<1>5. /\ Len(a) + Len(b) = p + (Len(list) - v)
      /\ \A i \in 1..(Len(a) + Len(b)) :
            (a \o b)[i] = IF i <= p THEN list[i] ELSE list[i + (v - p)]
  <2> SUFFICES ASSUME NEW i \in 1..(Len(a) + Len(b))
               PROVE  (a \o b)[i] = IF i <= p THEN list[i] ELSE list[i + (v - p)]
    BY <1>1, <1>2
  <2>1. CASE i <= p
    BY <1>1, <1>4, <2>1
  <2>2. CASE ~(i <= p)
    <3>1. i - p \in 1..(Len(list) - v) /\ v + (i - p) = i + (v - p)
      BY <1>1, <1>2, <2>2
    <3> QED
      BY <1>1, <1>2, <1>4, <2>2, <3>1
  <2> QED
    BY <2>1, <2>2
<1> QED
  BY <1>3, <1>4, <1>5

-----------------------------------------------------------------------------
(* The state of the cache as one predicate of its variables' values, so that *)
(* a step can be followed through the list that an operation hands to the    *)
(* pass of eviction.                                                         *)

Holds(acq, c) ==
    {h \in Threads \X (1..MaxHeld) : h[2] \in DOMAIN acq[h[1]] /\ acq[h[1]][h[2]] = c}

Refs(acq, pin, c) == Cardinality(Holds(acq, c)) + IF c \in pin THEN 1 ELSE 0

RefsOk(list, acq, pin) ==
    \A i \in 1..Len(list) : list[i].refcount = Refs(acq, pin, list[i].ctx)

NoIdle(list) == \A i \in 1..Len(list) : list[i].refcount # 0

TrackOk(acq, own, pin) ==
    /\ acq \in [Threads -> Seq(Contexts)] /\ pin \subseteq DOMAIN own
    /\ \A t \in Threads : \A i \in 1..Len(acq[t]) : acq[t][i] \in DOMAIN own
    /\ \A t \in Threads : Len(acq[t]) <= MaxHeld
    /\ \A c \in Contexts : IsFiniteSet(Holds(acq, c))

StepOk(p, w, acq) ==
    /\ p \in [Threads -> {"request", "opening", "opened", "releasing"}]
    /\ w \in [Threads -> Dids \cup {NoDid}]
    /\ \A t \in Threads :
          /\ p[t] \in {"opening", "opened"} => w[t] \in Dids /\ Len(acq[t]) < MaxHeld
          /\ p[t] = "releasing" => acq[t] # <<>>

FreshFits(list, own, p, w, f, acq, pin) ==
    /\ f \in [Threads -> Contexts \cup {NoCtx}]
    /\ \A t \in Threads : p[t] # "opened" => f[t] = NoCtx
    /\ \A t \in Threads : p[t] = "opened" =>
         /\ f[t] \in DOMAIN own /\ own[f[t]] = w[t] /\ f[t] \notin pin
         /\ \A i \in 1..Len(list) : list[i].ctx # f[t]
         /\ \A s \in Threads : \A i \in 1..Len(acq[s]) : acq[s][i] # f[t]
         /\ \A s \in Threads : p[s] = "opened" /\ f[s] = f[t] => s = t

State(list, own, tot, p, w, f, acq, pin) ==
    /\ ListOk(list, own) /\ DOMAIN own \subseteq Contexts /\ tot \in Nat
    /\ tot <= MaxResident \/ NoIdle(list)
    /\ TrackOk(acq, own, pin) /\ StepOk(p, w, acq)
    /\ FreshFits(list, own, p, w, f, acq, pin) /\ RefsOk(list, acq, pin)

LEMMA ListLength ==
    ASSUME NEW S, NEW s \in Seq(S)
    PROVE  DOMAIN s = 1..Len(s) /\ Len(s) \in Nat /\ \A i \in 1..Len(s) : s[i] \in S
OBVIOUS

LEMMA CacheToSet ==
    ASSUME NEW s PROVE ToSet(s) = {s[i] : i \in DOMAIN s}
BY DEF ToSet

\* The predicate says what the invariant says.
LEMMA StateIsInvariant ==
    CacheInv
    <=> State(entries, owner, total, step, want, fresh, acquired, pinned)
<1>1. ASSUME NEW c PROVE Held(c) = Holds(acquired, c)
  BY DEF Held, Holds
<1>2. ASSUME NEW c PROVE Occurrences(c) = Refs(acquired, pinned, c)
  BY <1>1 DEF Occurrences, Refs
<1>3. CacheInv =>
        State(entries, owner, total, step, want, fresh, acquired, pinned)
  <2> SUFFICES ASSUME CacheInv
               PROVE  State(entries, owner, total, step, want, fresh, acquired, pinned)
    OBVIOUS
  <2> USE DEF CacheInv
  <2>1. DOMAIN entries = 1..Len(entries) /\ Len(entries) \in Nat
    BY ListLength DEF CacheTypes
  <2>2. ASSUME NEW t \in Threads
        PROVE  DOMAIN acquired[t] = 1..Len(acquired[t]) /\ Len(acquired[t]) \in Nat
    BY ListLength DEF CacheTypes
  <2>3. ListOk(entries, owner)
    BY <2>1 DEF ListOk, Entry, CacheTypes, ListUnambiguous, ContextsInv, open
  <2>4. DOMAIN owner \subseteq Contexts /\ total \in Nat
    BY DEF CacheTypes, open
  <2>5. total <= MaxResident \/ NoIdle(entries)
    BY <2>1 DEF BudgetSettled, IdleAt, NoIdle
  <2>6. TrackOk(acquired, owner, pinned)
    <3>1. ASSUME NEW t \in Threads, NEW i \in 1..Len(acquired[t])
          PROVE  acquired[t][i] \in DOMAIN owner
      BY <2>2, CacheToSet DEF ContextsInv, open
    <3>2. ASSUME NEW c \in Contexts PROVE IsFiniteSet(Holds(acquired, c))
      BY <1>1 DEF HeldInv
    <3> QED
      BY <3>1, <3>2 DEF TrackOk, CacheTypes, ContextsInv, open, HeldInv
  <2>7. StepOk(step, want, acquired)
    BY DEF StepOk, CacheTypes, FreshInv, FreshOk, HeldInv
  <2>8. FreshFits(entries, owner, step, want, fresh, acquired, pinned)
    <3> SUFFICES ASSUME NEW t \in Threads, step[t] = "opened"
                 PROVE  /\ fresh[t] \in DOMAIN owner /\ owner[fresh[t]] = want[t]
                        /\ fresh[t] \notin pinned
                        /\ \A i \in 1..Len(entries) : entries[i].ctx # fresh[t]
                        /\ \A s \in Threads : \A i \in 1..Len(acquired[s]) : acquired[s][i] # fresh[t]
                        /\ \A s \in Threads : step[s] = "opened" /\ fresh[s] = fresh[t] => s = t
      BY DEF FreshFits, CacheTypes, FreshInv, FreshOk
    <3>1. FreshOk(t, entries, owner)
      BY DEF FreshInv
    <3>2. ASSUME NEW s \in Threads, NEW i \in 1..Len(acquired[s])
          PROVE  acquired[s][i] # fresh[t]
      BY <3>1, <2>2, CacheToSet DEF FreshOk
    <3> QED
      BY <3>1, <3>2, <2>1 DEF FreshOk
  <2>9. RefsOk(entries, acquired, pinned)
    BY <1>2, <2>1 DEF RefsOk, RefcountsExact
  <2> QED
    BY <2>3, <2>4, <2>5, <2>6, <2>7, <2>8, <2>9 DEF State
<1>4. State(entries, owner, total, step, want, fresh, acquired, pinned) =>
        CacheInv
  <2> SUFFICES ASSUME State(entries, owner, total, step, want, fresh, acquired, pinned)
               PROVE  CacheInv
    OBVIOUS
  <2> USE DEF State
  <2>1. DOMAIN entries = 1..Len(entries) /\ Len(entries) \in Nat
    BY ListLength DEF ListOk
  <2>2. ASSUME NEW t \in Threads
        PROVE  DOMAIN acquired[t] = 1..Len(acquired[t]) /\ Len(acquired[t]) \in Nat
    BY ListLength DEF TrackOk
  <2>3. CacheTypes
    BY DEF CacheTypes, ListOk, Entry, open, StepOk, TrackOk, FreshFits
  <2>4. ListUnambiguous
    BY <2>1 DEF ListOk, Entry, ListUnambiguous, open
  <2>5. BudgetSettled
    BY <2>1 DEF BudgetSettled, IdleAt, NoIdle
  <2>6. ContextsInv
    <3>1. ASSUME NEW t \in Threads PROVE ToSet(acquired[t]) \subseteq open
      BY <2>2, CacheToSet DEF TrackOk, open
    <3> QED
      BY <3>1, <2>1 DEF ContextsInv, ListOk, TrackOk, open
  <2>7. FreshInv
    <3> SUFFICES ASSUME NEW t \in Threads PROVE FreshOk(t, entries, owner)
      BY DEF FreshInv
    <3>1. ASSUME NEW s \in Threads, step[t] = "opened" PROVE fresh[t] \notin ToSet(acquired[s])
      BY <3>1, <2>2, CacheToSet DEF FreshFits
    <3> QED
      BY <3>1, <2>1 DEF FreshOk, FreshFits, StepOk
  <2>8. HeldInv
    BY <1>1 DEF HeldInv, TrackOk, StepOk
  <2>9. RefcountsExact
    BY <1>2, <2>1 DEF RefsOk, RefcountsExact
  <2> QED
    BY <2>3, <2>4, <2>5, <2>6, <2>7, <2>8, <2>9 DEF CacheInv
<1> QED
  BY <1>3, <1>4


\* A context with no reference is named in no thread's list.
LEMMA NoRefs ==
    ASSUME NEW acq, NEW own, NEW pin, TrackOk(acq, own, pin), MaxHeld \in Nat,
           NEW c \in Contexts, Refs(acq, pin, c) = 0
    PROVE  /\ c \notin pin
           /\ \A t \in Threads : \A i \in 1..Len(acq[t]) : acq[t][i] # c
<1>1. IsFiniteSet(Holds(acq, c)) /\ Cardinality(Holds(acq, c)) \in Nat
  BY FS_CardinalityType DEF TrackOk
<1>2. c \notin pin /\ Cardinality(Holds(acq, c)) = 0
  BY <1>1 DEF Refs
<1>3. Holds(acq, c) = {}
  BY <1>1, <1>2, FS_EmptySet
<1>4. ASSUME NEW t \in Threads, NEW i \in 1..Len(acq[t]), acq[t][i] = c PROVE FALSE
  <2>1. DOMAIN acq[t] = 1..Len(acq[t]) /\ Len(acq[t]) \in Nat /\ Len(acq[t]) <= MaxHeld
    BY ListLength DEF TrackOk
  <2>2. i \in 1..MaxHeld
    BY <2>1
  <2>3. <<t, i>> \in Holds(acq, c)
    BY <1>4, <2>1, <2>2 DEF Holds
  <2> QED
    BY <1>3, <2>3
<1> QED
  BY <1>2, <1>4

LEMMA RefsAreNat ==
    ASSUME NEW acq, NEW own, NEW pin, TrackOk(acq, own, pin), NEW c \in Contexts
    PROVE  Refs(acq, pin, c) \in Nat
BY FS_CardinalityType DEF TrackOk, Refs

\* One more reference, in a thread's list.
LEMMA PushHeld ==
    ASSUME NEW acq, NEW own, NEW pin, TrackOk(acq, own, pin), MaxHeld \in Nat,
           NEW t \in Threads, Len(acq[t]) < MaxHeld, NEW c \in Contexts, NEW d \in Contexts,
           NEW new, new[t] = Append(acq[t], c), \A s \in Threads : s # t => new[s] = acq[s]
    PROVE  /\ IsFiniteSet(Holds(new, d))
           /\ Refs(new, pin, d) = IF d = c THEN Refs(acq, pin, d) + 1 ELSE Refs(acq, pin, d)
<1> DEFINE n == Len(acq[t]) + 1
<1>1. /\ acq[t] \in Seq(Contexts) /\ Len(acq[t]) \in Nat /\ n \in 1..MaxHeld
      /\ DOMAIN acq[t] = 1..Len(acq[t])
  BY ListLength DEF TrackOk
<1>2. /\ new[t] = Append(acq[t], c) /\ \A s \in Threads : s # t => new[s] = acq[s]
  OBVIOUS
<1>3. /\ DOMAIN Append(acq[t], c) = 1..n /\ Append(acq[t], c)[n] = c
      /\ \A i \in 1..Len(acq[t]) : Append(acq[t], c)[i] = acq[t][i]
  BY <1>1, AppendProperties
<1>4. n \notin 1..Len(acq[t])
  BY <1>1
<1> HIDE DEF n
<1>5. IsFiniteSet(Holds(acq, d)) /\ Cardinality(Holds(acq, d)) \in Nat
  BY FS_CardinalityType DEF TrackOk
<1>6. n \in 1..MaxHeld /\ 1..n = 1..Len(acq[t]) \cup {n}
  BY <1>1 DEF n
<1>7. ASSUME NEW h \in Threads \X (1..MaxHeld)
      PROVE  (h[2] \in DOMAIN new[h[1]] /\ new[h[1]][h[2]] = d)
             <=> \/ h[2] \in DOMAIN acq[h[1]] /\ acq[h[1]][h[2]] = d
                 \/ h = <<t, n>> /\ d = c
  <2>1. h[1] \in Threads /\ h[2] \in 1..MaxHeld /\ h = <<h[1], h[2]>>
    OBVIOUS
  <2>2. CASE h[1] # t
    BY <1>2, <2>1, <2>2
  <2>3. CASE h[1] = t
    BY <1>1, <1>2, <1>3, <1>4, <1>6, <2>1, <2>3
  <2> QED
    BY <2>2, <2>3
<1>8. <<t, n>> \in Threads \X (1..MaxHeld) /\ <<t, n>> \notin Holds(acq, d)
  BY <1>1, <1>4, <1>6 DEF Holds
<1>9. CASE d = c
  <2>1. Holds(new, d) = Holds(acq, d) \cup {<<t, n>>}
    BY <1>7, <1>8, <1>9 DEF Holds
  <2>2. /\ IsFiniteSet(Holds(new, d))
        /\ Cardinality(Holds(new, d)) = Cardinality(Holds(acq, d)) + 1
    <3> HIDE DEF n
    <3>1. /\ IsFiniteSet(Holds(acq, d) \cup {<<t, n>>})
          /\ Cardinality(Holds(acq, d) \cup {<<t, n>>}) =
               IF <<t, n>> \in Holds(acq, d) THEN Cardinality(Holds(acq, d))
               ELSE Cardinality(Holds(acq, d)) + 1
      BY <1>5, FS_AddElement
    <3> QED
      BY <1>8, <2>1, <3>1
  <2> QED
    BY <1>5, <1>9, <2>2 DEF Refs
<1>10. CASE d # c
  <2>1. Holds(new, d) = Holds(acq, d)
    BY <1>7, <1>10 DEF Holds
  <2> QED
    BY <1>5, <1>10, <2>1 DEF Refs
<1> QED
  BY <1>9, <1>10

\* One less, the first of a thread's list.
LEMMA PopHeld ==
    ASSUME NEW acq, NEW own, NEW pin, TrackOk(acq, own, pin), MaxHeld \in Nat,
           NEW t \in Threads, acq[t] # <<>>, NEW d \in Contexts,
           NEW new, new[t] = Tail(acq[t]), \A s \in Threads : s # t => new[s] = acq[s]
    PROVE  /\ IsFiniteSet(Holds(new, d))
           /\ Refs(new, pin, d) =
                IF d = Head(acq[t]) THEN Refs(acq, pin, d) - 1 ELSE Refs(acq, pin, d)
<1> DEFINE n == Len(acq[t])
           old == Holds(acq, d) \ {<<t, 1>>}
           f == [h \in old |-> IF h[1] = t THEN <<t, h[2] - 1>> ELSE h]
<1>1. /\ acq[t] \in Seq(Contexts) /\ n \in Nat \ {0} /\ n <= MaxHeld
      /\ DOMAIN acq[t] = 1..n /\ Head(acq[t]) = acq[t][1]
  <2>1. acq[t] \in Seq(Contexts) /\ Len(acq[t]) <= MaxHeld
    BY DEF TrackOk
  <2>2. Len(acq[t]) # 0
    BY <2>1, EmptySeq
  <2> QED
    BY <2>1, <2>2, ListLength
<1>2. /\ new[t] = Tail(acq[t]) /\ \A s \in Threads : s # t => new[s] = acq[s]
  OBVIOUS
<1>3. /\ DOMAIN Tail(acq[t]) = 1..(n - 1)
      /\ \A i \in 1..(n - 1) : Tail(acq[t])[i] = acq[t][i + 1]
  BY <1>1
<1> HIDE DEF n
<1>4. IsFiniteSet(Holds(acq, d)) /\ Cardinality(Holds(acq, d)) \in Nat
  BY FS_CardinalityType DEF TrackOk
<1>5. ASSUME NEW h \in Threads \X (1..MaxHeld)
      PROVE  h \in Holds(new, d)
             <=> \/ h[1] # t /\ h \in Holds(acq, d)
                 \/ h[1] = t /\ <<t, h[2] + 1>> \in Holds(acq, d)
  <2>1. h[1] \in Threads /\ h[2] \in 1..MaxHeld /\ h = <<h[1], h[2]>>
    OBVIOUS
  <2>2. CASE h[1] # t
    BY <1>2, <2>1, <2>2 DEF Holds
  <2>3. CASE h[1] = t
    <3>1. h \in Holds(new, d) <=> h[2] \in 1..(n - 1) /\ acq[t][h[2] + 1] = d
      <4>1. h \in Holds(new, d) <=> h[2] \in DOMAIN new[h[1]] /\ new[h[1]][h[2]] = d
        BY DEF Holds
      <4>2. new[h[1]] = Tail(acq[t])
        BY <1>2, <2>3
      <4> QED
        BY <1>3, <4>1, <4>2
    <3>2. <<t, h[2] + 1>> \in Holds(acq, d) <=>
            h[2] + 1 \in 1..MaxHeld /\ h[2] + 1 \in 1..n /\ acq[t][h[2] + 1] = d
      BY <1>1, <2>1 DEF Holds
    <3> QED
      BY <1>1, <2>1, <2>3, <3>1, <3>2
  <2> QED
    BY <2>2, <2>3
<1>6. ASSUME NEW h \in old
      PROVE  /\ h[1] \in Threads /\ h[2] \in 1..MaxHeld /\ h = <<h[1], h[2]>>
             /\ h[1] = t => h[2] - 1 \in 1..MaxHeld
  <2>1. h[1] \in Threads /\ h[2] \in 1..MaxHeld /\ h = <<h[1], h[2]>>
    BY DEF Holds
  <2>2. h[1] = t => h[2] # 1
    BY <2>1
  <2> QED
    BY <2>1, <2>2
<1>7. ASSUME NEW h \in old PROVE f[h] \in Holds(new, d)
  <2>1. CASE h[1] = t
    <3>1. f[h] = <<t, h[2] - 1>> /\ f[h] \in Threads \X (1..MaxHeld) /\ f[h][1] = t
      BY <1>6, <2>1
    <3>2. <<t, f[h][2] + 1>> = h
      BY <1>6, <2>1, <3>1
    <3> QED
      BY <1>5, <3>1, <3>2
  <2>2. CASE h[1] # t
    BY <1>5, <1>6, <2>2
  <2> QED
    BY <2>1, <2>2
<1>8. ASSUME NEW g \in old, NEW h \in old, f[g] = f[h] PROVE g = h
  <2>1. /\ f[g] = IF g[1] = t THEN <<t, g[2] - 1>> ELSE g
        /\ f[h] = IF h[1] = t THEN <<t, h[2] - 1>> ELSE h
    OBVIOUS
  <2>2. (g[1] = t) <=> (h[1] = t)
    BY <1>6, <1>8, <2>1
  <2>3. CASE g[1] = t
    <3>1. g[2] - 1 = h[2] - 1
      BY <1>8, <2>1, <2>2, <2>3
    <3> QED
      BY <1>6, <2>2, <2>3, <3>1
  <2>4. CASE g[1] # t
    BY <1>8, <2>1, <2>2, <2>4
  <2> QED
    BY <2>3, <2>4
<1>9. ASSUME NEW h \in Holds(new, d) PROVE \E g \in old : f[g] = h
  <2>1. h \in Threads \X (1..MaxHeld)
    BY DEF Holds
  <2>2. CASE h[1] # t
    <3>1. h \in Holds(acq, d)
      BY <1>5, <2>1, <2>2
    <3>2. <<t, 1>>[1] = t
      OBVIOUS
    <3>3. h # <<t, 1>>
      BY <2>2, <3>2
    <3> QED
      BY <2>2, <3>1, <3>3
  <2>3. CASE h[1] = t
    <3>1. <<t, h[2] + 1>> \in Holds(acq, d)
      BY <1>5, <2>1, <2>3
    <3>2. <<t, h[2] + 1>> \in old
      BY <2>1, <3>1
    <3>3. f[<<t, h[2] + 1>>] = <<t, (h[2] + 1) - 1>>
      BY <3>2
    <3> QED
      BY <2>1, <2>3, <3>2, <3>3
  <2> QED
    BY <2>2, <2>3
<1>10. f \in Bijection(old, Holds(new, d))
  <2>1. f \in [old -> Holds(new, d)]
    BY <1>7
  <2>2. f \in Injection(old, Holds(new, d))
    BY <2>1, <1>8 DEF Injection, IsInjective
  <2>3. f \in Surjection(old, Holds(new, d))
    BY <2>1, <1>9 DEF Surjection
  <2> QED
    BY <2>2, <2>3 DEF Bijection
<1>11. /\ IsFiniteSet(old)
       /\ Cardinality(old) = IF <<t, 1>> \in Holds(acq, d) THEN Cardinality(Holds(acq, d)) - 1
                             ELSE Cardinality(Holds(acq, d))
  BY <1>4, FS_RemoveElement
<1>12. ExistsBijection(old, Holds(new, d))
  BY <1>10 DEF ExistsBijection
<1> HIDE DEF old, f
<1>13. IsFiniteSet(Holds(new, d)) /\ Cardinality(Holds(new, d)) = Cardinality(old)
  BY <1>11, <1>12, FS_Bijection
<1>14. <<t, 1>> \in Holds(acq, d) <=> d = Head(acq[t])
  BY <1>1 DEF Holds
<1> QED
  BY <1>4, <1>11, <1>13, <1>14 DEF Refs


\* At most one entry is idle.
OneIdle(list) ==
    \A i, j \in 1..Len(list) : list[i].refcount = 0 /\ list[j].refcount = 0 => i = j

\* What a pass of eviction that closes a context does to the list.
LEMMA Evicts ==
    ASSUME NEW list, NEW order, NEW idles, NEW totals, NEW own, ListOk(list, own),
           evict_if_over_budget_locked(list, order, idles, totals, own),
           totals > MaxResident /\ IdleAt(list) # {}
    PROVE  \E v \in 1..Len(list), p \in 0..Len(list) :
              /\ list[v].refcount = 0 /\ p < v
              /\ owner' = [x \in DOMAIN own \ {list[v].ctx} |-> own[x]]
              /\ entries' = Unlink(list, p, v)
              /\ total' = totals - 1
<1>1. DOMAIN list = 1..Len(list) /\ Len(list) \in Nat
  BY ListLength DEF ListOk
<1>2. \E v \in Victim(list, order) :
         /\ \E p \in PrevOf(list, v) : entries' = Unlink(list, p, v)
         /\ owner' = Restricted(own, DOMAIN own \ {list[v].ctx})
  BY DEF evict_if_over_budget_locked
<1>3. total' = totals - 1
  BY DEF evict_if_over_budget_locked
<1>4. PICK v \in Victim(list, order) :
         /\ \E p \in PrevOf(list, v) : entries' = Unlink(list, p, v)
         /\ owner' = Restricted(own, DOMAIN own \ {list[v].ctx})
  BY <1>2
<1>5. PICK p \in PrevOf(list, v) : entries' = Unlink(list, p, v)
  BY <1>4
<1>6. v \in 1..Len(list) /\ list[v].refcount = 0
  BY <1>1 DEF Victim, IdleAt
<1>7. p \in 0..Len(list) /\ p < v
  BY <1>1, <1>6 DEF PrevOf, IdleAt
<1> QED
  BY <1>3, <1>4, <1>5, <1>6, <1>7 DEF Restricted

\* The cache is settled after a pass of eviction on a list that goes with what the
\* threads hold: what is closed is held by nobody.
LEMMA Settle ==
    ASSUME Parameters,
           NEW list, NEW order, NEW idles, NEW totals \in Nat, NEW own,
           NEW p, NEW w, NEW f, NEW acq, NEW pin,
           ListOk(list, own), DOMAIN own \subseteq Contexts,
           TrackOk(acq, own, pin), StepOk(p, w, acq),
           FreshFits(list, own, p, w, f, acq, pin), RefsOk(list, acq, pin),
           totals <= MaxResident + 1 \/ OneIdle(list),
           evict_if_over_budget_locked(list, order, idles, totals, own)
    PROVE  State(entries', owner', total', p, w, f, acq, pin)
<1>1. DOMAIN list = 1..Len(list) /\ Len(list) \in Nat
      /\ MaxResident \in Nat \ {0} /\ MaxHeld \in Nat
  BY ListLength DEF ListOk, Parameters
<1>2. CASE totals > MaxResident /\ IdleAt(list) # {}
  <2>1. PICK v \in 1..Len(list), q \in 0..Len(list) :
              /\ list[v].refcount = 0 /\ q < v
              /\ owner' = [x \in DOMAIN own \ {list[v].ctx} |-> own[x]]
              /\ entries' = Unlink(list, q, v)
              /\ total' = totals - 1
    BY <1>2, Evicts
  <2> DEFINE new == Unlink(list, q, v)
             gone == list[v].ctx
             left == [x \in DOMAIN own \ {gone} |-> own[x]]
             at(i) == IF i <= q THEN i ELSE i + (v - q)
  <2>2. /\ new \in Seq(Entry) /\ Len(new) = q + (Len(list) - v)
        /\ \A i \in 1..Len(new) : new[i] = IF i <= q THEN list[i] ELSE list[i + (v - q)]
    <3>1. list \in Seq(Entry) /\ q \in 0..Len(list) /\ v \in 1..Len(list) /\ q < v
      BY <2>1 DEF ListOk
    <3> HIDE DEF at, left
    <3> QED
      BY <3>1, UnlinkList
  <2> HIDE DEF new
  <2>3. ASSUME NEW i \in 1..Len(new)
        PROVE  at(i) \in 1..Len(list) /\ at(i) # v /\ new[i] = list[at(i)]
    <3>1. /\ i \in Nat /\ i >= 1 /\ i <= q + (Len(list) - v) /\ q < v
          /\ q \in Nat /\ v \in Nat /\ v <= Len(list) /\ v >= 1
      BY <1>1, <2>1, <2>2
    <3>2. at(i) = IF i <= q THEN i ELSE i + (v - q)
      OBVIOUS
    <3>3. at(i) \in 1..Len(list) /\ at(i) # v
      BY <1>1, <3>1, <3>2
    <3> QED
      BY <2>2, <3>2, <3>3
  <2>4. ASSUME NEW i \in 1..Len(new), NEW j \in 1..Len(new), at(i) = at(j) PROVE i = j
    <3>1. i \in Nat /\ j \in Nat /\ i >= 1 /\ j >= 1 /\ q < v /\ q \in Nat /\ v \in Nat
      BY <1>1, <2>1, <2>2
    <3> QED
      BY <2>4, <3>1
  <2>5. gone \in Contexts /\ Refs(acq, pin, gone) = 0 /\ gone \in DOMAIN own
    BY <1>1, <2>1 DEF ListOk, RefsOk
  <2>6. /\ gone \notin pin
        /\ \A t \in Threads : \A i \in 1..Len(acq[t]) : acq[t][i] # gone
    BY <1>1, <2>5, NoRefs
  <2>7. DOMAIN left = DOMAIN own \ {gone} /\ \A x \in DOMAIN left : left[x] = own[x]
    OBVIOUS
  <2> HIDE DEF left, at
  <2>8. ListOk(new, left)
    <3>1. ASSUME NEW i \in 1..Len(new), NEW j \in 1..Len(new),
                 new[i].ctx = new[j].ctx \/ new[i].did = new[j].did
          PROVE  i = j
      <4>1. /\ at(i) \in 1..Len(list) /\ new[i] = list[at(i)]
            /\ at(j) \in 1..Len(list) /\ new[j] = list[at(j)]
        BY <2>3
      <4>2. at(i) = at(j)
        BY <3>1, <4>1 DEF ListOk
      <4> QED
        BY <2>4, <4>2
    <3>2. ASSUME NEW i \in 1..Len(new)
          PROVE  new[i].ctx \in DOMAIN left /\ left[new[i].ctx] = new[i].did
      <4>1. /\ at(i) \in 1..Len(list) /\ at(i) # v /\ new[i] = list[at(i)]
            /\ list[at(i)].ctx # gone
        BY <2>1, <2>3 DEF ListOk
      <4> QED
        BY <2>7, <4>1 DEF ListOk
    <3> QED
      BY <2>2, <3>1, <3>2 DEF ListOk
  <2>9. TrackOk(acq, left, pin)
    BY <2>6, <2>7 DEF TrackOk
  <2>10. FreshFits(new, left, p, w, f, acq, pin)
    <3> SUFFICES ASSUME NEW t \in Threads, p[t] = "opened"
                 PROVE  /\ f[t] \in DOMAIN left /\ left[f[t]] = w[t]
                        /\ \A i \in 1..Len(new) : new[i].ctx # f[t]
      BY DEF FreshFits
    <3>1. f[t] \in DOMAIN own /\ own[f[t]] = w[t] /\ f[t] # gone
      BY <2>1 DEF FreshFits
    <3>2. ASSUME NEW i \in 1..Len(new) PROVE new[i].ctx # f[t]
      BY <2>3 DEF FreshFits
    <3> QED
      BY <2>7, <3>1, <3>2
  <2>11. RefsOk(new, acq, pin)
    BY <2>3 DEF RefsOk
  <2>12. total' \in Nat /\ (total' <= MaxResident \/ NoIdle(new))
    <3>1. CASE totals <= MaxResident + 1
      BY <1>1, <1>2, <2>1, <3>1
    <3>2. CASE OneIdle(list)
      <4>1. NoIdle(new)
        BY <2>1, <2>3, <3>2 DEF NoIdle, OneIdle
      <4> QED
        BY <1>1, <1>2, <2>1, <4>1
    <3> QED
      BY <3>1, <3>2
  <2>13. entries' = new /\ owner' = left
    BY <2>1 DEF new, left
  <2> QED
    BY <2>7, <2>8, <2>9, <2>10, <2>11, <2>12, <2>13 DEF State
<1>3. CASE ~(totals > MaxResident /\ IdleAt(list) # {})
  <2>1. entries' = list /\ owner' = own /\ total' = totals
    BY <1>3 DEF evict_if_over_budget_locked
  <2>2. totals <= MaxResident \/ NoIdle(list)
    BY <1>1, <1>3 DEF NoIdle, IdleAt
  <2> QED
    BY <2>1, <2>2 DEF State
<1> QED
  BY <1>2, <1>3


\* A context no list names and no failed allocation pinned has no reference.
LEMMA Unheld ==
    ASSUME NEW acq, NEW own, NEW pin, TrackOk(acq, own, pin), NEW c, c \notin pin,
           \A t \in Threads : \A i \in 1..Len(acq[t]) : acq[t][i] # c
    PROVE  Refs(acq, pin, c) = 0
<1>1. ASSUME NEW t \in Threads PROVE DOMAIN acq[t] = 1..Len(acq[t])
  BY ListLength DEF TrackOk
<1>2. ASSUME NEW h \in Holds(acq, c) PROVE FALSE
  BY <1>1 DEF Holds
<1>3. Holds(acq, c) = {}
  BY <1>2
<1> QED
  BY <1>3, FS_EmptySet DEF Refs

\* account_cache_push_acquired counts one reference more on c, and none on others.
LEMMA Pushes ==
    ASSUME NEW own, TrackOk(acquired, own, pinned), MaxHeld \in Nat, DOMAIN own \subseteq Contexts,
           NEW t \in Threads, Len(acquired[t]) < MaxHeld, NEW c \in DOMAIN own,
           push_acquired(t, c)
    PROVE  /\ TrackOk(acquired', own, pinned')
           /\ \A d \in Contexts : Refs(acquired', pinned', d) =
                IF d = c THEN Refs(acquired, pinned, d) + 1 ELSE Refs(acquired, pinned, d)
           /\ \A s \in Threads : s # t => acquired'[s] = acquired[s]
           /\ \A s \in Threads : \A i \in 1..Len(acquired'[s]) : acquired'[s][i] # c =>
                \E j \in 1..Len(acquired[s]) : acquired'[s][i] = acquired[s][j]
           /\ \A d \in pinned' : d # c => d \in pinned
<1>1. /\ acquired[t] \in Seq(Contexts) /\ Len(acquired[t]) \in Nat /\ c \in Contexts
      /\ \A s \in Threads : acquired[s] \in Seq(Contexts)
  BY ListLength DEF TrackOk
<1>2. CASE acquired' = [acquired EXCEPT ![t] = Append(@, c)] /\ pinned' = pinned
  <2>1. /\ acquired'[t] = Append(acquired[t], c)
        /\ \A s \in Threads : s # t => acquired'[s] = acquired[s]
    BY <1>2 DEF TrackOk
  <2>2. /\ Append(acquired[t], c) \in Seq(Contexts)
        /\ Len(Append(acquired[t], c)) = Len(acquired[t]) + 1
        /\ Append(acquired[t], c)[Len(acquired[t]) + 1] = c
        /\ \A i \in 1..Len(acquired[t]) : Append(acquired[t], c)[i] = acquired[t][i]
    BY <1>1, AppendProperties
  <2>3. acquired' \in [Threads -> Seq(Contexts)]
    BY <1>2, <2>1, <2>2 DEF TrackOk
  <2>4. \A s \in Threads : Len(acquired'[s]) <= MaxHeld
    BY <1>1, <2>1, <2>2 DEF TrackOk
  <2>5. ASSUME NEW s \in Threads, NEW i \in 1..Len(acquired'[s]), acquired'[s][i] # c
        PROVE  \E j \in 1..Len(acquired[s]) : acquired'[s][i] = acquired[s][j]
    <3>1. CASE s = t
      <4>1. i \in 1..Len(acquired[t])
        BY <1>1, <2>1, <2>2, <2>5, <3>1
      <4> QED
        BY <2>1, <2>2, <3>1, <4>1
    <3>2. CASE s # t
      BY <2>1, <3>2
    <3> QED
      BY <3>1, <3>2
  <2>6. ASSUME NEW d \in Contexts
        PROVE  /\ IsFiniteSet(Holds(acquired', d))
               /\ Refs(acquired', pinned, d) =
                    IF d = c THEN Refs(acquired, pinned, d) + 1 ELSE Refs(acquired, pinned, d)
    BY <1>1, <2>1, PushHeld
  <2>7. TrackOk(acquired', own, pinned')
    <3>1. \A s \in Threads : \A i \in 1..Len(acquired'[s]) : acquired'[s][i] \in DOMAIN own
      BY <2>5 DEF TrackOk
    <3>2. pinned' \subseteq DOMAIN own
      BY <1>2 DEF TrackOk
    <3> QED
      BY <2>3, <2>4, <2>6, <3>1, <3>2 DEF TrackOk
  <2> QED
    BY <1>2, <2>1, <2>5, <2>6, <2>7
<1>3. CASE /\ c \notin pinned /\ pinned' = pinned \cup {c} /\ acquired' = acquired
  <2>1. ASSUME NEW d \in Contexts
        PROVE  Refs(acquired, pinned', d) =
                 IF d = c THEN Refs(acquired, pinned, d) + 1 ELSE Refs(acquired, pinned, d)
    <3>1. Cardinality(Holds(acquired, d)) \in Nat
      BY FS_CardinalityType DEF TrackOk
    <3>2. CASE d = c
      BY <1>3, <3>1, <3>2 DEF Refs
    <3>3. CASE d # c
      BY <1>3, <3>3 DEF Refs
    <3> QED
      BY <3>2, <3>3
  <2>2. TrackOk(acquired', own, pinned')
    BY <1>3 DEF TrackOk
  <2> QED
    BY <1>3, <2>1, <2>2
<1> QED
  BY <1>2, <1>3 DEF push_acquired

\* An entry whose account a get has found gains the reference the get takes.
LEMMA HitKeeps ==
    ASSUME Parameters, NEW own, NEW p, NEW w, NEW f,
           State(entries, own, total, p, w, f, acquired, pinned),
           NEW t \in Threads, p[t] = "request", Len(acquired[t]) < MaxHeld,
           NEW i \in 1..Len(entries), Hit(t, i)
    PROVE  State(entries', own, total', p, w, f, acquired', pinned')
<1> USE DEF State
<1>1. MaxHeld \in Nat /\ MaxResident \in Nat
  BY DEF Parameters
<1>2. /\ DOMAIN entries = 1..Len(entries) /\ Len(entries) \in Nat
      /\ \A j \in 1..Len(entries) : entries[j] \in Entry
  BY ListLength DEF ListOk
<1>3. /\ entries' = [entries EXCEPT ![i].refcount = @ + 1] /\ total' = total
      /\ push_acquired(t, entries[i].ctx)
  BY DEF Hit
<1> DEFINE e == [entries[i] EXCEPT !.refcount = @ + 1]
<1>4. /\ e \in Entry /\ e.ctx = entries[i].ctx /\ e.did = entries[i].did
      /\ e.refcount = entries[i].refcount + 1 /\ e.refcount # 0
  BY <1>2 DEF Entry
<1>5. entries' = [entries EXCEPT ![i] = e]
  BY <1>2, <1>3
<1> HIDE DEF e
<1>6. /\ entries' \in Seq(Entry) /\ Len(entries') = Len(entries) /\ entries'[i] = e
      /\ \A j \in 1..Len(entries) : j # i => entries'[j] = entries[j]
  BY <1>2, <1>4, <1>5 DEF ListOk
<1>7. \A j \in 1..Len(entries) :
        entries'[j].ctx = entries[j].ctx /\ entries'[j].did = entries[j].did
  BY <1>4, <1>6
<1>8. entries[i].ctx \in DOMAIN own /\ entries[i].ctx \in Contexts
  BY DEF ListOk
<1>9. /\ TrackOk(acquired', own, pinned')
      /\ \A d \in Contexts : Refs(acquired', pinned', d) =
           IF d = entries[i].ctx THEN Refs(acquired, pinned, d) + 1 ELSE Refs(acquired, pinned, d)
      /\ \A s \in Threads : s # t => acquired'[s] = acquired[s]
      /\ \A s \in Threads : \A k \in 1..Len(acquired'[s]) : acquired'[s][k] # entries[i].ctx =>
           \E j \in 1..Len(acquired[s]) : acquired'[s][k] = acquired[s][j]
      /\ \A d \in pinned' : d # entries[i].ctx => d \in pinned
  BY <1>1, <1>3, <1>8, Pushes
<1>10. ListOk(entries', own)
  BY <1>6, <1>7 DEF ListOk
<1>11. total' \in Nat /\ (total' <= MaxResident \/ NoIdle(entries'))
  BY <1>3, <1>4, <1>6 DEF NoIdle
<1>12. StepOk(p, w, acquired')
  BY <1>9 DEF StepOk
<1>13. FreshFits(entries', own, p, w, f, acquired', pinned')
  <2> SUFFICES ASSUME NEW s \in Threads, p[s] = "opened"
               PROVE  /\ f[s] \notin pinned'
                      /\ \A j \in 1..Len(entries') : entries'[j].ctx # f[s]
                      /\ \A r \in Threads : \A j \in 1..Len(acquired'[r]) : acquired'[r][j] # f[s]
    BY DEF FreshFits
  <2>1. entries[i].ctx # f[s]
    BY DEF FreshFits
  <2>2. /\ f[s] \notin pinned
        /\ \A j \in 1..Len(entries) : entries[j].ctx # f[s]
        /\ \A r \in Threads : \A j \in 1..Len(acquired[r]) : acquired[r][j] # f[s]
    BY DEF FreshFits
  <2>3. f[s] \notin pinned'
    BY <1>9, <2>1, <2>2
  <2>4. \A j \in 1..Len(entries') : entries'[j].ctx # f[s]
    BY <1>6, <1>7, <2>2
  <2>5. \A r \in Threads : \A j \in 1..Len(acquired'[r]) : acquired'[r][j] # f[s]
    BY <1>9, <2>1, <2>2
  <2> QED
    BY <2>3, <2>4, <2>5
<1>14. RefsOk(entries', acquired', pinned')
  <2> SUFFICES ASSUME NEW j \in 1..Len(entries)
               PROVE  entries'[j].refcount = Refs(acquired', pinned', entries'[j].ctx)
    BY <1>6 DEF RefsOk
  <2>1. entries[j].ctx \in Contexts /\ entries[j].refcount = Refs(acquired, pinned, entries[j].ctx)
    BY DEF ListOk, RefsOk
  <2>2. CASE j = i
    BY <1>4, <1>6, <1>9, <2>1, <2>2
  <2>3. CASE j # i
    <3>1. entries[j].ctx # entries[i].ctx
      BY <2>3 DEF ListOk
    <3> QED
      BY <1>6, <1>9, <2>1, <2>3, <3>1
  <2> QED
    BY <2>2, <2>3
<1> QED
  BY <1>9, <1>10, <1>11, <1>12, <1>13, <1>14


Now == State(entries, owner, total, step, want, fresh, acquired, pinned)

Then == State(entries', owner', total', step', want', fresh', acquired', pinned')

\* A get that ends without using the context it opened closes it, and nobody else
\* has a reference on it.
LEMMA CloseKeeps ==
    ASSUME Parameters, Now, NEW t \in Threads, step[t] = "opened", GetDone(t),
           owner' = Restricted(owner, open \ {fresh[t]})
    PROVE  State(entries, owner', total, step', want', fresh', acquired, pinned)
<1> USE DEF Now, State
<1>1. /\ DOMAIN owner' = DOMAIN owner \ {fresh[t]}
      /\ \A c \in DOMAIN owner' : owner'[c] = owner[c]
  BY DEF Restricted, open
<1>2. /\ step' = [step EXCEPT ![t] = "request"]
      /\ want' = [want EXCEPT ![t] = NoDid]
      /\ fresh' = [fresh EXCEPT ![t] = NoCtx]
  BY DEF GetDone
<1>3. /\ fresh[t] \notin pinned
      /\ \A i \in 1..Len(entries) : entries[i].ctx # fresh[t]
      /\ \A s \in Threads : \A i \in 1..Len(acquired[s]) : acquired[s][i] # fresh[t]
      /\ \A s \in Threads : step[s] = "opened" /\ s # t => fresh[s] # fresh[t]
  BY DEF FreshFits
<1>4. ListOk(entries, owner')
  BY <1>1, <1>3 DEF ListOk
<1>5. TrackOk(acquired, owner', pinned)
  BY <1>1, <1>3 DEF TrackOk
<1>6. StepOk(step', want', acquired)
  BY <1>2 DEF StepOk
<1>7. FreshFits(entries, owner', step', want', fresh', acquired, pinned)
  <2>1. fresh' \in [Threads -> Contexts \cup {NoCtx}]
    BY <1>2 DEF FreshFits
  <2>2. ASSUME NEW s \in Threads
        PROVE  /\ step'[s] = IF s = t THEN "request" ELSE step[s]
               /\ want'[s] = IF s = t THEN NoDid ELSE want[s]
               /\ fresh'[s] = IF s = t THEN NoCtx ELSE fresh[s]
    BY <1>2 DEF StepOk, FreshFits
  <2>3. ASSUME NEW s \in Threads, step'[s] = "opened"
        PROVE  /\ s # t /\ step[s] = "opened" /\ fresh'[s] = fresh[s] /\ want'[s] = want[s]
               /\ fresh[s] \in DOMAIN owner' /\ owner'[fresh[s]] = want[s]
    <3>1. s # t /\ step[s] = "opened" /\ fresh'[s] = fresh[s] /\ want'[s] = want[s]
      BY <2>2, <2>3
    <3>2. fresh[s] \in DOMAIN owner /\ owner[fresh[s]] = want[s] /\ fresh[s] # fresh[t]
      BY <1>3, <3>1 DEF FreshFits
    <3> QED
      BY <1>1, <3>1, <3>2
  <2>4. \A s \in Threads : step'[s] # "opened" => fresh'[s] = NoCtx
    BY <2>2 DEF FreshFits
  <2>5. ASSUME NEW s \in Threads, step'[s] = "opened"
        PROVE  /\ fresh'[s] \notin pinned
               /\ \A i \in 1..Len(entries) : entries[i].ctx # fresh'[s]
               /\ \A r \in Threads : \A i \in 1..Len(acquired[r]) : acquired[r][i] # fresh'[s]
               /\ \A r \in Threads : step'[r] = "opened" /\ fresh'[r] = fresh'[s] => r = s
    BY <2>3, <2>5 DEF FreshFits
  <2> QED
    BY <2>1, <2>3, <2>4, <2>5 DEF FreshFits
<1> QED
  BY <1>1, <1>4, <1>5, <1>6, <1>7

LEMMA InsertLostStep ==
    ASSUME Parameters, Now, NEW t \in Threads, InsertLost(t) PROVE Then
<1>1. /\ step[t] = "opened" /\ GetDone(t)
      /\ owner' = Restricted(owner, open \ {fresh[t]})
  BY DEF InsertLost
<1>2. State(entries, owner', total, step', want', fresh', acquired, pinned)
  BY <1>1, CloseKeeps
<1>3. PICK i \in 1..Len(entries) : Hit(t, i)
  BY ListLength DEF InsertLost, Listed, Now, State, ListOk
<1>4. step'[t] = "request" /\ Len(acquired[t]) < MaxHeld
  BY <1>1 DEF GetDone, Now, State, StepOk
<1> QED
  BY <1>2, <1>3, <1>4, HitKeeps DEF Then

LEMMA InsertFailsStep ==
    ASSUME Parameters, Now, NEW t \in Threads, InsertFails(t) PROVE Then
<1>1. State(entries, owner', total, step', want', fresh', acquired, pinned)
  BY CloseKeeps DEF InsertFails
<1> QED
  BY <1>1 DEF InsertFails, listVars, Then

LEMMA GetStep ==
    ASSUME Parameters, Now, NEW t \in Threads, NEW did \in Dids, Get(t, did)
    PROVE  Then
<1>1. step[t] = "request" /\ Len(acquired[t]) < MaxHeld
  BY DEF Get
<1>2. CASE \E i \in Listed(did) :
              Hit(t, i) /\ UNCHANGED <<owner, step, want, fresh>>
  <2>1. PICK i \in 1..Len(entries) :
              Hit(t, i) /\ UNCHANGED <<owner, step, want, fresh>>
    BY <1>2, ListLength DEF Listed, Now, State, ListOk
  <2>2. State(entries', owner, total', step, want, fresh, acquired', pinned')
    BY <1>1, <2>1, HitKeeps DEF Now
  <2> QED
    BY <2>1, <2>2 DEF Then
<1>3. CASE /\ step' = [step EXCEPT ![t] = "opening"]
           /\ want' = [want EXCEPT ![t] = did]
           /\ UNCHANGED <<listVars, owner, fresh, acquired, pinned>>
  <2> USE DEF Now, State
  <2>1. /\ entries' = entries /\ total' = total /\ owner' = owner /\ fresh' = fresh
        /\ acquired' = acquired /\ pinned' = pinned
    BY <1>3 DEF listVars
  <2>2. StepOk(step', want', acquired)
    BY <1>1, <1>3 DEF StepOk
  <2>3. \A s \in Threads : step'[s] = "opened" => s # t /\ step[s] = "opened" /\ want'[s] = want[s]
    BY <1>3 DEF StepOk
  <2>4. \A s \in Threads : step'[s] # "opened" => step[s] # "opened"
    BY <1>1, <1>3 DEF StepOk
  <2>5. FreshFits(entries, owner, step', want', fresh, acquired, pinned)
    BY <2>3, <2>4 DEF FreshFits
  <2> QED
    BY <2>1, <2>2, <2>5 DEF Then
<1> QED
  BY <1>2, <1>3 DEF Get

LEMMA OpenContextStep ==
    ASSUME Now, NEW t \in Threads, OpenContext(t) PROVE Then
<1> USE DEF Now, State
<1>1. /\ step[t] = "opening" /\ step' = [step EXCEPT ![t] = "opened"]
      /\ entries' = entries /\ total' = total /\ want' = want
      /\ acquired' = acquired /\ pinned' = pinned
  BY DEF OpenContext, listVars
<1>2. PICK c \in Unused :
        /\ owner' = [d \in open \cup {c} |-> IF d = c THEN want[t] ELSE owner[d]]
        /\ fresh' = [fresh EXCEPT ![t] = c]
  BY DEF OpenContext
<1>3. /\ c \in Contexts /\ c \notin DOMAIN owner /\ c \notin pinned
      /\ \A s \in Threads : \A i \in 1..Len(acquired[s]) : acquired[s][i] # c
  BY ListLength, CacheToSet DEF Unused, open, TrackOk
<1>4. /\ DOMAIN owner' = DOMAIN owner \cup {c} /\ owner'[c] = want[t]
      /\ \A d \in DOMAIN owner : owner'[d] = owner[d]
  BY <1>2, <1>3 DEF open
<1>5. \A i \in 1..Len(entries) : entries[i].ctx # c
  BY <1>3 DEF ListOk
<1>6. ListOk(entries, owner')
  BY <1>4 DEF ListOk
<1>7. TrackOk(acquired, owner', pinned)
  BY <1>4 DEF TrackOk
<1>8. StepOk(step', want, acquired) /\ want[t] \in Dids
  BY <1>1 DEF StepOk
<1>9. FreshFits(entries, owner', step', want, fresh', acquired, pinned)
  <2>1. /\ fresh' \in [Threads -> Contexts \cup {NoCtx}] /\ fresh'[t] = c
        /\ \A s \in Threads : s # t => fresh'[s] = fresh[s]
    BY <1>2, <1>3 DEF FreshFits
  <2>2. /\ step'[t] = "opened"
        /\ \A s \in Threads : s # t => step'[s] = step[s]
    BY <1>1 DEF StepOk
  <2>3. \A s \in Threads : step'[s] # "opened" => fresh'[s] = NoCtx
    BY <2>1, <2>2 DEF FreshFits
  <2>4. ASSUME NEW s \in Threads, step'[s] = "opened", s # t
        PROVE  /\ fresh'[s] = fresh[s] /\ step[s] = "opened"
               /\ fresh[s] # c /\ fresh[s] \in DOMAIN owner
    BY <1>3, <2>1, <2>2, <2>4 DEF FreshFits
  <2>5. ASSUME NEW s \in Threads, step'[s] = "opened"
        PROVE  /\ fresh'[s] \in DOMAIN owner' /\ owner'[fresh'[s]] = want[s]
               /\ fresh'[s] \notin pinned
               /\ \A i \in 1..Len(entries) : entries[i].ctx # fresh'[s]
               /\ \A r \in Threads : \A i \in 1..Len(acquired[r]) : acquired[r][i] # fresh'[s]
               /\ \A r \in Threads : step'[r] = "opened" /\ fresh'[r] = fresh'[s] => r = s
    <3>1. CASE s = t
      BY <1>3, <1>4, <1>5, <2>1, <2>4, <3>1
    <3>2. CASE s # t
      <4>1. /\ fresh'[s] = fresh[s] /\ step[s] = "opened"
            /\ fresh[s] # c /\ fresh[s] \in DOMAIN owner
        BY <2>4, <2>5, <3>2
      <4>2. /\ owner[fresh[s]] = want[s] /\ fresh[s] \notin pinned
            /\ \A i \in 1..Len(entries) : entries[i].ctx # fresh[s]
            /\ \A r \in Threads : \A i \in 1..Len(acquired[r]) : acquired[r][i] # fresh[s]
            /\ \A r \in Threads : step[r] = "opened" /\ fresh[r] = fresh[s] => r = s
        BY <4>1 DEF FreshFits
      <4>3. ASSUME NEW r \in Threads, step'[r] = "opened", fresh'[r] = fresh'[s] PROVE r = s
        BY <2>1, <2>4, <4>1, <4>2, <4>3
      <4> QED
        BY <1>4, <4>1, <4>2, <4>3
    <3> QED
      BY <3>1, <3>2
  <2> QED
    BY <2>1, <2>3, <2>5 DEF FreshFits
<1> QED
  BY <1>1, <1>3, <1>4, <1>6, <1>7, <1>8, <1>9 DEF Then

LEMMA OpenFailsStep ==
    ASSUME Now, NEW t \in Threads, OpenFails(t) PROVE Then
<1> USE DEF Now, State
<1>1. /\ step[t] = "opening" /\ step' = [step EXCEPT ![t] = "request"]
      /\ want' = [want EXCEPT ![t] = NoDid]
      /\ entries' = entries /\ total' = total /\ owner' = owner /\ fresh' = fresh
      /\ acquired' = acquired /\ pinned' = pinned
  BY DEF OpenFails, listVars
<1>2. StepOk(step', want', acquired)
  BY <1>1 DEF StepOk
<1>3. \A s \in Threads : step'[s] = "opened" => s # t /\ step[s] = "opened" /\ want'[s] = want[s]
  BY <1>1 DEF StepOk
<1>4. \A s \in Threads : step'[s] # "opened" => step[s] # "opened"
  BY <1>1 DEF StepOk
<1>5. FreshFits(entries, owner, step', want', fresh, acquired, pinned)
  BY <1>3, <1>4 DEF FreshFits
<1> QED
  BY <1>1, <1>2, <1>5 DEF Then


LEMMA InsertWonStep ==
    ASSUME Parameters, Now, NEW t \in Threads, InsertWon(t) PROVE Then
<1> USE DEF Now, State
<1> DEFINE e == [did |-> want[t], ctx |-> fresh[t], refcount |-> 1]
           list == <<e>> \o entries
<1>1. /\ step[t] = "opened" /\ GetDone(t) /\ push_acquired(t, fresh[t])
      /\ evict_if_over_budget_locked(list, Append(recent, fresh[t]), idle, total + 1, owner)
      /\ Listed(want[t]) = {}
  BY DEF InsertWon
<1>2. /\ DOMAIN entries = 1..Len(entries) /\ Len(entries) \in Nat
      /\ entries \in Seq(Entry) /\ MaxHeld \in Nat /\ MaxResident \in Nat
      /\ \A j \in 1..Len(entries) : entries[j] \in Entry
  BY ListLength DEF ListOk, Parameters
<1>3. /\ want[t] \in Dids /\ fresh[t] \in DOMAIN owner /\ fresh[t] \in Contexts
      /\ owner[fresh[t]] = want[t] /\ fresh[t] \notin pinned
      /\ \A i \in 1..Len(entries) : entries[i].ctx # fresh[t]
      /\ \A s \in Threads : \A i \in 1..Len(acquired[s]) : acquired[s][i] # fresh[t]
      /\ \A s \in Threads : step[s] = "opened" /\ s # t => fresh[s] # fresh[t]
      /\ Len(acquired[t]) < MaxHeld
  BY <1>1 DEF FreshFits, StepOk
<1>4. \A i \in 1..Len(entries) : entries[i].did # want[t]
  BY <1>1, <1>2 DEF Listed
<1>5. /\ e \in Entry /\ e.did = want[t] /\ e.ctx = fresh[t] /\ e.refcount = 1
  BY <1>3 DEF Entry
<1> HIDE DEF e
<1>6. <<e>> \in Seq(Entry) /\ Len(<<e>>) = 1 /\ <<e>>[1] = e
  BY <1>5
<1>7. /\ list \in Seq(Entry) /\ Len(list) = 1 + Len(entries)
      /\ \A i \in 1..(1 + Len(entries)) : list[i] = IF i <= 1 THEN <<e>>[i] ELSE entries[i - 1]
  BY <1>2, <1>6, ConcatProperties
<1>8. ASSUME NEW i \in 1..Len(list)
      PROVE  \/ i = 1 /\ list[i] = e
             \/ i # 1 /\ i - 1 \in 1..Len(entries) /\ list[i] = entries[i - 1]
  BY <1>2, <1>6, <1>7
<1> HIDE DEF list
<1>9. /\ TrackOk(acquired', owner, pinned')
      /\ \A d \in Contexts : Refs(acquired', pinned', d) =
           IF d = fresh[t] THEN Refs(acquired, pinned, d) + 1 ELSE Refs(acquired, pinned, d)
      /\ \A s \in Threads : s # t => acquired'[s] = acquired[s]
      /\ \A s \in Threads : \A k \in 1..Len(acquired'[s]) : acquired'[s][k] # fresh[t] =>
           \E j \in 1..Len(acquired[s]) : acquired'[s][k] = acquired[s][j]
      /\ \A d \in pinned' : d # fresh[t] => d \in pinned
  BY <1>1, <1>2, <1>3, Pushes
<1>10. /\ \A s \in Threads : s # t => step'[s] = step[s] /\ want'[s] = want[s] /\ fresh'[s] = fresh[s]
       /\ step'[t] = "request" /\ fresh'[t] = NoCtx
       /\ step' \in [Threads -> {"request", "opening", "opened", "releasing"}]
       /\ want' \in [Threads -> Dids \cup {NoDid}]
       /\ fresh' \in [Threads -> Contexts \cup {NoCtx}]
  BY <1>1 DEF GetDone, StepOk, FreshFits
<1>11. ListOk(list, owner)
  <2>1. ASSUME NEW i \in 1..Len(list), NEW j \in 1..Len(list),
               list[i].ctx = list[j].ctx \/ list[i].did = list[j].did
        PROVE  i = j
    <3>1. ASSUME NEW k \in 1..Len(list), k # 1
          PROVE  list[k].ctx # fresh[t] /\ list[k].did # want[t]
      <4>1. k - 1 \in 1..Len(entries) /\ list[k] = entries[k - 1]
        BY <1>8, <3>1
      <4> QED
        BY <1>3, <1>4, <4>1
    <3>2. list[1].ctx = fresh[t] /\ list[1].did = want[t]
      <4>1. 1 \in 1..Len(list)
        BY <1>2, <1>7
      <4> QED
        BY <1>5, <1>8, <4>1
    <3>3. CASE i = 1 \/ j = 1
      BY <2>1, <3>1, <3>2, <3>3
    <3>4. CASE i # 1 /\ j # 1
      <4>1. /\ i - 1 \in 1..Len(entries) /\ list[i] = entries[i - 1]
            /\ j - 1 \in 1..Len(entries) /\ list[j] = entries[j - 1]
        BY <1>8, <3>4
      <4>2. i - 1 = j - 1
        BY <2>1, <4>1 DEF ListOk
      <4> QED
        BY <1>2, <1>7, <4>2
    <3> QED
      BY <3>3, <3>4
  <2>2. ASSUME NEW i \in 1..Len(list)
        PROVE  list[i].ctx \in DOMAIN owner /\ owner[list[i].ctx] = list[i].did
    <3>1. CASE i = 1
      BY <1>3, <1>5, <1>8, <3>1
    <3>2. CASE i # 1
      BY <1>8, <3>2 DEF ListOk
    <3> QED
      BY <3>1, <3>2
  <2> QED
    BY <1>7, <2>1, <2>2 DEF ListOk
<1>12. StepOk(step', want', acquired')
  BY <1>9, <1>10 DEF StepOk
<1>13. FreshFits(list, owner, step', want', fresh', acquired', pinned')
  <2>1. ASSUME NEW s \in Threads, step'[s] = "opened"
        PROVE  /\ s # t /\ step[s] = "opened" /\ fresh'[s] = fresh[s] /\ want'[s] = want[s]
               /\ fresh[s] # fresh[t]
    BY <1>3, <1>10, <2>1
  <2>2. ASSUME NEW s \in Threads, step'[s] = "opened"
        PROVE  /\ fresh'[s] \in DOMAIN owner /\ owner[fresh'[s]] = want'[s]
               /\ fresh'[s] \notin pinned'
               /\ \A i \in 1..Len(list) : list[i].ctx # fresh'[s]
               /\ \A r \in Threads : \A i \in 1..Len(acquired'[r]) : acquired'[r][i] # fresh'[s]
               /\ \A r \in Threads : step'[r] = "opened" /\ fresh'[r] = fresh'[s] => r = s
    <3>1. /\ s # t /\ step[s] = "opened" /\ fresh'[s] = fresh[s] /\ want'[s] = want[s]
          /\ fresh[s] # fresh[t]
      BY <2>1, <2>2
    <3>2. /\ fresh[s] \in DOMAIN owner /\ owner[fresh[s]] = want[s] /\ fresh[s] \notin pinned
          /\ \A i \in 1..Len(entries) : entries[i].ctx # fresh[s]
          /\ \A r \in Threads : \A i \in 1..Len(acquired[r]) : acquired[r][i] # fresh[s]
          /\ \A r \in Threads : step[r] = "opened" /\ fresh[r] = fresh[s] => r = s
      BY <3>1 DEF FreshFits
    <3>3. \A i \in 1..Len(list) : list[i].ctx # fresh[s]
      BY <1>5, <1>8, <3>1, <3>2
    <3>4. \A r \in Threads : \A i \in 1..Len(acquired'[r]) : acquired'[r][i] # fresh[s]
      BY <1>9, <3>1, <3>2
    <3>5. ASSUME NEW r \in Threads, step'[r] = "opened", fresh'[r] = fresh'[s] PROVE r = s
      BY <2>1, <3>1, <3>2, <3>5
    <3> QED
      BY <1>9, <3>1, <3>2, <3>3, <3>4, <3>5
  <2>3. \A s \in Threads : step'[s] # "opened" => fresh'[s] = NoCtx
    BY <1>10 DEF FreshFits
  <2> QED
    BY <1>10, <2>2, <2>3 DEF FreshFits
<1>14. RefsOk(list, acquired', pinned')
  <2> SUFFICES ASSUME NEW i \in 1..Len(list)
               PROVE  list[i].refcount = Refs(acquired', pinned', list[i].ctx)
    BY DEF RefsOk
  <2>1. CASE i = 1
    <3>1. Refs(acquired, pinned, fresh[t]) = 0
      BY <1>3, Unheld
    <3> QED
      BY <1>3, <1>5, <1>8, <1>9, <2>1, <3>1
  <2>2. CASE i # 1
    <3>1. i - 1 \in 1..Len(entries) /\ list[i] = entries[i - 1]
      BY <1>8, <2>2
    <3>2. entries[i - 1].ctx # fresh[t] /\ entries[i - 1].ctx \in Contexts
      BY <1>2, <1>3, <3>1 DEF Entry
    <3> QED
      BY <1>9, <3>1, <3>2 DEF RefsOk
  <2> QED
    BY <2>1, <2>2
<1>15. total + 1 \in Nat /\ (total + 1 <= MaxResident + 1 \/ OneIdle(list))
  <2>1. CASE NoIdle(entries)
    <3>1. \A i \in 1..Len(list) : list[i].refcount # 0
      BY <1>5, <1>8, <2>1 DEF NoIdle
    <3> QED
      BY <3>1 DEF OneIdle
  <2> QED
    BY <1>2, <2>1
<1> QED
  BY <1>1, <1>9, <1>11, <1>12, <1>13, <1>14, <1>15, Settle DEF Then


LEMMA EndRequestStep ==
    ASSUME Now, NEW t \in Threads, EndRequest(t) PROVE Then
<1> USE DEF Now, State
<1>1. /\ step[t] = "request" /\ acquired[t] # <<>> /\ step' = [step EXCEPT ![t] = "releasing"]
      /\ entries' = entries /\ total' = total /\ owner' = owner /\ fresh' = fresh
      /\ want' = want /\ acquired' = acquired /\ pinned' = pinned
  BY DEF EndRequest, listVars
<1>2. StepOk(step', want, acquired)
  BY <1>1 DEF StepOk
<1>3. \A s \in Threads : step'[s] = "opened" <=> step[s] = "opened"
  BY <1>1 DEF StepOk
<1>4. FreshFits(entries, owner, step', want, fresh, acquired, pinned)
  BY <1>3 DEF FreshFits
<1> QED
  BY <1>1, <1>2, <1>4 DEF Then

\* One reference less, on a context that is listed with a positive count or not at all.
LEMMA ReleaseNextStep ==
    ASSUME Parameters, Now, NEW t \in Threads, ReleaseNext(t) PROVE Then
<1> USE DEF Now, State
<1> DEFINE c == Head(acquired[t])
<1>1. /\ step[t] = "releasing" /\ release(c)
      /\ acquired' = [acquired EXCEPT ![t] = Tail(@)]
      /\ step' = [step EXCEPT ![t] = IF Len(acquired[t]) = 1 THEN "request" ELSE @]
      /\ want' = want /\ fresh' = fresh /\ pinned' = pinned
  BY DEF ReleaseNext
<1>2. /\ acquired[t] \in Seq(Contexts) /\ acquired[t] # <<>> /\ Len(acquired[t]) \in Nat \ {0}
      /\ c = acquired[t][1] /\ c \in Contexts /\ c \in DOMAIN owner /\ 1 \in 1..Len(acquired[t])
  <2>1. acquired[t] \in Seq(Contexts) /\ acquired[t] # <<>>
    BY <1>1 DEF TrackOk, StepOk
  <2>2. Len(acquired[t]) # 0 /\ Len(acquired[t]) \in Nat
    BY <2>1, EmptySeq
  <2>3. c = acquired[t][1] /\ 1 \in 1..Len(acquired[t])
    BY <2>1, <2>2
  <2>4. acquired[t][1] \in DOMAIN owner
    BY <2>3 DEF TrackOk
  <2> QED
    BY <2>1, <2>2, <2>3, <2>4
<1>3. MaxHeld \in Nat /\ MaxResident \in Nat \ {0}
  BY DEF Parameters
<1>4. /\ acquired'[t] = Tail(acquired[t]) /\ \A s \in Threads : s # t => acquired'[s] = acquired[s]
      /\ Tail(acquired[t]) \in Seq(Contexts) /\ Len(Tail(acquired[t])) = Len(acquired[t]) - 1
      /\ \A i \in 1..(Len(acquired[t]) - 1) : Tail(acquired[t])[i] = acquired[t][i + 1]
  BY <1>1, <1>2 DEF TrackOk
<1>5. ASSUME NEW s \in Threads, NEW i \in 1..Len(acquired'[s])
      PROVE  \E j \in 1..Len(acquired[s]) : acquired'[s][i] = acquired[s][j]
  <2>1. CASE s = t
    <3>0. acquired'[s] = Tail(acquired[t])
      BY <1>4, <2>1
    <3>1. i \in 1..(Len(acquired[t]) - 1) /\ i + 1 \in 1..Len(acquired[t])
      BY <1>2, <1>4, <3>0
    <3> QED
      BY <1>4, <2>1, <3>1
  <2>2. CASE s # t
    BY <1>4, <2>2
  <2> QED
    BY <2>1, <2>2
<1>6. ASSUME NEW d \in Contexts
      PROVE  /\ IsFiniteSet(Holds(acquired', d))
             /\ Refs(acquired', pinned, d) =
                  IF d = c THEN Refs(acquired, pinned, d) - 1 ELSE Refs(acquired, pinned, d)
  BY <1>2, <1>3, <1>4, PopHeld
<1>7. Refs(acquired, pinned, c) \in Nat \ {0}
  <2>1. Refs(acquired, pinned, c) # 0
    BY <1>2, <1>3, NoRefs
  <2> QED
    BY <1>2, <2>1, RefsAreNat
<1> HIDE DEF c
<1>8. TrackOk(acquired', owner, pinned)
  <2>1. acquired' \in [Threads -> Seq(Contexts)]
    BY <1>1, <1>4 DEF TrackOk
  <2>2. \A s \in Threads : \A i \in 1..Len(acquired'[s]) : acquired'[s][i] \in DOMAIN owner
    BY <1>5 DEF TrackOk
  <2>3. \A s \in Threads : Len(acquired'[s]) <= MaxHeld
    BY <1>2, <1>3, <1>4 DEF TrackOk
  <2> QED
    BY <1>6, <2>1, <2>2, <2>3 DEF TrackOk
<1>9. StepOk(step', want, acquired')
  <2>1. step' \in [Threads -> {"request", "opening", "opened", "releasing"}]
    BY <1>1 DEF StepOk
  <2>2. step'[t] = IF Len(acquired[t]) = 1 THEN "request" ELSE "releasing"
    BY <1>1 DEF StepOk
  <2>3. \A s \in Threads : s # t => step'[s] = step[s]
    BY <1>1 DEF StepOk
  <2>4. step'[t] = "releasing" => acquired'[t] # <<>>
    <3>1. step'[t] = "releasing" => Len(Tail(acquired[t])) # 0
      BY <1>2, <1>4, <2>2
    <3>2. Len(<<>>) = 0
      OBVIOUS
    <3> QED
      BY <1>4, <3>1, <3>2
  <2> QED
    BY <1>4, <2>1, <2>2, <2>3, <2>4 DEF StepOk
<1>10. \A s \in Threads : step'[s] = "opened" <=> step[s] = "opened"
  BY <1>1 DEF StepOk
<1>11. FreshFits(entries, owner, step', want, fresh, acquired', pinned)
  <2>1. ASSUME NEW s \in Threads, step[s] = "opened", NEW r \in Threads,
               NEW i \in 1..Len(acquired'[r])
        PROVE  acquired'[r][i] # fresh[s]
    BY <1>5, <2>1 DEF FreshFits
  <2> QED
    BY <1>10, <2>1 DEF FreshFits
<1>12. /\ DOMAIN entries = 1..Len(entries) /\ Len(entries) \in Nat
       /\ \A j \in 1..Len(entries) : entries[j] \in Entry
  BY ListLength DEF ListOk
<1>13. CASE /\ {i \in DOMAIN entries : entries[i].ctx = c /\ entries[i].refcount > 0} = {}
            /\ UNCHANGED <<listVars, owner>>
  <2>1. entries' = entries /\ total' = total /\ owner' = owner
    BY <1>13 DEF listVars
  <2>2. ASSUME NEW i \in 1..Len(entries) PROVE entries[i].ctx # c
    <3>1. entries[i].refcount = Refs(acquired, pinned, entries[i].ctx)
      BY DEF RefsOk
    <3> QED
      BY <1>7, <1>12, <1>13, <3>1
  <2>3. RefsOk(entries, acquired', pinned)
    BY <1>6, <1>12, <2>2 DEF RefsOk, Entry
  <2> QED
    BY <1>1, <1>8, <1>9, <1>11, <2>1, <2>3 DEF Then
<1>14. ASSUME NEW i \in 1..Len(entries), entries[i].ctx = c, entries[i].refcount > 0,
              NEW list, list = [entries EXCEPT ![i].refcount = @ - 1],
              \/ /\ list[i].refcount > 0
                 /\ entries' = list
                 /\ UNCHANGED <<recent, idle, total, owner>>
              \/ /\ list[i].refcount = 0
                 /\ evict_if_over_budget_locked(list, Touch(recent, c), idle + 1,
                                                      total, owner)
       PROVE  Then
  <2> DEFINE e == [entries[i] EXCEPT !.refcount = @ - 1]
  <2>1. /\ e \in Entry /\ e.ctx = entries[i].ctx /\ e.did = entries[i].did
        /\ e.refcount = entries[i].refcount - 1
    BY <1>12, <1>14 DEF Entry
  <2>2. list = [entries EXCEPT ![i] = e]
    BY <1>12, <1>14
  <2> HIDE DEF e
  <2>3. /\ list \in Seq(Entry) /\ Len(list) = Len(entries) /\ list[i] = e
        /\ \A j \in 1..Len(entries) : j # i => list[j] = entries[j]
    BY <1>12, <2>1, <2>2 DEF ListOk
  <2>4. \A j \in 1..Len(entries) :
           list[j].ctx = entries[j].ctx /\ list[j].did = entries[j].did
    BY <2>1, <2>3
  <2>5. ListOk(list, owner)
    BY <2>3, <2>4 DEF ListOk
  <2>6. FreshFits(list, owner, step', want, fresh, acquired', pinned)
    BY <1>11, <2>3, <2>4 DEF FreshFits
  <2>7. RefsOk(list, acquired', pinned)
    <3> SUFFICES ASSUME NEW j \in 1..Len(entries)
                 PROVE  list[j].refcount = Refs(acquired', pinned, list[j].ctx)
      BY <2>3 DEF RefsOk
    <3>1. entries[j].ctx \in Contexts /\ entries[j].refcount = Refs(acquired, pinned, entries[j].ctx)
      BY DEF ListOk, RefsOk
    <3>2. CASE j = i
      BY <1>6, <1>14, <2>1, <2>3, <3>1, <3>2
    <3>3. CASE j # i
      <4>1. entries[j].ctx # c
        BY <1>14, <3>3 DEF ListOk
      <4> QED
        BY <1>6, <2>3, <3>1, <3>3, <4>1
    <3> QED
      BY <3>2, <3>3
  <2>8. CASE list[i].refcount > 0 /\ entries' = list /\ UNCHANGED <<recent, idle, total, owner>>
    <3>1. total <= MaxResident \/ NoIdle(list)
      BY <1>12, <2>1, <2>3, <2>8 DEF NoIdle, Entry
    <3> QED
      BY <1>1, <1>8, <1>9, <2>5, <2>6, <2>7, <2>8, <3>1 DEF Then
  <2>9. CASE /\ list[i].refcount = 0
             /\ evict_if_over_budget_locked(list, Touch(recent, c), idle + 1,
                                                  total, owner)
    <3>1. total <= MaxResident + 1 \/ OneIdle(list)
      <4>1. CASE total <= MaxResident
        BY <1>3, <4>1
      <4>2. CASE NoIdle(entries)
        BY <2>3, <4>2 DEF NoIdle, OneIdle
      <4> QED
        BY <4>1, <4>2
    <3>2. State(entries', owner', total', step', want, fresh, acquired', pinned)
      BY <1>8, <1>9, <2>5, <2>6, <2>7, <2>9, <3>1, Settle
    <3> QED
      BY <1>1, <3>2 DEF Then
  <2> QED
    BY <1>14, <2>8, <2>9
<1> QED
  <2>1. CASE \E i \in {i \in DOMAIN entries : entries[i].ctx = c /\ entries[i].refcount > 0} :
            LET list == [entries EXCEPT ![i].refcount = @ - 1] IN
            \/ /\ list[i].refcount > 0
               /\ entries' = list
               /\ UNCHANGED <<recent, idle, total, owner>>
            \/ /\ list[i].refcount = 0
               /\ evict_if_over_budget_locked(list, Touch(recent, c), idle + 1,
                                                    total, owner)
    BY <1>12, <1>14, <2>1
  <2> QED
    BY <1>1, <1>13, <2>1 DEF release

LEMMA FreeStep ==
    ASSUME Parameters, Now, Free PROVE Then
<1> USE DEF Now, State
<1>1. /\ \A t \in Threads : step[t] = "request" /\ acquired[t] = <<>>
      /\ entries' = <<>> /\ total' = 0 /\ pinned' = {}
      /\ step' = step /\ want' = want /\ fresh' = fresh /\ acquired' = acquired
      /\ owner' = Restricted(owner, open \ {entries[i].ctx : i \in DOMAIN entries})
  BY DEF Free
<1>2. DOMAIN owner' \subseteq DOMAIN owner
  BY <1>1 DEF Restricted, open
<1>3. Len(<<>>) = 0 /\ <<>> \in Seq(Entry) /\ \A i \in 1..0 : FALSE
  OBVIOUS
<1>4. ListOk(<<>>, owner') /\ NoIdle(<<>>) /\ RefsOk(<<>>, acquired, {})
  BY <1>3 DEF ListOk, NoIdle, RefsOk
<1>5. TrackOk(acquired, owner', {})
  BY <1>1, <1>3 DEF TrackOk
<1>6. FreshFits(<<>>, owner', step, want, fresh, acquired, {})
  BY <1>1 DEF FreshFits
<1> QED
  BY <1>1, <1>2, <1>4, <1>5, <1>6 DEF Then

LEMMA CacheStarts ==
    ASSUME Parameters, CacheInit PROVE Now
<1>1. Len(<<>>) = 0 /\ <<>> \in Seq(Entry) /\ <<>> \in Seq(Contexts) /\ \A i \in 1..0 : FALSE
  OBVIOUS
<1>2. /\ entries = <<>> /\ total = 0 /\ pinned = {} /\ DOMAIN owner = {}
      /\ step = [t \in Threads |-> "request"] /\ want = [t \in Threads |-> NoDid]
      /\ fresh = [t \in Threads |-> NoCtx] /\ acquired = [t \in Threads |-> <<>>]
  BY DEF CacheInit
<1>3. ListOk(entries, owner) /\ NoIdle(entries) /\ RefsOk(entries, acquired, pinned)
  BY <1>1, <1>2 DEF ListOk, NoIdle, RefsOk
<1>4. ASSUME NEW c \in Contexts PROVE IsFiniteSet(Holds(acquired, c))
  <2>1. ASSUME NEW h \in Holds(acquired, c) PROVE FALSE
    BY <1>2 DEF Holds
  <2>2. Holds(acquired, c) = {}
    BY <2>1
  <2> QED
    BY <2>2, FS_EmptySet
<1>5. TrackOk(acquired, owner, pinned)
  BY <1>1, <1>2, <1>4 DEF TrackOk, Parameters
<1>6. StepOk(step, want, acquired) /\ FreshFits(entries, owner, step, want, fresh, acquired, pinned)
  BY <1>2 DEF StepOk, FreshFits
<1> QED
  BY <1>2, <1>3, <1>5, <1>6 DEF Now, State

LEMMA CacheSteps ==
    ASSUME Parameters, Now, [CacheNext]_cacheVars PROVE Then
<1>1. CASE UNCHANGED cacheVars
  BY <1>1 DEF cacheVars, listVars, threadVars, Now, Then
<1>2. CASE CacheNext
  BY <1>2, FreeStep, GetStep, OpenContextStep, OpenFailsStep, InsertLostStep, InsertWonStep,
     InsertFailsStep, EndRequestStep, ReleaseNextStep DEF CacheNext
<1> QED
  BY <1>1, <1>2

LEMMA CacheInvHolds == CacheSpec => []CacheInv
<1>1. CacheInit => Now
  BY CacheStarts, AccountCacheAssumption
<1>2. Now /\ [CacheNext]_cacheVars => Now'
  <2> SUFFICES ASSUME Now, [CacheNext]_cacheVars PROVE Now'
    OBVIOUS
  <2>1. Then
    BY CacheSteps, AccountCacheAssumption
  <2> QED
    BY <2>1 DEF Now, Then
<1>3. Now => CacheInv
  BY StateIsInvariant DEF Now
<1> QED
  BY <1>1, <1>2, <1>3, PTL DEF CacheSpec

\* What a request holds stays open, whatever other threads get, release and evict
\* (metalbear_account_cache_get, metalbear_account_cache_release).
THEOREM HeldContextsStayOpen == CacheSpec => []HeldStaysOpen
<1>1. CacheInv => HeldStaysOpen
  <2> SUFFICES ASSUME CacheInv, NEW t \in Threads
               PROVE  ToSet(acquired[t]) \cup ({fresh[t]} \ {NoCtx}) \subseteq open
    BY DEF HeldStaysOpen
  <2>1. ToSet(acquired[t]) \subseteq open
    BY DEF CacheInv, ContextsInv
  <2>2. fresh[t] = NoCtx \/ fresh[t] \in open
    BY DEF CacheInv, FreshInv, FreshOk, open
  <2> QED
    BY <2>1, <2>2
<1> QED
  BY <1>1, CacheInvHolds, PTL

\* Two racing gets of one account settle on one context, which is open and opened for
\* that account (the second look of metalbear_account_cache_get).
THEOREM ListIsUnambiguous == CacheSpec => []ListUnambiguous
<1>1. CacheInv => ListUnambiguous
  BY DEF CacheInv
<1> QED
  BY <1>1, CacheInvHolds, PTL

\* One pass of evict_if_over_budget_locked by each get and each release is enough to
\* keep no idle context over the budget.
THEOREM BudgetIsSettled == CacheSpec => []BudgetSettled
<1>1. CacheInv => BudgetSettled
  BY DEF CacheInv
<1> QED
  BY <1>1, CacheInvHolds, PTL

=============================================================================
