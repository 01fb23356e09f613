------------------------------- MODULE Blobs -------------------------------
(***************************************************************************)
(* One account's blob store (blob_store.c, blob_store_server.c) and the    *)
(* bookkeeping by which record writes keep blobs alive (repo_routes.c): a  *)
(* write commits its records under the repository's mutex, then, outside   *)
(* it, associates the blobs of the new values and dissociates those of the *)
(* old ones, each under the store's mutex.  A blob whose last association  *)
(* goes is deleted.                                                        *)
(*                                                                         *)
(* A record is the set of the blobs it names.  The store's operations are  *)
(* atomic to each other (store->mutex) but not to a crash: Halfway is what *)
(* a crash in the middle of one may leave on disk.  The first-seen         *)
(* revision sidecar (.rev), encryption and takedowns are left out: they    *)
(* decide what a listing or a read shows, not what is stored.  A batch     *)
(* names a key at most once.                                               *)
(***************************************************************************)
EXTENDS Naturals, FiniteSets

CONSTANTS Requests,   \* request threads
          Keys,       \* records, as the URIs blobs are associated with
          Cids,       \* blobs
          Values,     \* record values, as the blobs they name
          MaxCalls,   \* bound on record writes and imports
          MaxFaults,  \* bound on crashes and failed file operations
          Gone        \* no record at a key

ASSUME BlobAssumption ==
    /\ Values \subseteq SUBSET Cids /\ Gone \notin Values
    /\ MaxCalls \in Nat /\ MaxFaults \in Nat

VARIABLES records,  \* the repository: the blobs each record names, or Gone
          disk,     \* the store's directory: data, mime types, .refs sidecars
          index,    \* the store's nodes: associations of every blob it holds
          request,  \* what each request thread is doing
          calls, faults,
          h         \* history, for the properties only

vars == <<records, disk, index, request, calls, faults, h>>

NoPairs == {}
Idle == [pc |-> "idle", new |-> <<>>, old |-> <<>>, associate |-> NoPairs,
         dissociate |-> NoPairs, stored |-> {}, crowded |-> FALSE]

Init ==
    /\ records = [k \in Keys |-> Gone]
    /\ disk = [data |-> {}, mime |-> {}, refs |-> [c \in Cids |-> {}]]
    /\ index = <<>>
    /\ request = [r \in Requests |-> Idle]
    /\ calls = 0 /\ faults = 0
    /\ h = [due |-> NoPairs, mixed |-> {}, torn |-> {}, used |-> {}]

Stored == DOMAIN index
At(r, pc) == request[r].pc = pc
Active == {r \in Requests : ~At(r, "idle")}
Call == calls < MaxCalls /\ calls' = calls + 1
Fault == faults < MaxFaults /\ faults' = faults + 1

\* Nothing is claimed of a record that two requests wrote at once, nor of a blob
\* whose sidecar a crash or a failed delete left behind.
Excused(hist) ==
    [hist EXCEPT !.due = {p \in @ : p[1] \notin hist.mixed /\ p[2] \notin hist.torn},
                 !.used = @ \ hist.torn]

\* The blobs a record's value names (metalbear_blob_walk_refs).
Named(v) == IF v = Gone THEN {} ELSE v

(***************************************************************************)
(* The store's operations, as what they leave in memory and on disk.       *)
(***************************************************************************)

\* persist_refs: the sidecar is rewritten in place.
Persisted(d, c, refs) == [d EXCEPT !.refs[c] = refs]

\* blob_write_backing_files: the data's rename, then the type's.
DataWritten(d, c) == [d EXCEPT !.data = @ \union {c}]
Written(d, c) == [DataWritten(d, c) EXCEPT !.mime = @ \union {c}]

\* blob_store_delete_locked: both files are renamed away, then the node and
\* the sidecars go.
DataAway(d, c) == [d EXCEPT !.data = @ \ {c}]
BothAway(d, c) == [DataAway(d, c) EXCEPT !.mime = @ \ {c}]
Deleted(d, c) == Persisted(BothAway(d, c), c, {})

Without(c) == [b \in Stored \ {c} |-> index[b]]

\* metalbear_blob_store_new: a blob is in the index if its data and its type
\* are there, with the associations its sidecar lists.
Loaded(d) == [c \in d.data \intersect d.mime |-> d.refs[c]]

\* metalbear_blob_store_put: a blob already there keeps its associations.
put(c) ==
    /\ disk' = Written(disk, c)
    /\ index' = [b \in Stored \union {c} |-> IF b \in Stored THEN index[b] ELSE {}]

\* metalbear_blob_store_get: the type is in memory, the data in its file.
get(c) == c \in Stored /\ c \in disk.data

\* metalbear_blob_store_associate; a blob that is not there is passed over.
associate(c, k) ==
    IF c \in Stored
    THEN /\ index' = [index EXCEPT ![c] = @ \union {k}]
         /\ disk' = Persisted(disk, c, index'[c])
         /\ h' = Excused([h EXCEPT !.used = @ \union {c},
                           !.due = IF c \in Named(records[k])
                                   THEN @ \union {<<k, c>>} ELSE @])
    ELSE UNCHANGED <<index, disk, h>>

\* Mutant: a blob without associations is kept.
dissociateOnly(c, k) ==
    IF c \in Stored /\ k \in index[c]
    THEN /\ index' = [index EXCEPT ![c] = @ \ {k}]
         /\ disk' = Persisted(disk, c, index'[c])
         /\ UNCHANGED h
    ELSE UNCHANGED <<index, disk, h>>

\* metalbear_blob_store_dissociate: the last association takes the blob along.
dissociate(c, k) ==
    IF c \in Stored /\ k \in index[c]
    THEN IF index[c] = {k}
         THEN /\ index' = Without(c)
              /\ disk' = Deleted(disk, c)
              /\ h' = Excused([h EXCEPT !.used = @ \ {c}])
         ELSE /\ index' = [index EXCEPT ![c] = @ \ {k}]
              /\ disk' = Persisted(disk, c, index'[c])
              /\ UNCHANGED h
    ELSE UNCHANGED <<index, disk, h>>

(***************************************************************************)
(* uploadBlob.                                                             *)
(***************************************************************************)

upload_blob(c) ==
    /\ put(c)
    /\ UNCHANGED <<records, request, calls, faults, h>>

\* The second rename fails: the data stays, the index does not change.
PutFails(c) ==
    /\ c \notin disk.data /\ Fault
    /\ disk' = DataWritten(disk, c)
    /\ UNCHANGED <<records, index, request, calls, h>>

(***************************************************************************)
(* Record writes.                                                          *)
(***************************************************************************)

\* Writing the keys ks begins: writes in progress at once crowd each other, and
\* a key two of them write is mixed up.
Entered(r, ks, state) ==
    /\ request' = [q \in Requests |->
         IF q = r THEN [state EXCEPT !.crowded = Active # {},
                                     !.stored = IF Active = {} THEN @ ELSE {}]
         ELSE IF q \in Active THEN [request[q] EXCEPT !.crowded = TRUE, !.stored = {}]
                              ELSE request[q]]
    /\ h' = Excused([h EXCEPT !.mixed = @ \union
               (ks \intersect UNION {DOMAIN request[q].new : q \in Active})])

Captured(new) ==
    [Idle EXCEPT !.pc = "commit", !.new = new, !.old = [k \in DOMAIN new |-> records[k]]]

\* h_put_record and h_delete_record: the value there now is captured first.
h_put_record(r, k, v) ==
    /\ At(r, "idle") /\ Call
    /\ Entered(r, {k}, Captured([j \in {k} |-> v]))
    /\ UNCHANGED <<records, disk, index, faults>>

h_delete_record(r, k) ==
    /\ At(r, "idle") /\ Call
    /\ Entered(r, {k}, Captured([j \in {k} |-> Gone]))
    /\ UNCHANGED <<records, disk, index, faults>>

\* h_apply_writes, of two writes; the values there now are captured one by one,
\* here at once (another write in between mixes up the key).
h_apply_writes(r, new) ==
    /\ At(r, "idle") /\ Call
    /\ Entered(r, DOMAIN new, Captured(new))
    /\ UNCHANGED <<records, disk, index, faults>>

\* track_written_blobs: what a write has to associate.
Tracked(new) == {p \in (DOMAIN new) \X Cids : p[2] \in Named(new[p[1]])}

\* Mutant: what the new value keeps is dissociated with the rest.
SupersededAll(new, old) ==
    {p \in (DOMAIN new) \X Cids : p[2] \in Named(old[p[1]])}

\* untrack_superseded_blobs: what it has to dissociate, except what the new
\* value of the same record keeps.
Superseded(new, old) ==
    {p \in (DOMAIN new) \X Cids : p[2] \in Named(old[p[1]]) \ Named(new[p[1]])}

\* h_create_record: nothing is replaced, so nothing is captured and the write
\* begins with its commit, which is refused if the key is there.
h_create_record(r, k, v) ==
    LET new == [j \in {k} |-> v] IN
    /\ At(r, "idle") /\ Call
    /\ records[k] = Gone
    /\ records' = [records EXCEPT ![k] = v]
    /\ Entered(r, {k}, [Idle EXCEPT !.pc = "track", !.new = new,
                          !.associate = Tracked(new), !.stored = Stored \intersect v])
    /\ UNCHANGED <<disk, index, faults>>

\* The store refuses to delete a record that is not there (which deleteRecord
\* answers as a success).
Refused(r) ==
    \E k \in DOMAIN request[r].new : request[r].new[k] = Gone /\ records[k] = Gone

\* metalbear_repo_store_put_record, delete_record, apply_writes.
CommitRecords(r) ==
    LET q == request[r] IN
    /\ q.pc = "commit" /\ ~Refused(r)
    /\ records' = [k \in Keys |-> IF k \in DOMAIN q.new THEN q.new[k] ELSE records[k]]
    /\ request' = [request EXCEPT ![r].pc = "track",
                     ![r].associate = Tracked(q.new),
                     ![r].dissociate = Superseded(q.new, q.old),
                     ![r].old = <<>>,
                     ![r].stored = IF q.crowded THEN {}
                                   ELSE {c \in Stored : \E p \in Tracked(q.new) : p[2] = c}]
    /\ h' = Excused([h EXCEPT !.due = {p \in @ : p[2] \in Named(records'[p[1]])}])
    /\ UNCHANGED <<disk, index, calls, faults>>

RefuseRecords(r) ==
    /\ At(r, "commit") /\ Refused(r)
    /\ request' = [request EXCEPT ![r] = Idle]
    /\ UNCHANGED <<records, disk, index, calls, faults, h>>

AssociateOne(r) ==
    \E p \in request[r].associate :
        /\ At(r, "track")
        /\ associate(p[2], p[1])
        /\ request' = [request EXCEPT ![r].associate = @ \ {p}]
        /\ UNCHANGED <<records, calls, faults>>

\* The second phase waits for the whole of the first.
DissociateOne(r) ==
    \E p \in request[r].dissociate :
        /\ At(r, "track") /\ request[r].associate = {}
        /\ dissociate(p[2], p[1])
        /\ request' = [request EXCEPT ![r].dissociate = @ \ {p}]
        /\ UNCHANGED <<records, calls, faults>>

\* Mutant: the data file is not put back.
DeleteFailsAway(r) ==
    \E p \in request[r].dissociate :
        /\ At(r, "track") /\ request[r].associate = {} /\ Fault
        /\ p[2] \in Stored /\ index[p[2]] = {p[1]}
        /\ index' = [index EXCEPT ![p[2]] = {}]
        /\ disk' = DataAway(disk, p[2])
        /\ request' = [request EXCEPT ![r].dissociate = @ \ {p}]
        /\ h' = Excused([h EXCEPT !.torn = @ \union {p[2]}])
        /\ UNCHANGED <<records, calls>>

\* Deleting the blob fails at either rename: the data is put back, but the
\* association is gone from memory and still in the sidecar.
DeleteFails(r) ==
    \E p \in request[r].dissociate :
        /\ At(r, "track") /\ request[r].associate = {} /\ Fault
        /\ p[2] \in Stored /\ index[p[2]] = {p[1]}
        /\ index' = [index EXCEPT ![p[2]] = {}]
        /\ request' = [request EXCEPT ![r].dissociate = @ \ {p}]
        /\ h' = Excused([h EXCEPT !.torn = @ \union {p[2]}])
        /\ UNCHANGED <<records, disk, calls>>

\* The answer.  A write that no other crowded has associated every blob that was
\* stored when it committed.
Answer(r) ==
    LET q == request[r] IN
    /\ At(r, "track") /\ q.associate = {} /\ q.dissociate = {}
    /\ request' = [request EXCEPT ![r] = Idle]
    /\ h' = Excused([h EXCEPT !.due = @ \union
               {p \in Tracked(q.new) : /\ p[2] \in q.stored
                                       /\ p[2] \in Named(records[p[1]])}])
    /\ UNCHANGED <<records, disk, index, calls, faults>>

\* h_import_repo: the records change and no association does.
h_import_repo(k, v) ==
    /\ Call
    /\ records' = [records EXCEPT ![k] = v]
    /\ h' = Excused([h EXCEPT !.mixed = @ \union {k},
                      !.due = {p \in @ : p[2] \in Named(records'[p[1]])}])
    /\ UNCHANGED <<disk, index, request, faults>>

(***************************************************************************)
(* Crashes.                                                                *)
(***************************************************************************)

\* What the directory may be in the middle of the store operation that an upload
\* or r is at; the blob concerned.  fopen has truncated a sidecar and nothing is
\* written to it yet; of a blob's two files one is renamed, or both are and the
\* sidecar still stands.
HalfAssociated(p) == {[d |-> Persisted(disk, p[2], {}), c |-> p[2]]}

HalfDissociated(p) ==
    IF index[p[2]] = {p[1]}
    THEN {[d |-> DataAway(disk, p[2]), c |-> p[2]], [d |-> BothAway(disk, p[2]), c |-> p[2]]}
    ELSE {[d |-> Persisted(disk, p[2], {}), c |-> p[2]]}

Halfway ==
    LET associating == {p \in UNION {request[r].associate : r \in Requests} : p[2] \in Stored}
        second == {r \in Requests : request[r].associate = {}}
        dissociating == {p \in UNION {request[r].dissociate : r \in second} :
                           p[2] \in Stored /\ p[1] \in index[p[2]]}
    IN {[d |-> DataWritten(disk, c), c |-> c] : c \in Cids \ disk.data}
       \union (UNION {HalfAssociated(p) : p \in associating})
       \union (UNION {HalfDissociated(p) : p \in dissociating})

\* The server dies and starts again, or the account is evicted and reopened: the
\* requests are gone, and the keys they were writing are left mixed up.
Restart(d, c) ==
    /\ Fault
    /\ disk' = d
    /\ index' = Loaded(d)
    /\ request' = [r \in Requests |-> Idle]
    /\ h' = Excused([h EXCEPT !.torn = @ \union c,
                      !.mixed = @ \union UNION {DOMAIN request[r].new : r \in Active},
                      !.used = @ \intersect Stored'])
    /\ UNCHANGED <<records, calls>>

-----------------------------------------------------------------------------

Batches == [Keys -> Values \union {Gone}]

Next ==
    \/ \E c \in Cids : upload_blob(c) \/ PutFails(c)
    \/ \E r \in Requests, k \in Keys, v \in Values :
          h_create_record(r, k, v) \/ h_put_record(r, k, v)
    \/ \E r \in Requests, k \in Keys : h_delete_record(r, k)
    \/ \E r \in Requests, b \in Batches : h_apply_writes(r, b)
    \/ \E r \in Requests :
          \/ CommitRecords(r) \/ RefuseRecords(r)
          \/ AssociateOne(r) \/ DissociateOne(r) \/ DeleteFails(r) \/ Answer(r)
    \/ \E k \in Keys, v \in Values : h_import_repo(k, v)
    \/ Restart(disk, {})
    \/ \E x \in Halfway : Restart(x.d, {x.c})

Spec == Init /\ [][Next]_vars

-----------------------------------------------------------------------------
(* Properties.                                                             *)

\* Every blob of the index can be read, and its type is in the directory for the
\* next start, whichever file operation failed and wherever the server died.
IndexReadable == \A c \in Stored : get(c) /\ c \in disk.mime

\* What untrack_superseded_blobs and the two phases of applyWrites are for: a
\* blob that a record names, that its write associated (or, if it ran alone,
\* found in the store), stays stored and associated, through other records'
\* writes, batches and restarts.  Excepted are records that two requests wrote at
\* once and blobs whose sidecar a crash or a failed delete left behind.
KeptWhileNamed ==
    \A p \in h.due :
        p[1] \notin h.mixed /\ p[2] \notin h.torn =>
            p[2] \in Stored /\ p[1] \in index[p[2]]

\* deleteDereferencedBlobs: once no record that was associated with a blob names
\* it, the blob is gone; and an association is with a record that names it or is
\* being written.
DereferencedIsGone ==
    \A c \in Stored \ h.torn :
        /\ c \in h.used => index[c] # {}
        /\ \A k \in index[c] :
              \/ k \in h.mixed
              \/ \E r \in Active : k \in DOMAIN request[r].new
              \/ c \in Named(records[k])
=============================================================================
