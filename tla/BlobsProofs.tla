----------------------------- MODULE BlobsProofs -----------------------------
(***************************************************************************)
(* What holds of the blob store for any number of requests, records and    *)
(* blobs, with failing file operations and crashes anywhere: what it lists *)
(* can be read, what a record names is kept, and what no record names any  *)
(* more is gone.                                                           *)
(*                                                                         *)
(* A record that no two requests wrote at once has one writer at most,     *)
(* which knows its value (Owned): before the commit the one it has         *)
(* captured, after it the one it has written.  What is associated with the *)
(* record and not named by it is still on the writer's list, and the       *)
(* writer's list has nothing that the record names.  The directory and the *)
(* index agree on every blob that no crash tore (Agreed), which is what a  *)
(* restart falls back on.                                                  *)
(***************************************************************************)
EXTENDS Blobs, TLAPS

HasFields(q) ==
    q \in [pc : {q.pc}, new : {q.new}, old : {q.old}, associate : {q.associate},
           dissociate : {q.dissociate}, stored : {q.stored}, crowded : {q.crowded}]

Disks == [data : SUBSET Cids, mime : SUBSET Cids, refs : [Cids -> SUBSET Keys]]

Hists == [due : SUBSET (Keys \X Cids), mixed : SUBSET Keys, torn : SUBSET Cids,
          used : SUBSET Cids]

Shape ==
    /\ records = [k \in Keys |-> records[k]]
    /\ disk \in Disks
    /\ Stored \subseteq Cids /\ index \in [Stored -> SUBSET Keys]
    /\ request = [r \in Requests |-> request[r]] /\ \A r \in Requests : HasFields(request[r])
    /\ h \in Hists

\* The index is of what can be read; but for torn blobs it is also what the
\* directory holds.
Agreed ==
    /\ IndexReadable
    /\ \A c \in Cids \ h.torn :
         /\ c \in disk.mime => c \in Stored
         /\ c \in Stored => disk.refs[c] = index[c]
         /\ c \notin Stored => disk.refs[c] = {}

\* A request writes its own keys, and one that is not crowded is alone.
Write(r) ==
    ~At(r, "idle") =>
        /\ request[r].pc \in {"commit", "track"}
        /\ DOMAIN request[r].new \subseteq Keys
        /\ request[r].associate \subseteq Tracked(request[r].new)
        /\ \A p \in request[r].dissociate : /\ p \in (DOMAIN request[r].new) \X Cids
                                            /\ p[2] \notin Named(request[r].new[p[1]])
        /\ request[r].crowded => request[r].stored = {}
        /\ ~request[r].crowded => Active = {r}

\* The one writer of a key that is not mixed up.
Owned(r) ==
    \A k \in (DOMAIN request[r].new) \ h.mixed : ~At(r, "idle") =>
        /\ \A s \in Active : k \in DOMAIN request[s].new => s = r
        /\ At(r, "commit") =>
             /\ request[r].old[k] = records[k]
             /\ \A c \in Stored \ h.torn : k \in index[c] => c \in Named(records[k])
        /\ At(r, "track") =>
             /\ request[r].new[k] = records[k]
             /\ \A c \in Stored \ h.torn :
                  k \in index[c] => c \in Named(records[k]) \/ <<k, c>> \in request[r].dissociate

\* What a write that runs alone found stored, it has associated or will.
Found(r) ==
    At(r, "track") =>
        \A c \in request[r].stored \ h.torn : \A k \in DOMAIN request[r].new :
            c \in Named(request[r].new[k]) =>
                c \in Stored /\ (<<k, c>> \in request[r].associate \/ k \in index[c])

Due ==
    \A p \in h.due :
        /\ p[1] \notin h.mixed /\ p[2] \notin h.torn /\ p[2] \in Named(records[p[1]])
        /\ p[2] \in Stored /\ p[1] \in index[p[2]]

Used ==
    /\ h.used \subseteq Stored \ h.torn
    /\ \A c \in h.used : index[c] # {}

\* An association is with a record that names the blob or is being written.
Justified ==
    \A c \in Stored \ h.torn : \A k \in index[c] :
        \/ k \in h.mixed
        \/ \E r \in Active : k \in DOMAIN request[r].new
        \/ c \in Named(records[k])

BlobInv ==
    /\ Shape /\ Agreed /\ Due /\ Used /\ Justified
    /\ \A r \in Requests : Write(r) /\ Owned(r) /\ Found(r)

-----------------------------------------------------------------------------
(* The directory and the history.                                          *)

\* What is rewritten is one blob's sidecar.
LEMMA PersistedIs ==
    ASSUME NEW d \in Disks, NEW c \in Cids, NEW s \in SUBSET Keys
    PROVE  /\ Persisted(d, c, s) \in Disks
           /\ Persisted(d, c, s).data = d.data /\ Persisted(d, c, s).mime = d.mime
           /\ Persisted(d, c, s).refs[c] = s
           /\ \A b \in Cids : b # c => Persisted(d, c, s).refs[b] = d.refs[b]
<1> DEFINE f == [d.refs EXCEPT ![c] = s]
<1>1. f \in [Cids -> SUBSET Keys] /\ f[c] = s /\ \A b \in Cids : b # c => f[b] = d.refs[b]
  BY DEF Disks
<1>2. Persisted(d, c, s) = [d EXCEPT !.refs = f]
  BY DEF Persisted, Disks
<1> HIDE DEF f
<1> QED  BY <1>1, <1>2 DEF Disks

\* Files come and go one by one.
LEMMA FilesAre ==
    ASSUME NEW d \in Disks, NEW c \in Cids
    PROVE  /\ DataWritten(d, c) \in Disks /\ Written(d, c) \in Disks
           /\ DataAway(d, c) \in Disks /\ BothAway(d, c) \in Disks
           /\ DataWritten(d, c).data = d.data \union {c} /\ DataWritten(d, c).mime = d.mime
           /\ DataWritten(d, c).refs = d.refs
           /\ Written(d, c).data = d.data \union {c} /\ Written(d, c).mime = d.mime \union {c}
           /\ Written(d, c).refs = d.refs
           /\ DataAway(d, c).data = d.data \ {c} /\ DataAway(d, c).mime = d.mime
           /\ DataAway(d, c).refs = d.refs
           /\ BothAway(d, c).data = d.data \ {c} /\ BothAway(d, c).mime = d.mime \ {c}
           /\ BothAway(d, c).refs = d.refs
<1>1. /\ DataWritten(d, c) \in Disks /\ DataWritten(d, c).data = d.data \union {c}
      /\ DataWritten(d, c).mime = d.mime /\ DataWritten(d, c).refs = d.refs
  BY DEF DataWritten, Disks
<1>2. /\ Written(d, c) \in Disks /\ Written(d, c).data = d.data \union {c}
      /\ Written(d, c).mime = d.mime \union {c} /\ Written(d, c).refs = d.refs
  BY <1>1 DEF Written, Disks
<1>3. /\ DataAway(d, c) \in Disks /\ DataAway(d, c).data = d.data \ {c}
      /\ DataAway(d, c).mime = d.mime /\ DataAway(d, c).refs = d.refs
  BY DEF DataAway, Disks
<1>4. /\ BothAway(d, c) \in Disks /\ BothAway(d, c).data = d.data \ {c}
      /\ BothAway(d, c).mime = d.mime \ {c} /\ BothAway(d, c).refs = d.refs
  BY <1>3 DEF BothAway, Disks
<1> QED  BY <1>1, <1>2, <1>3, <1>4

\* Nothing is claimed of mixed up records and torn blobs.
LEMMA ExcusedIs ==
    ASSUME NEW x \in Hists
    PROVE  /\ Excused(x) \in Hists /\ Excused(x).mixed = x.mixed /\ Excused(x).torn = x.torn
           /\ Excused(x).used = x.used \ x.torn
           /\ Excused(x).due = {p \in x.due : p[1] \notin x.mixed /\ p[2] \notin x.torn}
<1> DEFINE due == {p \in x.due : p[1] \notin x.mixed /\ p[2] \notin x.torn}
           used == x.used \ x.torn
<1>1. due \in SUBSET (Keys \X Cids) /\ used \in SUBSET Cids
  BY DEF Hists
<1>2. Excused(x) = [[x EXCEPT !.due = due] EXCEPT !.used = used]
  BY DEF Excused, Hists
<1> HIDE DEF due, used
<1>3. [x EXCEPT !.due = due] \in Hists
  BY <1>1 DEF Hists
<1>4. /\ Excused(x) \in Hists /\ Excused(x).mixed = x.mixed /\ Excused(x).torn = x.torn
      /\ Excused(x).used = used /\ Excused(x).due = due
  BY <1>1, <1>2, <1>3 DEF Hists
<1> QED  BY <1>4 DEF due, used

\* A request that is not crowded is alone, and no other has anything stored.
LEMMA Alone ==
    ASSUME \A r \in Requests : Write(r), NEW r \in Active, NEW s \in Active, r # s
    PROVE  request[r].stored = {} /\ request[s].stored = {}
BY DEF Write, Active

-----------------------------------------------------------------------------
(* The actions.                                                            *)

\* An upload.
LEMMA UploadInv ==
    ASSUME BlobInv, NEW c \in Cids, upload_blob(c)
    PROVE  BlobInv'
<1> USE DEF BlobInv
<1>1. disk' = Written(disk, c) /\ UNCHANGED <<records, request, h>>
  BY DEF upload_blob, put
<1>2. /\ Stored' = Stored \union {c} /\ index' \in [Stored' -> SUBSET Keys]
      /\ \A b \in Stored : index'[b] = index[b]
      /\ c \notin Stored => index'[c] = {}
  BY DEF upload_blob, put, Stored, Shape
<1>3. /\ disk' \in Disks /\ disk'.data = disk.data \union {c}
      /\ disk'.mime = disk.mime \union {c} /\ disk'.refs = disk.refs
  BY <1>1, FilesAre DEF Shape
<1>4. Shape'
  BY <1>1, <1>2, <1>3 DEF Shape
<1>5. Agreed'
  BY <1>1, <1>2, <1>3 DEF Agreed, IndexReadable, get
<1>6. Due' /\ Used'
  BY <1>1, <1>2 DEF Due, Used
<1>7. Active' = Active
  BY <1>1 DEF Active, At
<1>8. Justified'
  BY <1>1, <1>2, <1>7 DEF Justified
<1>9. ASSUME NEW r \in Requests
      PROVE  Write(r)' /\ Owned(r)' /\ Found(r)'
  <2>1. Write(r)'
    BY <1>1, <1>7 DEF Write, At
  <2>2. Owned(r)'
    BY <1>1, <1>2, <1>7 DEF Owned, At
  <2>3. Found(r)'
    BY <1>1, <1>2 DEF Found, At
  <2> QED  BY <2>1, <2>2, <2>3
<1> QED  BY <1>4, <1>5, <1>6, <1>8, <1>9

\* One that fails leaves its data behind.
LEMMA PutFailsInv ==
    ASSUME BlobInv, NEW c \in Cids, PutFails(c)
    PROVE  BlobInv'
<1> USE DEF BlobInv
<1>1. disk' = DataWritten(disk, c) /\ UNCHANGED <<records, index, request, h>>
  BY DEF PutFails
<1>2. /\ disk' \in Disks /\ disk'.data = disk.data \union {c}
      /\ disk'.mime = disk.mime /\ disk'.refs = disk.refs
  BY <1>1, FilesAre DEF Shape
<1>3. Stored' = Stored /\ Active' = Active
  BY <1>1 DEF Stored, Active, At
<1>4. Shape' /\ Agreed'
  BY <1>1, <1>2, <1>3 DEF Shape, Agreed, IndexReadable, get
<1>5. Due' /\ Used' /\ Justified'
  BY <1>1, <1>3 DEF Due, Used, Justified
<1>6. ASSUME NEW r \in Requests
      PROVE  Write(r)' /\ Owned(r)' /\ Found(r)'
  BY <1>1, <1>3 DEF Write, Owned, Found, At
<1> QED  BY <1>4, <1>5, <1>6

\* A repository is imported.
LEMMA ImportInv ==
    ASSUME BlobInv, NEW k \in Keys, NEW v \in Values, h_import_repo(k, v)
    PROVE  BlobInv'
<1> USE DEF BlobInv
<1>1. records' = [records EXCEPT ![k] = v] /\ UNCHANGED <<disk, index, request>>
  BY DEF h_import_repo
<1>2. /\ records' = [j \in Keys |-> records'[j]]
      /\ \A j \in Keys : j # k => records'[j] = records[j]
  BY <1>1 DEF Shape
<1>3. /\ h' \in Hists /\ h'.mixed = h.mixed \union {k} /\ h'.torn = h.torn
      /\ h'.used = h.used \ h.torn
      /\ \A p \in h'.due : /\ p \in h.due /\ p[1] \notin h'.mixed
                           /\ p[2] \in Named(records'[p[1]])
  <2> DEFINE due == {p \in h.due : p[2] \in Named(records'[p[1]])}
             mixed == h.mixed \union {k}
             x == [h EXCEPT !.mixed = mixed, !.due = due]
  <2>1. due \in SUBSET (Keys \X Cids) /\ mixed \in SUBSET Keys /\ h \in Hists
    BY DEF Shape, Hists
  <2>2. h' = Excused(x)
    BY <2>1 DEF h_import_repo, Hists
  <2> HIDE DEF due, mixed
  <2>3. x \in Hists /\ x.mixed = mixed /\ x.torn = h.torn /\ x.used = h.used /\ x.due = due
    BY <2>1 DEF Hists
  <2> HIDE DEF x
  <2> QED  BY <2>2, <2>3, ExcusedIs DEF due, mixed
<1>4. Stored' = Stored /\ Active' = Active
  BY <1>1 DEF Stored, Active, At
<1>5. Shape' /\ Agreed'
  BY <1>1, <1>2, <1>3, <1>4 DEF Shape, Agreed, IndexReadable, get
<1>6. Due' /\ Used'
  BY <1>1, <1>3, <1>4 DEF Due, Used
<1>7. Justified'
  BY <1>1, <1>2, <1>3, <1>4 DEF Justified, Shape
<1>8. ASSUME NEW r \in Requests
      PROVE  Write(r)' /\ Owned(r)' /\ Found(r)'
  <2>1. Write(r)' /\ Found(r)'
    BY <1>1, <1>3, <1>4 DEF Write, Found, At
  <2>2. Owned(r)'
    BY <1>1, <1>2, <1>3, <1>4 DEF Owned, Write, At
  <2> QED  BY <2>1, <2>2
<1> QED  BY <1>5, <1>6, <1>7, <1>8


\* A write enters: it and those in progress crowd each other, and a key that
\* another one writes is mixed up.
LEMMA EnteredIs ==
    ASSUME BlobInv, NEW r \in Requests, At(r, "idle"), NEW ks \in SUBSET Keys,
           NEW q, HasFields(q), q.pc # "idle", Entered(r, ks, q)
    PROVE  /\ request' = [s \in Requests |-> request'[s]]
           /\ \A s \in Requests : HasFields(request'[s])
           /\ request'[r].pc = q.pc /\ request'[r].new = q.new /\ request'[r].old = q.old
           /\ request'[r].associate = q.associate /\ request'[r].dissociate = q.dissociate
           /\ request'[r].crowded <=> Active # {}
           /\ Active # {} => request'[r].stored = {}
           /\ Active = {} => request'[r].stored = q.stored
           /\ \A s \in Requests : s # r =>
                /\ request'[s].pc = request[s].pc /\ request'[s].new = request[s].new
                /\ request'[s].old = request[s].old
                /\ request'[s].associate = request[s].associate
                /\ request'[s].dissociate = request[s].dissociate
                /\ s \in Active => request'[s].crowded /\ request'[s].stored = {}
           /\ Active' = Active \union {r} /\ r \notin Active
           /\ h' \in Hists /\ h'.torn = h.torn /\ h'.used = h.used \ h.torn
           /\ h.mixed \subseteq h'.mixed
           /\ \A k \in ks : \A s \in Active : k \in DOMAIN request[s].new => k \in h'.mixed
           /\ \A p \in h'.due : p \in h.due /\ p[1] \notin h'.mixed
<1> USE DEF BlobInv
<1> DEFINE f == [s \in Requests |->
                   IF s = r THEN [q EXCEPT !.crowded = Active # {},
                                           !.stored = IF Active = {} THEN @ ELSE {}]
                   ELSE IF s \in Active THEN [request[s] EXCEPT !.crowded = TRUE, !.stored = {}]
                                        ELSE request[s]]
<1>1. request' = f
  BY DEF Entered
<1>2. \A s \in Requests : HasFields(request[s])
  BY DEF Shape
<1>3. /\ HasFields(f[r])
      /\ f[r].pc = q.pc /\ f[r].new = q.new /\ f[r].old = q.old
      /\ f[r].associate = q.associate /\ f[r].dissociate = q.dissociate
      /\ f[r].crowded = (Active # {})
      /\ Active # {} => f[r].stored = {}
      /\ Active = {} => f[r].stored = q.stored
  <2> DEFINE b == Active # {}
             st == IF Active = {} THEN q.stored ELSE {}
  <2>1. f[r] = [q EXCEPT !.crowded = b, !.stored = st]
    OBVIOUS
  <2>2. /\ Active # {} => st = {}
        /\ Active = {} => st = q.stored
    OBVIOUS
  <2> HIDE DEF st, b
  <2>3. /\ HasFields(f[r])
        /\ f[r].pc = q.pc /\ f[r].new = q.new /\ f[r].old = q.old
        /\ f[r].associate = q.associate /\ f[r].dissociate = q.dissociate
        /\ f[r].crowded = b /\ f[r].stored = st
    BY <2>1 DEF HasFields
  <2> QED  BY <2>2, <2>3 DEF b
<1>4. ASSUME NEW s \in Requests, s # r
      PROVE  /\ HasFields(f[s])
             /\ f[s].pc = request[s].pc /\ f[s].new = request[s].new /\ f[s].old = request[s].old
             /\ f[s].associate = request[s].associate /\ f[s].dissociate = request[s].dissociate
             /\ s \in Active => f[s].crowded /\ f[s].stored = {}
  <2>1. CASE s \in Active
    <3> DEFINE b == TRUE
    <3>1. f[s] = [request[s] EXCEPT !.crowded = b, !.stored = {}]
      BY <1>4, <2>1
    <3>2. b
      OBVIOUS
    <3> HIDE DEF b
    <3>3. /\ HasFields(f[s]) /\ f[s].crowded = b /\ f[s].stored = {}
          /\ f[s].pc = request[s].pc /\ f[s].new = request[s].new /\ f[s].old = request[s].old
          /\ f[s].associate = request[s].associate /\ f[s].dissociate = request[s].dissociate
      BY <1>2, <3>1 DEF HasFields
    <3> QED  BY <3>2, <3>3
  <2>2. CASE s \notin Active
    BY <1>2, <1>4, <2>2
  <2> QED  BY <2>1, <2>2
<1>5. f = [s \in Requests |-> f[s]]
  OBVIOUS
<1> HIDE DEF f
<1>6. Active' = Active \union {r} /\ r \notin Active
  BY <1>1, <1>3, <1>4 DEF Active, At
<1>7. /\ h' \in Hists /\ h'.torn = h.torn /\ h'.used = h.used \ h.torn
      /\ h'.mixed = h.mixed \union (ks \intersect UNION {DOMAIN request[s].new : s \in Active})
      /\ \A p \in h'.due : p \in h.due /\ p[1] \notin h'.mixed
  <2> DEFINE mixed == h.mixed \union (ks \intersect UNION {DOMAIN request[s].new : s \in Active})
             x == [h EXCEPT !.mixed = mixed]
  <2>1. mixed \in SUBSET Keys /\ h \in Hists
    BY DEF Shape, Hists
  <2>2. h' = Excused(x)
    BY <2>1 DEF Entered, Hists
  <2> HIDE DEF mixed
  <2>3. x \in Hists /\ x.mixed = mixed /\ x.torn = h.torn /\ x.used = h.used /\ x.due = h.due
    BY <2>1 DEF Hists
  <2> HIDE DEF x
  <2>4. /\ h' \in Hists /\ h'.torn = h.torn /\ h'.used = h.used \ h.torn /\ h'.mixed = mixed
        /\ \A p \in h'.due : p \in h.due /\ p[1] \notin h'.mixed
    BY <2>2, <2>3, ExcusedIs
  <2> QED  BY <2>4 DEF mixed
<1>8. \A k \in ks : \A s \in Active : k \in DOMAIN request[s].new => k \in h'.mixed
  BY <1>7
<1>9. h.mixed \subseteq h'.mixed
  BY <1>7
<1>10. \A s \in Requests : HasFields(f[s])
  BY <1>3, <1>4
<1> QED  BY <1>1, <1>3, <1>4, <1>5, <1>6, <1>7, <1>8, <1>9, <1>10

\* What every entering write has in common; Owned and Found of its own are the
\* caller's to show.
LEMMA EnterInv ==
    ASSUME BlobInv, NEW r \in Requests, At(r, "idle"),
           NEW q, HasFields(q), q.pc \in {"commit", "track"}, DOMAIN q.new \in SUBSET Keys,
           Entered(r, DOMAIN q.new, q), UNCHANGED <<disk, index>>,
           q.associate \subseteq Tracked(q.new), q.dissociate = {},
           records' = [k \in Keys |-> records'[k]],
           \A k \in Keys : records'[k] = records[k] \/ (k \in DOMAIN q.new /\ records[k] = Gone),
           q.pc = "commit" => \A k \in DOMAIN q.new : q.old[k] = records'[k] /\ records'[k] = records[k],
           q.pc = "track" => \A k \in DOMAIN q.new : q.new[k] = records'[k] /\ records[k] = Gone,
           q.pc = "track" => \A c \in q.stored : c \in Stored,
           q.pc = "track" => q.associate = Tracked(q.new)
    PROVE  BlobInv'
<1> DEFINE ks == DOMAIN q.new
<1>0. ks \in SUBSET Keys /\ q.pc # "idle" /\ Entered(r, ks, q)
  OBVIOUS
<1> HIDE DEF ks
<1>1. /\ request' = [s \in Requests |-> request'[s]]
      /\ \A s \in Requests : HasFields(request'[s])
      /\ request'[r].pc = q.pc /\ request'[r].new = q.new /\ request'[r].old = q.old
      /\ request'[r].associate = q.associate /\ request'[r].dissociate = q.dissociate
      /\ request'[r].crowded <=> Active # {}
      /\ Active # {} => request'[r].stored = {}
      /\ Active = {} => request'[r].stored = q.stored
      /\ \A s \in Requests : s # r =>
           /\ request'[s].pc = request[s].pc /\ request'[s].new = request[s].new
           /\ request'[s].old = request[s].old
           /\ request'[s].associate = request[s].associate
           /\ request'[s].dissociate = request[s].dissociate
           /\ s \in Active => request'[s].crowded /\ request'[s].stored = {}
      /\ Active' = Active \union {r} /\ r \notin Active
      /\ h' \in Hists /\ h'.torn = h.torn /\ h'.used = h.used \ h.torn
      /\ h.mixed \subseteq h'.mixed
      /\ \A k \in ks : \A s \in Active : k \in DOMAIN request[s].new => k \in h'.mixed
      /\ \A p \in h'.due : p \in h.due /\ p[1] \notin h'.mixed
  BY <1>0, EnteredIs
<1>2. /\ h' \in Hists /\ h'.torn = h.torn /\ h'.used = h.used \ h.torn
      /\ h.mixed \subseteq h'.mixed
      /\ \A k \in ks : \A s \in Active : k \in DOMAIN request[s].new => k \in h'.mixed
      /\ \A p \in h'.due : p \in h.due /\ p[1] \notin h'.mixed
  BY <1>1
<1> USE DEF ks, BlobInv
<1>3. Stored' = Stored
  BY DEF Stored
<1>4. Shape'
  BY <1>1, <1>2, <1>3 DEF Shape
<1>5. Agreed'
  BY <1>2, <1>3 DEF Agreed, IndexReadable, get
<1>6. Due'
  <2>1. \A p \in h.due : records'[p[1]] = records[p[1]]
    BY DEF Due, Named, Shape, Hists
  <2> QED  BY <1>2, <1>3, <2>1 DEF Due
<1>7. Used'
  BY <1>2, <1>3 DEF Used
<1>8. Justified'
  <2>1. \A c \in Stored \ h.torn : \A k \in index[c] : k \in Keys
    BY DEF Shape
  <2>2. \A s \in Active : s \in Active' /\ request'[s].new = request[s].new
    BY <1>1 DEF Active
  <2>3. r \in Active' /\ request'[r].new = q.new
    BY <1>1
  <2> QED  BY <1>2, <1>3, <2>1, <2>2, <2>3 DEF Justified
<1>9. Write(r)'
  BY <1>1 DEF Write, At
<1>10. Owned(r)'
  <2>1. ASSUME NEW k \in ks, k \notin h'.mixed
        PROVE  /\ \A s \in Active' : k \in DOMAIN request'[s].new => s = r
               /\ \A c \in Stored \ h.torn : k \in index[c] => c \in Named(records[k])
    <3>1. \A s \in Active : k \notin DOMAIN request[s].new
      BY <1>2, <2>1
    <3>2. \A s \in Active' : s # r => s \in Active /\ request'[s].new = request[s].new
      BY <1>1 DEF Active
    <3> QED  BY <1>2, <2>1, <3>1, <3>2 DEF Justified
  <2>2. CASE q.pc = "commit"
    BY <1>1, <1>2, <1>3, <2>1, <2>2 DEF Owned, At
  <2>3. CASE q.pc = "track"
    <3>1. ASSUME NEW k \in ks, k \notin h'.mixed
          PROVE  \A c \in Stored \ h.torn : k \notin index[c]
      BY <2>1, <2>3, <3>1 DEF Named
    <3> QED  BY <1>1, <1>2, <1>3, <2>1, <2>3, <3>1 DEF Owned, At
  <2> QED  BY <2>2, <2>3
<1>11. Found(r)'
  <2>1. CASE q.pc = "track"
    <3>1. \A c \in request'[r].stored : c \in Stored /\ c \in Cids
      BY <1>1, <2>1 DEF Shape
    <3>2. \A c \in Cids : \A k \in ks : c \in Named(q.new[k]) => <<k, c>> \in q.associate
      BY <2>1 DEF Tracked
    <3> QED  BY <1>1, <1>2, <1>3, <3>1, <3>2 DEF Found, At
  <2> QED  BY <1>1, <2>1 DEF Found, At
<1>12. ASSUME NEW s \in Requests, s # r
       PROVE  Write(s)' /\ Owned(s)' /\ Found(s)'
  <2>1. s \in Active <=> ~At(s, "idle")
    BY DEF Active
  <2>2. Write(s)'
    BY <1>1, <1>12, <2>1 DEF Write, At
  <2>3. Owned(s)'
    <3>1. ASSUME NEW k \in DOMAIN request[s].new, k \notin h'.mixed, s \in Active
          PROVE  /\ k \notin ks /\ records'[k] = records[k]
                 /\ \A z \in Active' : k \in DOMAIN request'[z].new => z = s
      <4>1. k \notin ks /\ k \in Keys
        BY <1>2, <2>1, <3>1 DEF Write
      <4>2. \A z \in Active : k \in DOMAIN request[z].new => z = s
        BY <1>2, <2>1, <3>1 DEF Owned
      <4>3. \A z \in Active' : z # r => z \in Active /\ request'[z].new = request[z].new
        BY <1>1 DEF Active
      <4> QED  BY <1>1, <4>1, <4>2, <4>3
    <3> QED  BY <1>1, <1>2, <1>3, <1>12, <2>1, <3>1 DEF Owned, At
  <2>4. Found(s)'
    BY <1>1, <1>12, <2>1 DEF Found, At
  <2> QED  BY <2>2, <2>3, <2>4
<1> QED  BY <1>4, <1>5, <1>6, <1>7, <1>8, <1>9, <1>10, <1>11, <1>12


\* An idle request has nothing to do.
LEMMA IdleIs == /\ HasFields(Idle) /\ Idle.pc = "idle"
                /\ Idle.associate = {} /\ Idle.dissociate = {} /\ Idle.stored = {}
<1> DEFINE b == FALSE
<1>1. Idle = [pc |-> "idle", new |-> <<>>, old |-> <<>>, associate |-> {},
              dissociate |-> {}, stored |-> {}, crowded |-> b]
  BY DEF Idle, NoPairs
<1> HIDE DEF b
<1> QED  BY <1>1 DEF HasFields

\* A write that captured what it replaces.
LEMMA CaptureInv ==
    ASSUME BlobInv, NEW r \in Requests, At(r, "idle"), NEW new, DOMAIN new \in SUBSET Keys,
           Entered(r, DOMAIN new, Captured(new)), UNCHANGED <<records, disk, index>>
    PROVE  BlobInv'
<1> DEFINE old == [k \in DOMAIN new |-> records[k]]
           q == [Idle EXCEPT !.pc = "commit", !.new = new, !.old = old]
<1>1. Captured(new) = q
  BY DEF Captured
<1>2. \A k \in DOMAIN new : old[k] = records[k]
  OBVIOUS
<1> HIDE DEF old
<1>3. HasFields(q) /\ q.pc = "commit" /\ q.new = new /\ q.old = old
        /\ q.associate = {} /\ q.dissociate = {}
  BY IdleIs DEF HasFields
<1> HIDE DEF q
<1>4. records' = [k \in Keys |-> records'[k]]
  BY DEF BlobInv, Shape
<1>5. q.associate \subseteq Tracked(q.new)
  BY <1>3
<1>6. Entered(r, DOMAIN q.new, q)
  BY <1>1, <1>3
<1> QED  BY <1>2, <1>3, <1>4, <1>5, <1>6, EnterInv

\* createRecord begins with its commit.
LEMMA CreateInv ==
    ASSUME BlobInv, NEW r \in Requests, NEW k \in Keys, NEW v \in Values,
           h_create_record(r, k, v)
    PROVE  BlobInv'
<1> DEFINE new == [j \in {k} |-> v]
           tracked == Tracked(new)
           stored == Stored \intersect v
           q == [Idle EXCEPT !.pc = "track", !.new = new, !.associate = tracked,
                             !.stored = stored]
<1>2. DOMAIN new = {k} /\ new[k] = v
  OBVIOUS
<1>3. /\ At(r, "idle") /\ records[k] = Gone /\ records' = [records EXCEPT ![k] = v]
      /\ UNCHANGED <<disk, index>> /\ Entered(r, {k}, q)
  BY DEF h_create_record
<1> HIDE DEF new, tracked, stored
<1>4. HasFields(q) /\ q.pc = "track" /\ q.new = new
        /\ q.associate = tracked /\ q.dissociate = {} /\ q.stored = stored
  BY IdleIs DEF HasFields
<1> HIDE DEF q
<1>5. /\ records' = [j \in Keys |-> records'[j]] /\ records'[k] = v
      /\ \A j \in Keys : j # k => records'[j] = records[j]
  BY <1>3 DEF BlobInv, Shape
<1>6. Entered(r, DOMAIN q.new, q) /\ DOMAIN q.new \in SUBSET Keys
  BY <1>2, <1>3, <1>4
<1>7. q.associate = Tracked(q.new) /\ \A c \in q.stored : c \in Stored
  BY <1>4 DEF tracked, stored
<1>8. \A j \in Keys : records'[j] = records[j] \/ (j \in DOMAIN q.new /\ records[j] = Gone)
  BY <1>2, <1>3, <1>4, <1>5
<1>9. \A j \in DOMAIN q.new : q.new[j] = records'[j] /\ records[j] = Gone
  BY <1>2, <1>3, <1>4, <1>5
<1> QED  BY <1>3, <1>4, <1>5, <1>6, <1>7, <1>8, <1>9, EnterInv

\* putRecord, deleteRecord and applyWrites begin.
LEMMA BeginInv ==
    ASSUME BlobInv, NEW r \in Requests,
           \/ \E k \in Keys, v \in Values : h_put_record(r, k, v)
           \/ \E k \in Keys : h_delete_record(r, k)
           \/ \E b \in Batches : h_apply_writes(r, b)
    PROVE  BlobInv'
<1>1. ASSUME NEW k \in Keys, NEW v,
             At(r, "idle"), Entered(r, {k}, Captured([j \in {k} |-> v])),
             UNCHANGED <<records, disk, index>>
      PROVE  BlobInv'
  <2> DEFINE new == [j \in {k} |-> v]
  <2>1. DOMAIN new = {k} /\ Entered(r, {k}, Captured(new))
    BY <1>1
  <2> HIDE DEF new
  <2>2. DOMAIN new \in SUBSET Keys /\ Entered(r, DOMAIN new, Captured(new))
    BY <2>1
  <2> QED  BY <1>1, <2>2, CaptureInv
<1>2. CASE \E k \in Keys, v \in Values : h_put_record(r, k, v)
  BY <1>1, <1>2 DEF h_put_record
<1>3. CASE \E k \in Keys : h_delete_record(r, k)
  BY <1>1, <1>3 DEF h_delete_record
<1>4. CASE \E b \in Batches : h_apply_writes(r, b)
  <2>1. PICK b \in Batches : h_apply_writes(r, b)
    BY <1>4
  <2>2. DOMAIN b \in SUBSET Keys
    BY DEF Batches
  <2> QED  BY <2>1, <2>2, CaptureInv DEF h_apply_writes
<1> QED  BY <1>2, <1>3, <1>4

\* The records are committed: what the record named and names no more is now on
\* its writer's list.
LEMMA CommitInv ==
    ASSUME BlobInv, NEW r \in Requests, CommitRecords(r)
    PROVE  BlobInv'
<1> USE DEF BlobInv
<1> DEFINE q == request[r]
           tracked == Tracked(q.new)
           stale == Superseded(q.new, q.old)
           found == IF q.crowded THEN {}
                    ELSE {c \in Stored : \E p \in Tracked(q.new) : p[2] = c}
<1>1. /\ q.pc = "commit" /\ ~Refused(r)
      /\ records' = [k \in Keys |-> IF k \in DOMAIN q.new THEN q.new[k] ELSE records[k]]
      /\ request' = [request EXCEPT ![r].pc = "track", ![r].associate = tracked,
                       ![r].dissociate = stale, ![r].old = <<>>, ![r].stored = found]
      /\ UNCHANGED <<disk, index>>
  BY DEF CommitRecords
<1>2. request = [s \in Requests |-> request[s]] /\ HasFields(q) /\ At(r, "commit") /\ r \in Active
  BY <1>1 DEF Shape, At, Active
<1>3. q.crowded => found = {}
  OBVIOUS
<1>4. \A c \in found : c \in Stored
  OBVIOUS
<1>5. /\ request' = [s \in Requests |-> request'[s]]
      /\ HasFields(request'[r]) /\ request'[r].pc = "track" /\ request'[r].new = q.new
      /\ request'[r].associate = tracked /\ request'[r].dissociate = stale
      /\ request'[r].stored = found /\ request'[r].crowded = q.crowded
      /\ \A s \in Requests : s # r => request'[s] = request[s]
  <2> HIDE DEF tracked, stale, found
  <2> DEFINE w == [request[r] EXCEPT !.pc = "track", !.associate = tracked,
                     !.dissociate = stale, !.old = <<>>, !.stored = found]
  <2>1. request' = [request EXCEPT ![r] = w]
    BY <1>1, <1>2
  <2>2. /\ HasFields(w) /\ w.pc = "track" /\ w.new = q.new
        /\ w.associate = tracked /\ w.dissociate = stale
        /\ w.stored = found /\ w.crowded = q.crowded
    BY <1>2 DEF HasFields
  <2> HIDE DEF w, q
  <2> QED  BY <1>2, <2>1, <2>2
<1>6. Active' = Active /\ Stored' = Stored
  BY <1>1, <1>2, <1>5 DEF Active, At, Stored
<1>7. /\ h' \in Hists /\ h'.mixed = h.mixed /\ h'.torn = h.torn
      /\ h'.used = h.used \ h.torn
      /\ \A p \in h'.due : /\ p \in h.due /\ p[2] \in Named(records'[p[1]])
  <2> DEFINE due == {p \in h.due : p[2] \in Named(records'[p[1]])}
             x == [h EXCEPT !.due = due]
  <2>1. due \in SUBSET (Keys \X Cids) /\ h \in Hists
    BY DEF Shape, Hists
  <2>2. h' = Excused(x)
    BY <2>1 DEF CommitRecords, Hists
  <2> HIDE DEF due
  <2>3. x \in Hists /\ x.mixed = h.mixed /\ x.torn = h.torn /\ x.used = h.used /\ x.due = due
    BY <2>1 DEF Hists
  <2> HIDE DEF x
  <2> QED  BY <2>2, <2>3, ExcusedIs DEF due
<1>8. /\ records' = [k \in Keys |-> records'[k]]
      /\ \A k \in Keys : /\ k \in DOMAIN q.new => records'[k] = q.new[k]
                         /\ k \notin DOMAIN q.new => records'[k] = records[k]
  BY <1>1
<1>9. DOMAIN q.new \subseteq Keys
  BY <1>2 DEF Write, Active
<1> HIDE DEF q, tracked, stale, found
<1>0. index' = index /\ disk' = disk /\ (request'[r].crowded <=> q.crowded)
  BY <1>1, <1>5
<1>10. Shape'
  BY <1>1, <1>5, <1>6, <1>7, <1>8 DEF Shape
<1>11. Agreed' /\ Due' /\ Used'
  BY <1>1, <1>6, <1>7 DEF Agreed, IndexReadable, get, Due, Used
<1>12. Justified'
  <2>1. \A s \in Active : request'[s].new = request[s].new
    BY <1>5 DEF q, Active
  <2>2. ASSUME NEW c \in Stored \ h.torn, NEW k \in index[c]
        PROVE  \/ k \in h.mixed
               \/ \E s \in Active : k \in DOMAIN request'[s].new
               \/ c \in Named(records'[k])
    <3>1. k \in Keys
      BY <2>2 DEF Shape
    <3>2. CASE k \in DOMAIN q.new
      BY <1>2, <1>5, <3>2
    <3>3. CASE k \notin DOMAIN q.new
      <4>1. records'[k] = records[k]
        BY <1>8, <3>1, <3>3
      <4> QED  BY <2>1, <2>2, <4>1 DEF Justified
    <3> QED  BY <3>2, <3>3
  <2> QED  BY <1>0, <1>6, <1>7, <2>2 DEF Justified
<1>13. Write(r)'
  <2>1. \A p \in stale : p \in (DOMAIN q.new) \X Cids /\ p[2] \notin Named(q.new[p[1]])
    BY DEF Superseded, stale
  <2>2. ~q.crowded => Active = {r}
    BY <1>2 DEF Write, q, At
  <2>3. /\ request'[r].crowded => request'[r].stored = {}
        /\ ~request'[r].crowded => Active' = {r}
    BY <1>0, <1>3, <1>5, <1>6, <2>2
  <2>4. /\ request'[r].associate \subseteq Tracked(request'[r].new)
        /\ request'[r].pc \in {"commit", "track"}
        /\ DOMAIN request'[r].new \subseteq Keys
    BY <1>5, <1>9 DEF tracked
  <2>5. \A p \in request'[r].dissociate : /\ p \in (DOMAIN request'[r].new) \X Cids
                                           /\ p[2] \notin Named(request'[r].new[p[1]])
    BY <1>5, <2>1
  <2> QED  BY <2>3, <2>4, <2>5 DEF Write
<1>14. Owned(r)'
  <2>0. At(r, "track")' /\ ~At(r, "commit")'
    BY <1>5 DEF At
  <2> SUFFICES ASSUME NEW k \in DOMAIN q.new, k \notin h.mixed
               PROVE  /\ \A s \in Active : k \in DOMAIN request'[s].new => s = r
                      /\ q.new[k] = records'[k]
                      /\ \A c \in Stored \ h.torn : k \in index[c] =>
                           c \in Named(records'[k]) \/ <<k, c>> \in stale
    BY <1>0, <1>5, <1>6, <1>7, <2>0 DEF Owned
  <2>1. /\ \A s \in Active : k \in DOMAIN request[s].new => s = r
        /\ q.old[k] = records[k]
        /\ \A c \in Stored \ h.torn : k \in index[c] => c \in Named(records[k])
    BY <1>2 DEF Owned, q, At
  <2>2. \A s \in Active : request'[s].new = request[s].new
    BY <1>5 DEF q, Active
  <2>3. \A c \in Cids : c \in Named(q.old[k]) => c \in Named(q.new[k]) \/ <<k, c>> \in stale
    BY DEF Superseded, stale
  <2> QED  BY <1>8, <1>9, <2>1, <2>2, <2>3 DEF Shape
<1>15. Found(r)'
  <2>1. \A c \in Cids : \A k \in DOMAIN q.new : c \in Named(q.new[k]) => <<k, c>> \in tracked
    BY DEF Tracked, tracked
  <2> QED  BY <1>1, <1>4, <1>5, <1>6, <2>1 DEF Found, At, Shape
<1>16. ASSUME NEW s \in Requests, s # r
       PROVE  Write(s)' /\ Owned(s)' /\ Found(s)'
  <2>0. request'[s] = request[s]
    BY <1>5, <1>16
  <2>1. Write(s)' /\ Found(s)'
    <3>1. Write(s)'
      BY <1>6, <2>0 DEF Write, At
    <3>2. Found(s)'
      BY <1>1, <1>6, <1>7, <2>0 DEF Found, At
    <3> QED  BY <3>1, <3>2
  <2>2. Owned(s)'
    <3>1. \A z \in Active : request'[z].new = request[z].new
      BY <1>5 DEF q, Active
    <3>2. ASSUME NEW k \in DOMAIN request[s].new, k \notin h.mixed, ~At(s, "idle")
          PROVE  records'[k] = records[k]
      <4>1. k \in Keys /\ k \notin DOMAIN q.new
        BY <1>2, <1>16, <3>2 DEF Write, Owned, q
      <4> QED  BY <1>8, <4>1
    <3> QED  BY <1>0, <1>6, <1>7, <2>0, <3>1, <3>2 DEF Owned, At
  <2> QED  BY <2>1, <2>2
<1> QED  BY <1>10, <1>11, <1>12, <1>13, <1>14, <1>15, <1>16


\* A write ends: its keys have no association left over.
LEMMA FinishInv ==
    ASSUME BlobInv, NEW r \in Requests, request' = [request EXCEPT ![r] = Idle],
           At(r, "commit") \/ (At(r, "track") /\ request[r].dissociate = {}),
           UNCHANGED <<records, disk, index>>,
           h' \in Hists, h'.mixed = h.mixed, h'.torn = h.torn, h'.used \subseteq h.used, Due'
    PROVE  BlobInv'
<1> USE DEF BlobInv
<1>1. /\ request' = [s \in Requests |-> request'[s]] /\ request'[r] = Idle
      /\ \A s \in Requests : s # r => request'[s] = request[s]
  BY DEF Shape
<1>2. Active' = Active \ {r} /\ Stored' = Stored /\ r \in Active
  BY <1>1, IdleIs DEF Active, At, Stored
<1>3. Shape'
  BY <1>1, <1>2, IdleIs DEF Shape
<1>4. Agreed' /\ Used'
  BY <1>2 DEF Agreed, IndexReadable, get, Used
<1>5. Justified'
  <2>1. ASSUME NEW c \in Stored \ h.torn, NEW k \in index[c]
        PROVE  \/ k \in h.mixed
               \/ \E s \in Active' : k \in DOMAIN request'[s].new
               \/ c \in Named(records[k])
    <3>1. CASE k \in DOMAIN request[r].new /\ k \notin h.mixed
      BY <1>2, <2>1, <3>1 DEF Owned, Active, At
    <3>2. CASE k \notin DOMAIN request[r].new
      <4>1. ASSUME NEW s \in Active, k \in DOMAIN request[s].new
            PROVE  \E z \in Active' : k \in DOMAIN request'[z].new
        BY <1>1, <1>2, <3>2, <4>1 DEF Active
      <4> QED  BY <2>1, <4>1 DEF Justified
    <3> QED  BY <3>1, <3>2
  <2> QED  BY <1>2, <2>1 DEF Justified
<1>6. Write(r)' /\ Owned(r)' /\ Found(r)'
  <2>1. At(r, "idle")' /\ ~At(r, "track")'
    BY <1>1, IdleIs DEF At
  <2> QED  BY <2>1 DEF Write, Owned, Found
<1>7. ASSUME NEW s \in Requests, s # r
      PROVE  Write(s)' /\ Owned(s)' /\ Found(s)'
  <2>1. request'[s] = request[s]
    BY <1>1, <1>7
  <2>2. Active # {s}
    BY <1>2, <1>7
  <2>3. Write(s)'
    BY <2>1, <2>2 DEF Write, At
  <2>4. \A z \in Active' : z \in Active /\ request'[z] = request[z]
    BY <1>1, <1>2 DEF Active
  <2>5. Owned(s)'
    BY <1>2, <2>1, <2>4 DEF Owned, At
  <2>6. Found(s)'
    BY <1>2, <2>1 DEF Found, At
  <2> QED  BY <2>3, <2>5, <2>6
<1> QED  BY <1>3, <1>4, <1>5, <1>6, <1>7

\* The store refuses the write: nothing was changed.
LEMMA RefuseInv ==
    ASSUME BlobInv, NEW r \in Requests, RefuseRecords(r)
    PROVE  BlobInv'
<1>1. Stored' = Stored /\ UNCHANGED <<records, disk, index, h>>
  BY DEF RefuseRecords, Stored
<1>2. Due' /\ h' \in Hists
  BY <1>1 DEF BlobInv, Due, Shape
<1> QED  BY <1>1, <1>2, FinishInv DEF RefuseRecords

\* The answer: what was found when the records were committed is associated.
LEMMA AnswerInv ==
    ASSUME BlobInv, NEW r \in Requests, Answer(r)
    PROVE  BlobInv'
<1> USE DEF BlobInv
<1> DEFINE q == request[r]
           answered == {p \in Tracked(q.new) : p[2] \in q.stored /\ p[2] \in Named(records[p[1]])}
           due == h.due \union answered
           x == [h EXCEPT !.due = due]
<1>1. /\ At(r, "track") /\ q.associate = {} /\ q.dissociate = {}
      /\ request' = [request EXCEPT ![r] = Idle] /\ UNCHANGED <<records, disk, index>>
  BY DEF Answer
<1>2. DOMAIN q.new \subseteq Keys
  BY <1>1 DEF Write, At
<1>3. answered \in SUBSET (Keys \X Cids)
  BY <1>2 DEF Tracked
<1>4. h' = Excused(x)
  BY DEF Answer, Shape, Hists
<1>5. \A p \in answered : p[1] \notin h.mixed /\ p[2] \notin h.torn =>
          p[2] \in Named(records[p[1]]) /\ p[2] \in Stored /\ p[1] \in index[p[2]]
  <2> SUFFICES ASSUME NEW p \in answered, p[2] \notin h.torn
               PROVE  p[2] \in Stored /\ p[1] \in index[p[2]]
    OBVIOUS
  <2>1. p \in (DOMAIN q.new) \X Cids /\ p[2] \in Named(q.new[p[1]]) /\ p[2] \in q.stored
    BY DEF Tracked
  <2> QED  BY <1>1, <2>1 DEF Found
<1> HIDE DEF answered, q
<1>6. due \in SUBSET (Keys \X Cids) /\ h \in Hists
  BY <1>3 DEF Shape, Hists
<1> HIDE DEF due
<1>7. x \in Hists /\ x.mixed = h.mixed /\ x.torn = h.torn /\ x.used = h.used /\ x.due = due
  BY <1>6 DEF Hists
<1> HIDE DEF x
<1>8. /\ h' \in Hists /\ h'.mixed = h.mixed /\ h'.torn = h.torn /\ h'.used \subseteq h.used
      /\ \A p \in h'.due : p \in due /\ p[1] \notin h.mixed /\ p[2] \notin h.torn
  BY <1>4, <1>7, ExcusedIs
<1>9. Stored' = Stored
  BY <1>1 DEF Stored
<1>10. Due'
  BY <1>1, <1>5, <1>8, <1>9 DEF Due, due
<1> QED  BY <1>1, <1>8, <1>10, FinishInv DEF q

\* The step of a writer through its own lists leaves its other fields and the
\* other requests alone.
LEMMA ListsAre ==
    ASSUME Shape, NEW r \in Requests, At(r, "track"), NEW w, HasFields(w),
           w.pc = request[r].pc, w.new = request[r].new, w.old = request[r].old,
           w.stored = request[r].stored, w.crowded = request[r].crowded,
           request' = [request EXCEPT ![r] = w]
    PROVE  /\ request' = [s \in Requests |-> request'[s]]
           /\ \A s \in Requests : HasFields(request'[s])
           /\ \A s \in Requests :
                /\ request'[s].pc = request[s].pc /\ request'[s].new = request[s].new
                /\ request'[s].old = request[s].old /\ request'[s].stored = request[s].stored
                /\ request'[s].crowded = request[s].crowded
           /\ \A s \in Requests : s # r =>
                /\ request'[s].associate = request[s].associate
                /\ request'[s].dissociate = request[s].dissociate
           /\ request'[r].associate = w.associate /\ request'[r].dissociate = w.dissociate
           /\ Active' = Active /\ r \in Active
<1>1. request = [s \in Requests |-> request[s]] /\ \A s \in Requests : HasFields(request[s])
  BY DEF Shape
<1>2. r \in Active
  BY DEF Active, At
<1>3. request'[r] = w /\ \A s \in Requests : s # r => request'[s] = request[s]
  BY <1>1
<1>4. request' = [s \in Requests |-> request'[s]]
  BY <1>1
<1>5. Active' = Active
  BY <1>3 DEF Active, At
<1> QED  BY <1>1, <1>2, <1>3, <1>4, <1>5

\* One association off the writer's list.
LEMMA AssociatesLess ==
    ASSUME Shape, NEW r \in Requests, NEW a, NEW w, w = [request[r] EXCEPT !.associate = a]
    PROVE  /\ [request EXCEPT ![r].associate = a] = [request EXCEPT ![r] = w]
           /\ HasFields(w) /\ w.pc = request[r].pc /\ w.new = request[r].new
           /\ w.old = request[r].old /\ w.stored = request[r].stored
           /\ w.crowded = request[r].crowded /\ w.associate = a
           /\ w.dissociate = request[r].dissociate
BY DEF Shape, HasFields

\* One dissociation off the writer's list.
LEMMA DissociatesLess ==
    ASSUME Shape, NEW r \in Requests, NEW a, NEW w, w = [request[r] EXCEPT !.dissociate = a]
    PROVE  /\ [request EXCEPT ![r].dissociate = a] = [request EXCEPT ![r] = w]
           /\ HasFields(w) /\ w.pc = request[r].pc /\ w.new = request[r].new
           /\ w.old = request[r].old /\ w.stored = request[r].stored
           /\ w.crowded = request[r].crowded /\ w.dissociate = a
           /\ w.associate = request[r].associate
BY DEF Shape, HasFields

\* What an association may change, and nothing else: the blob's, and what is due.
LEMMA AssociateInv ==
    ASSUME BlobInv, NEW r \in Requests, AssociateOne(r)
    PROVE  BlobInv'
<1> USE DEF BlobInv
<1>1. PICK p \in request[r].associate :
          /\ At(r, "track") /\ associate(p[2], p[1])
          /\ request' = [request EXCEPT ![r].associate = request[r].associate \ {p}]
          /\ UNCHANGED records
  BY DEF AssociateOne, Shape
<1> DEFINE k == p[1]
           c == p[2]
<1>2. /\ p = <<k, c>> /\ k \in DOMAIN request[r].new /\ k \in Keys /\ c \in Cids
      /\ c \in Named(request[r].new[k])
  BY <1>1 DEF Write, At, Tracked
<1> HIDE DEF k, c
<1> DEFINE left == request[r].associate \ {p}
           w == [request[r] EXCEPT !.associate = left]
<1> HIDE DEF left
<1>0. w = [request[r] EXCEPT !.associate = left]
  OBVIOUS
<1> HIDE DEF w
<1>3. /\ request' = [request EXCEPT ![r] = w]
      /\ HasFields(w) /\ w.pc = request[r].pc /\ w.new = request[r].new
      /\ w.old = request[r].old /\ w.stored = request[r].stored
      /\ w.crowded = request[r].crowded /\ w.associate = left
      /\ w.dissociate = request[r].dissociate
  BY <1>0, <1>1, AssociatesLess DEF left
<1>4. /\ request' = [s \in Requests |-> request'[s]]
      /\ \A s \in Requests : HasFields(request'[s])
      /\ \A s \in Requests :
           /\ request'[s].pc = request[s].pc /\ request'[s].new = request[s].new
           /\ request'[s].old = request[s].old /\ request'[s].stored = request[s].stored
           /\ request'[s].crowded = request[s].crowded
           /\ request'[s].dissociate = request[s].dissociate
      /\ \A s \in Requests : s # r => request'[s].associate = request[s].associate
      /\ request'[r].associate = request[r].associate \ {p}
      /\ Active' = Active /\ r \in Active
  <2>1. /\ request' = [s \in Requests |-> request'[s]]
        /\ \A s \in Requests : HasFields(request'[s])
        /\ \A s \in Requests :
             /\ request'[s].pc = request[s].pc /\ request'[s].new = request[s].new
             /\ request'[s].old = request[s].old /\ request'[s].stored = request[s].stored
             /\ request'[s].crowded = request[s].crowded
        /\ \A s \in Requests : s # r =>
             /\ request'[s].associate = request[s].associate
             /\ request'[s].dissociate = request[s].dissociate
        /\ request'[r].associate = w.associate /\ request'[r].dissociate = w.dissociate
        /\ Active' = Active /\ r \in Active
    BY <1>1, <1>3, ListsAre
  <2> QED  BY <1>3, <2>1 DEF left
<1>5. \A s \in Requests : \A pc : At(s, pc)' <=> At(s, pc)
  BY <1>4 DEF At
<1>6. \A s \in Requests : Write(s)'
  <2> SUFFICES ASSUME NEW s \in Requests PROVE Write(s)'
    OBVIOUS
  <2>1. request'[s].associate \subseteq request[s].associate
    BY <1>4
  <2>2. request'[s].crowded <=> request[s].crowded
    BY <1>4
  <2> QED  BY <1>4, <1>5, <2>1, <2>2 DEF Write
<1>7. CASE c \notin Stored
  <2>1. UNCHANGED <<index, disk, h>> /\ Stored' = Stored
    BY <1>1, <1>7 DEF associate, c, Stored
  <2>2. Shape'
    BY <1>1, <1>4, <2>1 DEF Shape
  <2>3. Agreed' /\ Due' /\ Used'
    BY <1>1, <2>1 DEF Agreed, IndexReadable, get, Due, Used
  <2>4. Justified'
    BY <1>1, <1>4, <2>1 DEF Justified, Active
  <2>5. ASSUME NEW s \in Requests PROVE Owned(s)'
    <3>1. \A z \in Active : request'[z].new = request[z].new
      BY <1>4 DEF Active
    <3> QED  BY <1>1, <1>4, <1>5, <2>1, <3>1 DEF Owned
  <2>6. ASSUME NEW s \in Requests PROVE Found(s)'
    BY <1>2, <1>4, <1>5, <1>7, <2>1 DEF Found
  <2> QED  BY <1>6, <2>2, <2>3, <2>4, <2>5, <2>6
<1>8. CASE c \in Stored
  <2> DEFINE more == index[c] \union {k}
             due == IF c \in Named(records[k]) THEN h.due \union {<<k, c>>} ELSE h.due
             used == h.used \union {c}
             x == [h EXCEPT !.used = used, !.due = due]
  <2>1. index' = [index EXCEPT ![c] = more] /\ disk' = Persisted(disk, c, index'[c])
    BY <1>1, <1>8 DEF associate, k, c
  <2>2. h' = Excused(x)
    BY <1>1, <1>8 DEF associate, k, c, Shape, Hists
  <2>3. more \in SUBSET Keys
    BY <1>2, <1>8 DEF Shape
  <2>4. due \in SUBSET (Keys \X Cids) /\ used \in SUBSET Cids /\ h \in Hists
    BY <1>2 DEF Shape, Hists
  <2>5. \A e \in due : e \in h.due \/ (e = <<k, c>> /\ c \in Named(records[k]))
    OBVIOUS
  <2> HIDE DEF due, used
  <2>6. x \in Hists /\ x.mixed = h.mixed /\ x.torn = h.torn /\ x.used = used /\ x.due = due
    BY <2>4 DEF Hists
  <2> HIDE DEF x
  <2>7. /\ h' \in Hists /\ h'.mixed = h.mixed /\ h'.torn = h.torn
        /\ h'.used = used \ h.torn
        /\ \A e \in h'.due : e \in due /\ e[1] \notin h.mixed /\ e[2] \notin h.torn
    BY <2>2, <2>6, ExcusedIs
  <2>8. /\ Stored' = Stored /\ index' \in [Stored -> SUBSET Keys] /\ index'[c] = more
        /\ \A b \in Stored : b # c => index'[b] = index[b]
    BY <1>8, <2>1, <2>3 DEF Shape, Stored
  <2>9. /\ disk' \in Disks /\ disk'.data = disk.data /\ disk'.mime = disk.mime
        /\ disk'.refs[c] = more /\ \A b \in Cids : b # c => disk'.refs[b] = disk.refs[b]
    BY <1>2, <2>1, <2>3, <2>8, PersistedIs DEF Shape
  <2>10. Shape'
    BY <1>1, <1>4, <2>7, <2>8, <2>9 DEF Shape
  <2>11. Agreed'
    BY <1>8, <2>7, <2>8, <2>9 DEF Agreed, IndexReadable, get
  <2>12. Due'
    BY <1>1, <1>8, <2>5, <2>7, <2>8 DEF Due
  <2>13. Used'
    BY <1>8, <2>7, <2>8 DEF Used, used
  <2>14. Justified'
    <3>1. \A z \in Active : request'[z].new = request[z].new
      BY <1>4 DEF Active
    <3> QED  BY <1>1, <1>2, <1>4, <2>7, <2>8, <3>1 DEF Justified
  <2>15. ASSUME NEW s \in Requests PROVE Owned(s)'
    <3>1. \A z \in Active : request'[z].new = request[z].new
      BY <1>4 DEF Active
    <3>2. ASSUME k \in DOMAIN request[s].new, k \notin h.mixed, ~At(s, "idle")
          PROVE  s = r /\ c \in Named(records[k])
      BY <1>1, <1>2, <1>4, <3>2 DEF Owned, Active, At
    <3>3. ~At(r, "commit")
      BY <1>1 DEF At
    <3> QED  BY <1>1, <1>4, <1>5, <2>7, <2>8, <3>1, <3>2, <3>3 DEF Owned
  <2>16. ASSUME NEW s \in Requests PROVE Found(s)'
    <3>1. \A b \in Stored : index[b] \subseteq index'[b]
      BY <2>8
    <3>2. k \in index'[c]
      BY <2>8
    <3> QED  BY <1>2, <1>4, <1>5, <1>8, <2>7, <2>8, <3>1, <3>2 DEF Found
  <2> QED  BY <1>6, <2>10, <2>11, <2>12, <2>13, <2>14, <2>15, <2>16
<1> QED  BY <1>7, <1>8

\* The steps of the second phase: they take at most the association <<k, c>> away.
Dissociated(r, k, c) ==
    /\ At(r, "track") /\ request[r].associate = {} /\ <<k, c>> \in request[r].dissociate
    /\ request' = [request EXCEPT ![r].dissociate = request[r].dissociate \ {<<k, c>>}]
    /\ UNCHANGED records
    /\ disk' \in Disks /\ h' \in Hists
    /\ h'.mixed = h.mixed /\ h.torn \subseteq h'.torn
    /\ \A e \in h'.due : e \in h.due /\ e[2] \notin h'.torn
    /\ Stored' \subseteq Stored /\ index' \in [Stored' -> SUBSET Keys]
    /\ \A b \in Stored' : index'[b] \subseteq index[b]
    /\ c \in Stored' => k \notin index'[c]
    /\ \A b \in Stored \ h'.torn : \A j \in index[b] :
         <<j, b>> # <<k, c>> => b \in Stored' /\ j \in index'[b]

\* The association they take away is one that no record needs.
LEMMA DissociatedInv ==
    ASSUME BlobInv, NEW r \in Requests, NEW k, NEW c, Dissociated(r, k, c), Agreed', Used'
    PROVE  BlobInv'
<1> DEFINE left == request[r].dissociate \ {<<k, c>>}
           w == [request[r] EXCEPT !.dissociate = left]
<1>0. /\ Shape /\ At(r, "track")
      /\ request' = [request EXCEPT ![r].dissociate = left]
  BY DEF BlobInv, Dissociated
<1> HIDE DEF left
<1>1. w = [request[r] EXCEPT !.dissociate = left]
  OBVIOUS
<1> HIDE DEF w
<1>2. /\ request' = [request EXCEPT ![r] = w]
      /\ HasFields(w) /\ w.pc = request[r].pc /\ w.new = request[r].new
      /\ w.old = request[r].old /\ w.stored = request[r].stored
      /\ w.crowded = request[r].crowded /\ w.dissociate = left
      /\ w.associate = request[r].associate
  BY <1>0, <1>1, DissociatesLess
<1>3. /\ request' = [s \in Requests |-> request'[s]]
      /\ \A s \in Requests : HasFields(request'[s])
      /\ \A s \in Requests :
           /\ request'[s].pc = request[s].pc /\ request'[s].new = request[s].new
           /\ request'[s].old = request[s].old /\ request'[s].stored = request[s].stored
           /\ request'[s].crowded = request[s].crowded
      /\ \A s \in Requests : s # r =>
           /\ request'[s].associate = request[s].associate
           /\ request'[s].dissociate = request[s].dissociate
      /\ request'[r].associate = w.associate /\ request'[r].dissociate = w.dissociate
      /\ Active' = Active /\ r \in Active
  BY <1>0, <1>2, ListsAre
<1>4. /\ \A s \in Requests : request'[s].associate = request[s].associate
      /\ request'[r].dissociate = left
  BY <1>2, <1>3
<1> USE DEF BlobInv, Dissociated, left
<1>5. /\ k \in DOMAIN request[r].new /\ k \in Keys /\ c \in Cids
      /\ c \notin Named(request[r].new[k])
  <2>1. <<k, c>> \in (DOMAIN request[r].new) \X Cids
          /\ <<k, c>>[2] \notin Named(request[r].new[<<k, c>>[1]])
          /\ DOMAIN request[r].new \subseteq Keys
    BY DEF Write, At
  <2> QED  BY <2>1
<1>6. \A s \in Requests : \A pc : At(s, pc)' <=> At(s, pc)
  BY <1>3, <1>4 DEF At
<1>7. Shape'
  BY <1>3, <1>4 DEF Shape
<1>8. Due'
  <2> SUFFICES ASSUME NEW e \in h'.due
               PROVE  /\ e[1] \notin h'.mixed /\ e[2] \notin h'.torn
                      /\ e[2] \in Named(records[e[1]])
                      /\ e[2] \in Stored' /\ e[1] \in index'[e[2]]
    BY DEF Due
  <2>1. /\ e[1] \notin h.mixed /\ e[2] \notin h'.torn /\ e[2] \in Named(records[e[1]])
        /\ e[2] \in Stored /\ e[1] \in index[e[2]]
    BY DEF Due
  <2>2. <<e[1], e[2]>> # <<k, c>>
    <3>1. ASSUME e[1] = k, e[2] = c PROVE FALSE
      <4>1. request[r].new[k] = records[k]
        BY <1>3, <1>4, <1>5, <2>1, <3>1 DEF Owned, At
      <4> QED  BY <1>5, <2>1, <3>1, <4>1
    <3> QED  BY <3>1
  <2> QED  BY <2>1, <2>2
<1>9. Justified'
  <2>1. \A z \in Active : request'[z].new = request[z].new
    BY <1>3, <1>4 DEF Active
  <2>2. \A b \in Stored' \ h'.torn : b \in Stored \ h.torn /\ index'[b] \subseteq index[b]
    OBVIOUS
  <2> QED  BY <1>3, <1>4, <2>1, <2>2 DEF Justified
<1>10. ASSUME NEW s \in Requests
      PROVE  Write(s)' /\ Owned(s)' /\ Found(s)'
  <2>1. request'[s].dissociate \subseteq request[s].dissociate
    BY <1>3, <1>4
  <2>2. request'[s].crowded <=> request[s].crowded
    BY <1>3, <1>4
  <2>3. Write(s)'
    BY <1>3, <1>4, <1>6, <2>1, <2>2 DEF Write
  <2>4. Owned(s)'
    <3>1. \A z \in Active : request'[z].new = request[z].new
      BY <1>3, <1>4 DEF Active
    <3>2. \A b \in Stored' \ h'.torn : \A j \in index'[b] :
             /\ b \in Stored \ h.torn /\ j \in index[b] /\ <<j, b>> # <<k, c>>
      OBVIOUS
    <3>3. \A j, b : <<j, b>> \in request[s].dissociate /\ <<j, b>> # <<k, c>>
                      => <<j, b>> \in request'[s].dissociate
      BY <1>3, <1>4
    <3> QED  BY <1>3, <1>4, <1>6, <3>1, <3>2, <3>3 DEF Owned
  <2>5. Found(s)'
    <3>1. CASE s = r
      <4>1. \A b \in request[r].stored \ h'.torn : \A j \in DOMAIN request[r].new :
              b \in Named(request[r].new[j]) =>
                 b \in Stored /\ j \in index[b] /\ <<j, b>> # <<k, c>>
        BY <1>5, <3>1 DEF Found
      <4> QED  BY <1>3, <1>4, <3>1, <4>1 DEF Found
    <3>2. CASE s # r /\ At(s, "track")
      <4>1. s \in Active
        BY <3>2 DEF Active, At
      <4>2. request[s].stored = {}
        BY <1>3, <1>4, <3>2, <4>1, Alone
      <4> QED  BY <1>3, <1>4, <4>2 DEF Found
    <3>3. CASE ~At(s, "track")
      BY <1>6, <3>3 DEF Found
    <3> QED  BY <3>1, <3>2, <3>3
  <2> QED  BY <2>3, <2>4, <2>5
<1> QED  BY <1>7, <1>8, <1>9, <1>10

\* One that the code makes: of an association among others, of the blob's last,
\* which deletes it, or of one that is not there.
LEMMA DissociateInv ==
    ASSUME BlobInv, NEW r \in Requests, DissociateOne(r)
    PROVE  BlobInv'
<1>1. PICK p \in request[r].dissociate :
          /\ At(r, "track") /\ request[r].associate = {} /\ dissociate(p[2], p[1])
          /\ request' = [request EXCEPT ![r].dissociate = request[r].dissociate \ {p}]
          /\ UNCHANGED records
  BY DEF DissociateOne, BlobInv, Shape
<1> DEFINE k == p[1]
           c == p[2]
<1>2. p = <<k, c>> /\ k \in Keys /\ c \in Cids
  BY <1>1 DEF BlobInv, Write, At
<1>3. dissociate(c, k)
  BY <1>1
<1> HIDE DEF k, c
<1>0. /\ At(r, "track") /\ request[r].associate = {} /\ <<k, c>> \in request[r].dissociate
      /\ request' = [request EXCEPT ![r].dissociate = request[r].dissociate \ {<<k, c>>}]
      /\ UNCHANGED records
  BY <1>1, <1>2
<1>4. Shape /\ Agreed /\ Due /\ Used
  BY DEF BlobInv
<1>5. CASE ~(c \in Stored /\ k \in index[c])
  <2>1. UNCHANGED <<index, disk, h>>
    BY <1>3, <1>5 DEF dissociate
  <2>2. Stored' = Stored /\ disk' \in Disks /\ h' \in Hists /\ index' \in [Stored' -> SUBSET Keys]
    BY <1>4, <2>1 DEF Shape, Stored
  <2>3. Agreed' /\ Used'
    BY <1>4, <2>1 DEF Agreed, IndexReadable, get, Used, Stored
  <2>4. \A e \in h'.due : e \in h.due /\ e[2] \notin h'.torn
    BY <1>4, <2>1 DEF Due
  <2>5. Dissociated(r, k, c)
    BY <1>0, <1>5, <2>1, <2>2, <2>4 DEF Dissociated
  <2> QED  BY <2>3, <2>5, DissociatedInv
<1>6. CASE c \in Stored /\ k \in index[c] /\ index[c] = {k}
  <2> DEFINE used == h.used \ {c}
             x == [h EXCEPT !.used = used]
  <2>1. index' = Without(c) /\ disk' = Deleted(disk, c)
    BY <1>3, <1>6 DEF dissociate
  <2>2. h' = Excused(x)
    BY <1>3, <1>4, <1>6 DEF dissociate, Shape, Hists
  <2>3. used \in SUBSET Cids /\ h \in Hists
    BY <1>4 DEF Shape, Hists
  <2> HIDE DEF used
  <2>4. x \in Hists /\ x.mixed = h.mixed /\ x.torn = h.torn /\ x.used = used /\ x.due = h.due
    BY <2>3 DEF Hists
  <2> HIDE DEF x
  <2>5. /\ h' \in Hists /\ h'.mixed = h.mixed /\ h'.torn = h.torn
        /\ h'.used = used \ h.torn
        /\ \A e \in h'.due : e \in h.due /\ e[2] \notin h'.torn
    BY <2>2, <2>4, ExcusedIs
  <2>6. /\ Stored' = Stored \ {c} /\ index' \in [Stored' -> SUBSET Keys]
        /\ \A b \in Stored' : index'[b] = index[b]
    BY <1>4, <2>1 DEF Without, Shape, Stored
  <2>7. /\ disk' \in Disks /\ disk'.data = disk.data \ {c} /\ disk'.mime = disk.mime \ {c}
        /\ disk'.refs[c] = {} /\ \A b \in Cids : b # c => disk'.refs[b] = disk.refs[b]
    <3>1. /\ BothAway(disk, c) \in Disks /\ BothAway(disk, c).data = disk.data \ {c}
          /\ BothAway(disk, c).mime = disk.mime \ {c} /\ BothAway(disk, c).refs = disk.refs
      BY <1>2, <1>4, FilesAre DEF Shape
    <3> HIDE DEF BothAway
    <3> QED  BY <1>2, <2>1, <3>1, PersistedIs DEF Deleted
  <2>8. Agreed'
    BY <1>4, <2>5, <2>6, <2>7 DEF Agreed, IndexReadable, get
  <2>9. Used'
    BY <1>4, <2>5, <2>6 DEF Used, used
  <2>10. \A b \in Stored \ h'.torn : \A j \in index[b] :
            <<j, b>> # <<k, c>> => b \in Stored' /\ j \in index'[b]
    BY <1>6, <2>6
  <2>11. Stored' \subseteq Stored /\ c \notin Stored' /\ h.torn \subseteq h'.torn
            /\ \A b \in Stored' : index'[b] \subseteq index[b]
    BY <2>5, <2>6
  <2>12. Dissociated(r, k, c)
    BY <1>0, <2>5, <2>6, <2>7, <2>10, <2>11 DEF Dissociated
  <2> QED  BY <2>8, <2>9, <2>12, DissociatedInv
<1>7. CASE c \in Stored /\ k \in index[c] /\ index[c] # {k}
  <2> DEFINE fewer == index[c] \ {k}
  <2>1. index' = [index EXCEPT ![c] = fewer] /\ disk' = Persisted(disk, c, index'[c])
          /\ UNCHANGED h
    BY <1>3, <1>7 DEF dissociate
  <2>2. fewer \in SUBSET Keys /\ fewer # {} /\ k \notin fewer /\ fewer \subseteq index[c]
    BY <1>4, <1>7 DEF Shape
  <2>3. /\ Stored' = Stored /\ index' \in [Stored -> SUBSET Keys] /\ index'[c] = fewer
        /\ \A b \in Stored : b # c => index'[b] = index[b]
    BY <1>4, <1>7, <2>1, <2>2 DEF Shape, Stored
  <2>4. \A j \in index[c] : j # k => j \in fewer
    OBVIOUS
  <2> HIDE DEF fewer
  <2>5. /\ disk' \in Disks /\ disk'.data = disk.data /\ disk'.mime = disk.mime
        /\ disk'.refs[c] = fewer /\ \A b \in Cids : b # c => disk'.refs[b] = disk.refs[b]
    BY <1>2, <1>4, <2>1, <2>2, <2>3, PersistedIs DEF Shape
  <2>6. Agreed'
    BY <1>4, <1>7, <2>1, <2>3, <2>5 DEF Agreed, IndexReadable, get
  <2>7. Used'
    BY <1>4, <2>1, <2>2, <2>3 DEF Used
  <2>8. \A e \in h'.due : e \in h.due /\ e[2] \notin h'.torn
    BY <1>4, <2>1 DEF Due
  <2>9. \A b \in Stored \ h'.torn : \A j \in index[b] :
            <<j, b>> # <<k, c>> => b \in Stored' /\ j \in index'[b]
    BY <2>3, <2>4
  <2>10. \A b \in Stored' : index'[b] \subseteq index[b]
    BY <2>2, <2>3
  <2>11. h' \in Hists /\ h'.mixed = h.mixed /\ h.torn \subseteq h'.torn
    BY <1>4, <2>1 DEF Shape
  <2>12. Stored' \subseteq Stored /\ index' \in [Stored' -> SUBSET Keys] /\ k \notin index'[c]
    BY <2>2, <2>3
  <2>13. Dissociated(r, k, c)
    BY <1>0, <2>5, <2>8, <2>9, <2>10, <2>11, <2>12 DEF Dissociated
  <2> QED  BY <2>6, <2>7, <2>13, DissociatedInv
<1> QED  BY <1>5, <1>6, <1>7

\* The blob cannot be deleted: it stays, torn.
LEMMA DeleteFailsInv ==
    ASSUME BlobInv, NEW r \in Requests, DeleteFails(r)
    PROVE  BlobInv'
<1>1. PICK p \in request[r].dissociate :
          /\ At(r, "track") /\ request[r].associate = {}
          /\ p[2] \in Stored /\ index[p[2]] = {p[1]}
          /\ index' = [index EXCEPT ![p[2]] = {}]
          /\ request' = [request EXCEPT ![r].dissociate = request[r].dissociate \ {p}]
          /\ h' = Excused([h EXCEPT !.torn = h.torn \union {p[2]}])
          /\ UNCHANGED <<records, disk>>
  BY DEF DeleteFails, BlobInv, Shape, Hists
<1> DEFINE k == p[1]
           c == p[2]
<1>2. p = <<k, c>> /\ k \in Keys /\ c \in Cids
  BY <1>1 DEF BlobInv, Write, At
<1> DEFINE torn == h.torn \union {c}
           x == [h EXCEPT !.torn = torn]
<1>3. h' = Excused(x) /\ c \in Stored /\ index[c] = {k} /\ index' = [index EXCEPT ![c] = {}]
  BY <1>1
<1> HIDE DEF k, c
<1>0. /\ At(r, "track") /\ request[r].associate = {} /\ <<k, c>> \in request[r].dissociate
      /\ request' = [request EXCEPT ![r].dissociate = request[r].dissociate \ {<<k, c>>}]
      /\ UNCHANGED records
  BY <1>1, <1>2
<1>4. Shape /\ Agreed /\ Due /\ Used
  BY DEF BlobInv
<1>5. torn \in SUBSET Cids /\ h \in Hists
  BY <1>2, <1>4 DEF Shape, Hists
<1>6. c \in torn /\ h.torn \subseteq torn /\ \A b : b # c /\ b \in torn => b \in h.torn
  OBVIOUS
<1> HIDE DEF torn
<1>7. x \in Hists /\ x.mixed = h.mixed /\ x.torn = torn /\ x.used = h.used /\ x.due = h.due
  BY <1>5 DEF Hists
<1> HIDE DEF x
<1>8. /\ h' \in Hists /\ h'.mixed = h.mixed /\ h'.torn = torn /\ h'.used = h.used \ torn
      /\ \A e \in h'.due : e \in h.due /\ e[2] \notin h'.torn
  BY <1>3, <1>7, ExcusedIs
<1>9. /\ Stored' = Stored /\ index' \in [Stored -> SUBSET Keys] /\ index'[c] = {}
      /\ \A b \in Stored : b # c => index'[b] = index[b]
  BY <1>3, <1>4 DEF Shape, Stored
<1>10. Agreed'
  <2>1. disk' = disk /\ IndexReadable'
    BY <1>1, <1>4, <1>9 DEF Agreed, IndexReadable, get
  <2>2. ASSUME NEW b \in Cids \ h'.torn
        PROVE  /\ b \in disk.mime => b \in Stored
               /\ b \in Stored => disk.refs[b] = index'[b]
               /\ b \notin Stored => disk.refs[b] = {}
    BY <1>4, <1>6, <1>8, <1>9 DEF Agreed
  <2> QED  BY <1>9, <2>1, <2>2 DEF Agreed
<1>11. Used'
  BY <1>4, <1>6, <1>8, <1>9 DEF Used
<1>12. \A b \in Stored \ h'.torn : \A j \in index[b] :
          <<j, b>> # <<k, c>> => b \in Stored' /\ j \in index'[b]
  BY <1>6, <1>8, <1>9
<1>13. \A b \in Stored' : index'[b] \subseteq index[b]
  BY <1>9
<1>14. disk' \in Disks
  BY <1>1, <1>4 DEF Shape
<1>15. Stored' \subseteq Stored /\ index' \in [Stored' -> SUBSET Keys] /\ k \notin index'[c]
         /\ h.torn \subseteq h'.torn
  BY <1>6, <1>8, <1>9
<1>16. Dissociated(r, k, c)
  BY <1>0, <1>8, <1>12, <1>13, <1>14, <1>15 DEF Dissociated
<1> QED  BY <1>10, <1>11, <1>16, DissociatedInv


\* What a crash in the middle of a store operation may leave differs from the
\* directory in one blob.
LEMMA HalfwayIs ==
    ASSUME Shape, NEW x \in Halfway
    PROVE  /\ x.c \in Cids /\ x.d \in Disks
           /\ \A b \in Cids : b # x.c =>
                /\ b \in x.d.data <=> b \in disk.data
                /\ b \in x.d.mime <=> b \in disk.mime
                /\ x.d.refs[b] = disk.refs[b]
<1>1. ASSUME NEW c \in Cids, NEW d,
             \/ d = DataWritten(disk, c)
             \/ d = Persisted(disk, c, {})
             \/ d = DataAway(disk, c)
             \/ d = BothAway(disk, c)
      PROVE  /\ d \in Disks
             /\ \A b \in Cids : b # c =>
                  /\ b \in d.data <=> b \in disk.data
                  /\ b \in d.mime <=> b \in disk.mime
                  /\ d.refs[b] = disk.refs[b]
  <2>1. disk \in Disks
    BY DEF Shape
  <2>2. CASE d = Persisted(disk, c, {})
    BY <2>1, <2>2, PersistedIs
  <2>3. CASE d = DataWritten(disk, c) \/ d = DataAway(disk, c) \/ d = BothAway(disk, c)
    <3>1. CASE d = DataWritten(disk, c)
      <4>1. /\ d \in Disks /\ d.refs = disk.refs
            /\ d.data = disk.data \union {c} /\ d.mime = disk.mime
        BY <2>1, <3>1, FilesAre
      <4> QED  BY <4>1
    <3>2. CASE d = DataAway(disk, c)
      <4>1. /\ d \in Disks /\ d.refs = disk.refs
            /\ d.data = disk.data \ {c} /\ d.mime = disk.mime
        BY <2>1, <3>2, FilesAre
      <4> QED  BY <4>1
    <3>3. CASE d = BothAway(disk, c)
      <4>1. /\ d \in Disks /\ d.refs = disk.refs
            /\ d.data = disk.data \ {c} /\ d.mime = disk.mime \ {c}
        BY <2>1, <3>3, FilesAre
      <4> QED  BY <4>1
    <3> QED  BY <2>3, <3>1, <3>2, <3>3
  <2> QED  BY <1>1, <2>2, <2>3
<1>2. \E d, c : /\ x = [d |-> d, c |-> c] /\ c \in Cids
                /\ \/ d = DataWritten(disk, c)
                   \/ d = Persisted(disk, c, {})
                   \/ d = DataAway(disk, c)
                   \/ d = BothAway(disk, c)
  <2>1. CASE x \in {[d |-> DataWritten(disk, c), c |-> c] : c \in Cids \ disk.data}
    BY <2>1
  <2>2. CASE \E p : p[2] \in Stored /\ x \in HalfAssociated(p)
    BY <2>2 DEF HalfAssociated, Shape
  <2>3. CASE \E p : p[2] \in Stored /\ x \in HalfDissociated(p)
    BY <2>3 DEF HalfDissociated, Shape
  <2> DEFINE written == {[d |-> DataWritten(disk, c), c |-> c] : c \in Cids \ disk.data}
             second == {r \in Requests : request[r].associate = {}}
             ps == {p \in UNION {request[r].associate : r \in Requests} : p[2] \in Stored}
             qs == {p \in UNION {request[r].dissociate : r \in second} :
                      p[2] \in Stored /\ p[1] \in index[p[2]]}
  <2>4. /\ \A p \in ps : p[2] \in Stored
        /\ \A p \in qs : p[2] \in Stored
    OBVIOUS
  <2>5. x \in written \union (UNION {HalfAssociated(p) : p \in ps})
                        \union (UNION {HalfDissociated(p) : p \in qs})
    BY DEF Halfway
  <2> HIDE DEF ps, qs, written
  <2>6. \/ x \in written
        \/ \E p \in ps : x \in HalfAssociated(p)
        \/ \E p \in qs : x \in HalfDissociated(p)
    BY <2>5
  <2> QED  BY <2>1, <2>2, <2>3, <2>4, <2>6 DEF written
<1>3. PICK d, c : /\ x = [d |-> d, c |-> c] /\ c \in Cids
                  /\ \/ d = DataWritten(disk, c)
                     \/ d = Persisted(disk, c, {})
                     \/ d = DataAway(disk, c)
                     \/ d = BothAway(disk, c)
  BY <1>2
<1>4. x.d = d /\ x.c = c
  BY <1>3
<1> QED  BY <1>1, <1>3, <1>4

\* The server starts again: it finds every blob that is not torn as it was, and
\* nobody writes.
LEMMA RestartInv ==
    ASSUME BlobInv, NEW d \in Disks, NEW torn \in SUBSET Cids, Restart(d, torn),
           \A b \in Cids \ torn : /\ b \in d.data <=> b \in disk.data
                                  /\ b \in d.mime <=> b \in disk.mime
                                  /\ d.refs[b] = disk.refs[b]
    PROVE  BlobInv'
<1> DEFINE mixed == h.mixed \union UNION {DOMAIN request[r].new : r \in Active}
           broken == h.torn \union torn
           used == h.used \intersect Stored'
           x == [h EXCEPT !.torn = broken, !.mixed = mixed, !.used = used]
<1>1. Shape /\ Agreed /\ Due /\ Used /\ Justified /\ \A r \in Requests : Write(r)
  BY DEF BlobInv
<1>2. /\ disk' = d /\ index' = Loaded(d) /\ request' = [r \in Requests |-> Idle]
      /\ UNCHANGED records
  BY DEF Restart
<1>3. mixed \in SUBSET Keys /\ broken \in SUBSET Cids /\ used \in SUBSET Cids /\ h \in Hists
  BY <1>1 DEF Shape, Hists, Write, Active
<1>4. h' = Excused(x)
  BY <1>3 DEF Restart, Hists
<1>5. \A r \in Active : \A k \in DOMAIN request[r].new : k \in mixed
  OBVIOUS
<1>6. h.mixed \subseteq mixed /\ h.torn \subseteq broken /\ torn \subseteq broken
        /\ used \subseteq h.used /\ used \subseteq Stored'
  OBVIOUS
<1> HIDE DEF mixed, broken, used
<1>7. x \in Hists /\ x.mixed = mixed /\ x.torn = broken /\ x.used = used /\ x.due = h.due
  BY <1>3 DEF Hists
<1> HIDE DEF x
<1>8. /\ h' \in Hists /\ h'.mixed = mixed /\ h'.torn = broken /\ h'.used = used \ broken
      /\ \A e \in h'.due : e \in h.due /\ e[1] \notin mixed /\ e[2] \notin broken
  BY <1>4, <1>7, ExcusedIs
<1>9. /\ Stored' = d.data \intersect d.mime /\ index' \in [Stored' -> SUBSET Keys]
      /\ \A b \in Stored' : index'[b] = d.refs[b]
  BY <1>2 DEF Stored, Loaded, Disks
<1>10. \A b \in Cids \ broken : /\ b \in Stored' <=> b \in Stored
                                /\ b \in Stored => index'[b] = index[b]
  BY <1>1, <1>6, <1>9 DEF Agreed, IndexReadable, get
<1>11. Active' = {} /\ \A r \in Requests : request'[r] = Idle
  BY <1>2, IdleIs DEF Active, At
<1>12. Stored' \subseteq Cids
  BY <1>9 DEF Disks
<1>13. Shape'
  BY <1>1, <1>2, <1>8, <1>9, <1>11, <1>12, IdleIs DEF Shape
<1>14. Agreed'
  <2>1. IndexReadable'
    BY <1>2, <1>9 DEF IndexReadable, get
  <2>2. ASSUME NEW c \in Cids \ broken
        PROVE  /\ c \in d.mime => c \in Stored'
               /\ c \in Stored' => d.refs[c] = index'[c]
               /\ c \notin Stored' => d.refs[c] = {}
    BY <1>1, <1>6, <1>9, <1>10 DEF Agreed
  <2> QED  BY <1>2, <1>8, <2>1, <2>2 DEF Agreed
<1>15. Due'
  <2>1. \A e \in h'.due : e[2] \in Cids
    BY <1>8 DEF Hists
  <2> QED  BY <1>1, <1>2, <1>8, <1>10, <2>1 DEF Due
<1>16. Used'
  <2>1. used \subseteq Cids
    BY <1>3
  <2> QED  BY <1>1, <1>6, <1>8, <1>10, <2>1 DEF Used
<1>17. Justified'
  BY <1>1, <1>2, <1>5, <1>6, <1>8, <1>10, <1>12 DEF Justified
<1>18. ASSUME NEW r \in Requests PROVE Write(r)' /\ Owned(r)' /\ Found(r)'
  <2>1. At(r, "idle")' /\ ~At(r, "track")'
    BY <1>11, IdleIs DEF At
  <2> QED  BY <2>1 DEF Write, Owned, Found
<1> QED  BY <1>13, <1>14, <1>15, <1>16, <1>17, <1>18 DEF BlobInv

-----------------------------------------------------------------------------
(* The theorems.                                                           *)

LEMMA InitBlobInv == Init => BlobInv
<1> SUFFICES ASSUME Init PROVE BlobInv
  OBVIOUS
<1>1. /\ \A r \in Requests : request[r] = Idle
      /\ request = [r \in Requests |-> request[r]] /\ Stored = {} /\ index = [b \in {} |-> {}]
      /\ disk = [data |-> {}, mime |-> {}, refs |-> [c \in Cids |-> {}]]
      /\ h.due = {} /\ h.mixed = {} /\ h.torn = {} /\ h.used = {} /\ h \in Hists
  BY DEF Init, Stored, NoPairs, Hists
<1>2. Active = {} /\ \A r \in Requests : At(r, "idle") /\ ~At(r, "track")
  BY <1>1, IdleIs DEF Active, At
<1>3. disk \in Disks /\ disk.data = {} /\ disk.mime = {} /\ \A c \in Cids : disk.refs[c] = {}
  BY <1>1 DEF Disks
<1>4. records = [k \in Keys |-> records[k]]
  BY DEF Init
<1>5. Shape
  BY <1>1, <1>3, <1>4, IdleIs DEF Shape
<1>6. Agreed /\ Due /\ Used /\ Justified
  BY <1>1, <1>3 DEF Agreed, IndexReadable, Due, Used, Justified
<1>7. \A r \in Requests : Write(r) /\ Owned(r) /\ Found(r)
  BY <1>2 DEF Write, Owned, Found
<1> QED  BY <1>5, <1>6, <1>7 DEF BlobInv

LEMMA StutterInv ==
    ASSUME BlobInv, UNCHANGED vars
    PROVE  BlobInv'
<1>1. UNCHANGED <<records, disk, index, request, h>> /\ Stored' = Stored /\ Active' = Active
  BY DEF vars, Stored, Active, At
<1>2. (Shape /\ Agreed /\ Due /\ Used /\ Justified)'
  BY <1>1 DEF BlobInv, Shape, Agreed, IndexReadable, get, Due, Used, Justified
<1>3. ASSUME NEW r \in Requests PROVE Write(r)' /\ Owned(r)' /\ Found(r)'
  BY <1>1 DEF BlobInv, Write, Owned, Found, At
<1> QED  BY <1>2, <1>3 DEF BlobInv

LEMMA NextBlobInv == BlobInv /\ [Next]_vars => BlobInv'
<1> SUFFICES ASSUME BlobInv, [Next]_vars PROVE BlobInv'
  OBVIOUS
<1>1. ASSUME NEW c \in Cids, upload_blob(c) \/ PutFails(c) PROVE BlobInv'
  BY <1>1, UploadInv, PutFailsInv
<1>2. ASSUME NEW r \in Requests, NEW k \in Keys, NEW v \in Values, h_create_record(r, k, v)
      PROVE  BlobInv'
  BY <1>2, CreateInv
<1>3. ASSUME NEW r \in Requests,
             \/ \E k \in Keys, v \in Values : h_put_record(r, k, v)
             \/ \E k \in Keys : h_delete_record(r, k)
             \/ \E b \in Batches : h_apply_writes(r, b)
      PROVE  BlobInv'
  BY <1>3, BeginInv
<1>4. ASSUME NEW r \in Requests,
             \/ CommitRecords(r) \/ RefuseRecords(r)
             \/ AssociateOne(r) \/ DissociateOne(r) \/ DeleteFails(r) \/ Answer(r)
      PROVE  BlobInv'
  BY <1>4, CommitInv, RefuseInv, AssociateInv, DissociateInv, DeleteFailsInv, AnswerInv
<1>5. ASSUME NEW k \in Keys, NEW v \in Values, h_import_repo(k, v) PROVE BlobInv'
  BY <1>5, ImportInv
<1>6. ASSUME Restart(disk, {}) PROVE BlobInv'
  <2>1. disk \in Disks
    BY DEF BlobInv, Shape
  <2> QED  BY <1>6, <2>1, RestartInv
<1>7. ASSUME NEW x \in Halfway, Restart(x.d, {x.c}) PROVE BlobInv'
  <2>1. /\ x.d \in Disks /\ {x.c} \in SUBSET Cids
        /\ \A b \in Cids \ {x.c} : /\ b \in x.d.data <=> b \in disk.data
                                   /\ b \in x.d.mime <=> b \in disk.mime
                                   /\ x.d.refs[b] = disk.refs[b]
    BY HalfwayIs DEF BlobInv
  <2> QED  BY <1>7, <2>1, RestartInv
<1>8. CASE UNCHANGED vars
  BY <1>8, StutterInv
<1> QED  BY <1>1, <1>2, <1>3, <1>4, <1>5, <1>6, <1>7, <1>8 DEF Next

\* What the store holds, what its directory holds and what the writes in
\* progress still have to do account for each other.
THEOREM BlobInvariant == Spec => []BlobInv
BY InitBlobInv, NextBlobInv, PTL DEF Spec

\* Whichever file operation failed and wherever the server died, a blob that the
\* store lists can be read and has its type beside it (blob_store_new,
\* blob_write_backing_files, blob_store_delete_locked).
THEOREM ListedBlobsAreReadable == Spec => []IndexReadable
<1>1. BlobInv => IndexReadable
  BY DEF BlobInv, Agreed
<1> QED  BY <1>1, BlobInvariant, PTL

\* A blob that a record names and that its write associated stays, through other
\* records' writes, batches, failed deletes and restarts
\* (untrack_superseded_blobs, the two phases of h_apply_writes).
THEOREM NamedBlobsAreKept == Spec => []KeptWhileNamed
<1>1. BlobInv => KeptWhileNamed
  BY DEF BlobInv, Due, KeptWhileNamed
<1> QED  BY <1>1, BlobInvariant, PTL

\* A blob whose last association went is gone, and no association outlives the
\* record it is for but by its own writer (metalbear_blob_store_dissociate).
THEOREM DereferencedBlobsGo == Spec => []DereferencedIsGone
<1>1. BlobInv => DereferencedIsGone
  BY DEF BlobInv, Used, Justified, DereferencedIsGone
<1> QED  BY <1>1, BlobInvariant, PTL

=============================================================================
