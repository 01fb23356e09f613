---------------------------- MODULE VideoUpload ----------------------------
(***************************************************************************)
(* One account's resumable video uploads (video_upload.cpp, and the routes *)
(* of video_routes.c): a session is a row of video_uploads, the parts the  *)
(* client was told are received are rows of video_upload_parts, and the    *)
(* parts themselves are files of the session's directory.                  *)
(*                                                                         *)
(* The store's mutex covers every lookup and every change of the rows; the *)
(* bytes of a part, the assembly of the object and its way into the blob   *)
(* store are outside it, which is what the steps of a request are.  Bytes  *)
(* are versions: a client may send a part again with other bytes.  A day   *)
(* passes for a session all at once: it is overdue, and no longer counts   *)
(* for the limits (the lifetime and the window are both 24 hours).         *)
(***************************************************************************)
EXTENDS Naturals, FiniteSets

CONSTANTS Requests,   \* request threads
          Jobs,       \* session identifiers, each drawn once
          PartCount,  \* parts of a session
          MaxVersion, \* different bytes a part may be sent with
          MaxOpen,    \* METALBEAR_VIDEO_MAX_OPEN_UPLOADS
          MaxFaults   \* bound on crashes and failed operations

ASSUME VideoAssumption ==
    /\ PartCount \in Nat \ {0} /\ MaxVersion \in Nat \ {0}
    /\ MaxOpen \in Nat /\ MaxFaults \in Nat

Parts == 1..PartCount
Versions == 1..MaxVersion

VARIABLES job,      \* the rows of video_uploads
          received, \* the rows of video_upload_parts
          file,     \* the parts' files, 0 where there is none
          active,   \* active_parts
          blobs,    \* objects in the blob store, as the versions of their parts
          request,  \* what each request thread is doing
          faults,
          h         \* history, for the properties only

vars == <<job, received, file, active, blobs, request, faults, h>>

NoFiles == [p \in Parts |-> 0]
Idle == [pc |-> "idle", job |-> CHOOSE j \in Jobs : TRUE, part |-> 0,
         version |-> 0, read |-> NoFiles]

Init ==
    /\ job = [j \in Jobs |-> [state |-> "none", overdue |-> FALSE, cid |-> NoFiles]]
    /\ received = [j \in Jobs |-> {}]
    /\ file = [j \in Jobs |-> NoFiles]
    /\ active = {} /\ blobs = {}
    /\ request = [r \in Requests |-> Idle]
    /\ faults = 0
    /\ h = [sent |-> [j \in Jobs |-> NoFiles],      \* last version acknowledged
            maybe |-> [j \in Jobs |-> [p \in Parts |-> {}]],
            stuck |-> {}]

At(r, pc) == request[r].pc = pc
Return(r) == request' = [request EXCEPT ![r] = Idle]
Fault == faults < MaxFaults /\ faults' = faults + 1
Terminal == {"completed", "failed", "aborted", "expired"}

\* video/mp4 or not: decided by the first part's bytes.
ValidHeader(object) == object[1] # MaxVersion

(***************************************************************************)
(* Expiry, at the start of every operation but a part's finish.            *)
(***************************************************************************)

Overdue(j) == job[j].state = "created" /\ job[j].overdue

\* expire_sessions_locked, and then the row's further change.
Expired(j, row) == IF Overdue(j) THEN [job[j] EXCEPT !.state = "expired"] ELSE row
Swept(j, files) == IF Overdue(j) THEN NoFiles ELSE files

\* The rows and the files, with row and files for the session at hand.
Update(j, row, files) ==
    /\ job' = [i \in Jobs |-> Expired(i, IF i = j THEN row ELSE job[i])]
    /\ file' = [i \in Jobs |-> Swept(i, IF i = j THEN files ELSE file[i])]

\* get_status and get_limits, and whatever is refused.
get_status ==
    /\ job' = [j \in Jobs |-> Expired(j, job[j])]
    /\ file' = [j \in Jobs |-> Swept(j, file[j])]
    /\ UNCHANGED <<received, active, blobs, request, faults, h>>

\* state_result is OK after the expiry.
Created(j) == job[j].state = "created" /\ ~Overdue(j)

(***************************************************************************)
(* startUpload.                                                            *)
(***************************************************************************)

\* limits_locked: sessions of the last day that are created or finishing, once
\* the expired ones are out.
Open == {j \in Jobs : job[j].state \in {"created", "finishing"} /\ ~job[j].overdue}

start_upload(j) ==
    /\ job[j].state = "none"
    /\ Cardinality(Open) < MaxOpen
    /\ Update(j, [job[j] EXCEPT !.state = "created"], NoFiles)
    /\ UNCHANGED <<received, active, blobs, request, faults, h>>

(***************************************************************************)
(* uploadPart.                                                             *)
(***************************************************************************)

\* Mutant: the bytes go straight to the part's file.
part_beginInPlace(r, j, p, v) ==
    /\ At(r, "idle") /\ Created(j) /\ <<j, p>> \notin active
    /\ active' = active \union {<<j, p>>}
    /\ Update(j, job[j], [file[j] EXCEPT ![p] = v])
    /\ request' = [request EXCEPT ![r] = [Idle EXCEPT !.pc = "write", !.job = j,
                                                     !.part = p, !.version = v]]
    /\ UNCHANGED <<received, blobs, faults, h>>

\* One writer per part, into a temporary file of its own.
part_begin(r, j, p, v) ==
    /\ At(r, "idle") /\ Created(j) /\ <<j, p>> \notin active
    /\ active' = active \union {<<j, p>>}
    /\ Update(j, job[j], file[j])
    /\ request' = [request EXCEPT ![r] = [Idle EXCEPT !.pc = "write", !.job = j,
                                                     !.part = p, !.version = v]]
    /\ UNCHANGED <<received, blobs, faults, h>>

\* All the bytes are there: the temporary file becomes the part, if the session
\* still takes parts.
part_finish(r) ==
    LET q == request[r] IN
    /\ At(r, "write")
    /\ IF job[q.job].state = "created"
       THEN /\ file' = [file EXCEPT ![q.job][q.part] = q.version]
            /\ received' = [received EXCEPT ![q.job] = @ \union {q.part}]
            /\ h' = [h EXCEPT !.sent[q.job][q.part] = q.version,
                              !.maybe[q.job][q.part] = {}]
       ELSE UNCHANGED <<file, received, h>>
    /\ request' = [request EXCEPT ![r].pc = "free"]
    /\ UNCHANGED <<job, active, blobs, faults>>

\* The row cannot be written after the rename: the client is told it failed.
part_finishFails(r) ==
    LET q == request[r] IN
    /\ At(r, "write") /\ job[q.job].state = "created" /\ Fault
    /\ file' = [file EXCEPT ![q.job][q.part] = q.version]
    /\ h' = [h EXCEPT !.maybe[q.job][q.part] = @ \union {q.version}]
    /\ request' = [request EXCEPT ![r].pc = "free"]
    /\ UNCHANGED <<job, received, active, blobs>>

\* video_upload_part_cleanup, also of a part whose client went away or whose
\* bytes do not have the size announced.
part_free(r) ==
    /\ At(r, "free") \/ At(r, "write")
    /\ active' = active \ {<<request[r].job, request[r].part>>}
    /\ Return(r)
    /\ UNCHANGED <<job, received, file, blobs, faults, h>>

(***************************************************************************)
(* finishUpload.                                                           *)
(***************************************************************************)

\* job_has_active_part
Busy(j) == \E a \in active : a[1] = j

FinishMark(r, j) ==
    /\ At(r, "idle") /\ Created(j) /\ ~Busy(j)
    /\ received[j] = Parts
    /\ Update(j, [job[j] EXCEPT !.state = "finishing"], file[j])
    /\ request' = [request EXCEPT ![r] = [Idle EXCEPT !.pc = "assemble", !.job = j]]
    /\ UNCHANGED <<received, active, blobs, faults, h>>

\* assemble_upload reads the parts in order, outside the mutex.
AssemblePart(r) ==
    LET q == request[r]
        p == Cardinality({i \in Parts : q.read[i] # 0}) + 1 IN
    /\ At(r, "assemble") /\ p \in Parts
    /\ request' = [request EXCEPT ![r] =
         IF file[q.job][p] = 0 THEN [@ EXCEPT !.pc = "reset"]
                               ELSE [@ EXCEPT !.read[p] = file[q.job][p]]]
    /\ UNCHANGED <<job, received, file, active, blobs, faults, h>>

\* The header is checked, the object hashed and put into the blob store.
StoreObject(r) ==
    LET q == request[r] IN
    /\ At(r, "assemble") /\ \A p \in Parts : q.read[p] # 0
    /\ IF ValidHeader(q.read)
       THEN /\ blobs' = blobs \union {q.read}
            /\ request' = [request EXCEPT ![r].pc = "record"]
       ELSE /\ request' = [request EXCEPT ![r].pc = "fail"]
            /\ UNCHANGED blobs
    /\ UNCHANGED <<job, received, file, active, faults, h>>

\* A file cannot be read or written, or the blob store refuses.
StoreFails(r) ==
    /\ At(r, "assemble") /\ Fault
    /\ request' = [request EXCEPT ![r].pc = "reset"]
    /\ UNCHANGED <<job, received, file, active, blobs, h>>

\* Back under the mutex; none of the three updates runs the expiry.
FinishRecord(r) ==
    LET q == request[r] IN
    /\ At(r, "record")
    /\ job' = [job EXCEPT ![q.job].state = "completed", ![q.job].cid = q.read]
    /\ file' = [file EXCEPT ![q.job] = NoFiles]
    /\ Return(r)
    /\ UNCHANGED <<received, active, blobs, faults, h>>

\* The update fails: the request returns with the session still finishing.
FinishRecordFails(r) ==
    /\ At(r, "record") /\ Fault
    /\ h' = [h EXCEPT !.stuck = @ \union {request[r].job}]
    /\ Return(r)
    /\ UNCHANGED <<job, received, file, active, blobs>>

FinishFailed(r) ==
    /\ At(r, "fail")
    /\ job' = [job EXCEPT ![request[r].job].state = "failed"]
    /\ Return(r)
    /\ UNCHANGED <<received, file, active, blobs, faults, h>>

FinishReset(r) ==
    LET j == request[r].job IN
    /\ At(r, "reset")
    /\ job' = [job EXCEPT ![j].state = IF @ = "finishing" THEN "created" ELSE @]
    /\ Return(r)
    /\ UNCHANGED <<received, file, active, blobs, faults, h>>

(***************************************************************************)
(* abortUpload, uploadVideo.                                               *)
(***************************************************************************)

\* Mutant: a session that is finishing may be aborted.
abort_uploadAny(j) ==
    /\ (Created(j) \/ job[j].state = "finishing") /\ ~Busy(j)
    /\ Update(j, [job[j] EXCEPT !.state = "aborted"], NoFiles)
    /\ received' = [received EXCEPT ![j] = {}]
    /\ UNCHANGED <<active, blobs, request, faults, h>>

abort_upload(j) ==
    /\ Created(j) /\ ~Busy(j)
    /\ Update(j, [job[j] EXCEPT !.state = "aborted"], NoFiles)
    /\ received' = [received EXCEPT ![j] = {}]
    /\ UNCHANGED <<active, blobs, request, faults, h>>

\* video_upload: the whole object in one request.
video_upload(object) ==
    /\ blobs' = blobs \union {object}
    /\ UNCHANGED <<job, received, file, active, request, faults, h>>

(***************************************************************************)
(* Time and restarts.                                                      *)
(***************************************************************************)

DayPasses(j) ==
    /\ job[j].state # "none" /\ ~job[j].overdue
    /\ job' = [job EXCEPT ![j].overdue = TRUE]
    /\ UNCHANGED <<received, file, active, blobs, request, faults, h>>

\* A part renamed and not yet recorded when the server dies.
Renamed == {r \in Requests : At(r, "write") /\ job[request[r].job].state = "created"}

\* Mutant: a session that was finishing stays so.
ResumedNot(row) ==
    IF row.state = "created" /\ row.overdue THEN [row EXCEPT !.state = "expired"] ELSE row

\* metalbear_video_upload_store_open: sessions that were finishing are created
\* again, and expire like the others.
Resumed(row) ==
    IF row.state \notin {"created", "finishing"} THEN row
    ELSE [row EXCEPT !.state = IF row.overdue THEN "expired" ELSE "created"]

Restart(rs) ==
    LET Now(j, p) == {request[r].version : r \in {q \in rs : request[q].job = j
                                                             /\ request[q].part = p}}
    IN
    /\ Fault
    /\ job' = [j \in Jobs |-> Resumed(job[j])]
    /\ file' = [j \in Jobs |->
         IF job'[j].state = "expired" /\ job[j].state # "expired" THEN NoFiles
         ELSE [p \in Parts |-> IF Now(j, p) = {} THEN file[j][p]
                               ELSE CHOOSE v \in Now(j, p) : TRUE]]
    /\ active' = {}
    /\ request' = [r \in Requests |-> Idle]
    /\ h' = [h EXCEPT !.stuck = {},
                      !.maybe = [j \in Jobs |-> [p \in Parts |-> @[j][p] \union Now(j, p)]]]
    /\ UNCHANGED <<received, blobs>>

-----------------------------------------------------------------------------

\* The route uploadPart: the server streams the body through these.
video_upload_part(r) ==
    \/ \E j \in Jobs, p \in Parts, v \in Versions : part_begin(r, j, p, v)
    \/ part_finish(r) \/ part_finishFails(r) \/ part_free(r)

FinishStep(r) ==
    \/ AssemblePart(r) \/ StoreObject(r) \/ FinishRecord(r)
    \/ FinishFailed(r) \/ FinishReset(r)

\* The route finishUpload.
video_finish_upload(r) ==
    \/ \E j \in Jobs : FinishMark(r, j)
    \/ FinishStep(r) \/ StoreFails(r) \/ FinishRecordFails(r)

Next ==
    \/ get_status
    \/ \E j \in Jobs : start_upload(j) \/ abort_upload(j) \/ DayPasses(j)
    \/ \E r \in Requests : video_upload_part(r) \/ video_finish_upload(r)
    \/ \E object \in [Parts -> Versions] : ValidHeader(object) /\ video_upload(object)
    \/ Restart({})
    \/ \E r \in Renamed : Restart({r})

\* A request, once it runs, runs to its end.
Spec == Init /\ [][Next]_vars /\ \A r \in Requests : WF_vars(FinishStep(r))

-----------------------------------------------------------------------------
(* Properties.                                                             *)

\* A completed session's object is in the blob store and is made of the bytes
\* its client was last told were received, part by part; a part whose upload
\* failed or was cut off by a crash after its rename may have taken its place.
\* Abandoned and repeated parts, expiry and restarts do not mix in others.
CompletedAsSent ==
    \A j \in Jobs : job[j].state = "completed" =>
        /\ job[j].cid \in blobs
        /\ \A p \in Parts : job[j].cid[p] \in h.maybe[j][p] \union {h.sent[j][p]}

\* A session that was completed, failed, aborted or expired stays so: a finish
\* that comes back to the mutex finds the session as it left it.
TerminalStays ==
    [][\A j \in Jobs : job[j].state \in Terminal => job'[j].state = job[j].state]_vars

\* A finishing session becomes something else: the request ends, or the server
\* restarts and takes the session back.  Excepted is the session whose last
\* update failed, which nothing but a restart frees.
FinishingEnds ==
    \A j \in Jobs :
        job[j].state = "finishing" ~> (job[j].state # "finishing" \/ j \in h.stuck)
=============================================================================
