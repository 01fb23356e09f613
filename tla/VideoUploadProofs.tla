------------------------- MODULE VideoUploadProofs -------------------------
(***************************************************************************)
(* What holds of the resumable uploads for any number of requests,         *)
(* sessions, parts and versions: a session that ended stays ended, and a   *)
(* completed one is made of what its client was told.                      *)
(*                                                                         *)
(* The argument is about the request that finishes a session outside the   *)
(* mutex.  There is one at a time, and while it runs the session is        *)
(* "finishing" (FinishInv): parts, aborts and the expiry all ask for       *)
(* "created", so neither the files it reads nor what the client was told   *)
(* changes under it (ReadInv), and every file is a version the client was  *)
(* told of (FileInv).                                                      *)
(***************************************************************************)
EXTENDS VideoUpload, TLAPS

States == {"none", "created", "finishing"} \union Terminal

\* Where a request that finishes a session is.
Finishing == {"assemble", "record", "fail", "reset"}

TypeOK ==
    /\ job \in [Jobs -> [state : States, overdue : BOOLEAN, cid : [Parts -> Nat]]]
    /\ received \in [Jobs -> SUBSET Parts]
    /\ file \in [Jobs -> [Parts -> Nat]]
    /\ request \in [Requests -> [pc : {"idle", "write", "free"} \union Finishing,
                                 job : Jobs \union {Idle.job}, part : Nat,
                                 version : Nat, read : [Parts -> Nat]]]
    /\ h \in [sent : [Jobs -> [Parts -> Nat]], maybe : [Jobs -> [Parts -> SUBSET Nat]],
              stuck : SUBSET Jobs]
    /\ \A r \in Requests :
        /\ ~At(r, "idle") => request[r].job \in Jobs
        /\ At(r, "write") => request[r].part \in Parts

\* A version that may stand for part p: the last one acknowledged, or one whose
\* upload ended without an answer.
Told(j, p) == h.maybe[j][p] \union {h.sent[j][p]}

FileInv == \A j \in Jobs, p \in Parts : file[j][p] # 0 => file[j][p] \in Told(j, p)

\* The request that has a session to finish is alone, and the session waits.
FinishInv ==
    /\ \A r \in Requests :
        request[r].pc \in Finishing => job[request[r].job].state = "finishing"
    /\ \A r, s \in Requests :
        (request[r].pc \in Finishing /\ request[s].pc \in Finishing
           /\ request[r].job = request[s].job) => r = s

ReadInv ==
    \A r \in Requests :
        /\ request[r].pc \in Finishing =>
             \A p \in Parts : request[r].read[p] # 0 =>
                 request[r].read[p] \in Told(request[r].job, p)
        /\ At(r, "record") =>
             request[r].read \in blobs /\ \A p \in Parts : request[r].read[p] # 0

VideoInv == TypeOK /\ FileInv /\ FinishInv /\ ReadInv /\ CompletedAsSent

-----------------------------------------------------------------------------
(* The steps that only touch sessions that are none or created, and files  *)
(* only to remove them.                                                    *)

Row == [state : States, overdue : BOOLEAN, cid : [Parts -> Nat]]

\* What such a step leaves of every session's row and files.
Calm ==
    /\ job' \in [Jobs -> Row] /\ file' \in [Jobs -> [Parts -> Nat]]
    /\ \A i \in Jobs :
        /\ job[i].state \in {"finishing"} \union Terminal => job'[i].state = job[i].state
        /\ job'[i].state = "completed" => job[i].state = "completed"
        /\ job'[i].cid = job[i].cid
        /\ \A p \in Parts : file'[i][p] \in {file[i][p], 0}

\* A change of one session that is none or created, with the expiry of those
\* that are overdue, is such a step.
LEMMA UpdateIsCalm ==
    ASSUME TypeOK, NEW j \in Jobs, NEW row \in Row, NEW files \in {file[j], NoFiles},
           row.state \notin {"completed"} \/ row.state = job[j].state,
           row.cid = job[j].cid,
           job[j].state \in {"finishing"} \union Terminal => row.state = job[j].state,
           Update(j, row, files)
    PROVE  Calm
<1> DEFINE r(i) == IF i = j THEN row ELSE job[i]
           f(i) == IF i = j THEN files ELSE file[i]
<1>1. /\ job' = [i \in Jobs |-> Expired(i, r(i))]
      /\ file' = [i \in Jobs |-> Swept(i, f(i))]
  BY DEF Update
<1>2. NoFiles \in [Parts -> Nat] /\ \A p \in Parts : NoFiles[p] = 0
  BY DEF NoFiles
<1>3. \A i \in Jobs : job[i] \in Row /\ file[i] \in [Parts -> Nat]
  BY DEF TypeOK, Row
<1>4. ASSUME NEW i \in Jobs
      PROVE  /\ Expired(i, r(i)) \in Row
             /\ Expired(i, r(i)).cid = job[i].cid
             /\ job[i].state \in {"finishing"} \union Terminal =>
                  Expired(i, r(i)).state = job[i].state
             /\ Expired(i, r(i)).state = "completed" => job[i].state = "completed"
  <2>1. r(i) \in Row /\ r(i).cid = job[i].cid
        /\ (job[i].state \in {"finishing"} \union Terminal => r(i).state = job[i].state)
        /\ (r(i).state = "completed" => job[i].state = "completed")
    BY <1>3
  <2>2. CASE Overdue(i)
    <3>1. Expired(i, r(i)) = [job[i] EXCEPT !.state = "expired"]
      BY <2>2 DEF Expired
    <3> QED
      BY <1>3, <2>2, <3>1 DEF Overdue, Row, States, Terminal
  <2>3. CASE ~Overdue(i)
    BY <2>1, <2>3 DEF Expired
  <2> QED
    BY <2>2, <2>3
<1>5. ASSUME NEW i \in Jobs
      PROVE  /\ Swept(i, f(i)) \in [Parts -> Nat]
             /\ \A p \in Parts : Swept(i, f(i))[p] \in {file[i][p], 0}
  BY <1>2, <1>3 DEF Swept
<1> QED
  BY <1>1, <1>4, <1>5 DEF Calm

LEMMA CalmSteps ==
    ASSUME TypeOK
    PROVE  /\ get_status => Calm
           /\ \A j \in Jobs : start_upload(j) \/ abort_upload(j) \/ DayPasses(j) => Calm
           /\ \A r \in Requests, j \in Jobs, p \in Parts, v \in Versions :
                part_begin(r, j, p, v) => Calm
           /\ \A r \in Requests, j \in Jobs : FinishMark(r, j) => Calm
<1>1. \A i \in Jobs : job[i] \in Row /\ file[i] \in [Parts -> Nat]
  BY DEF TypeOK, Row
<1>2. ASSUME get_status PROVE Calm
  <2>1. CASE Jobs = {}
    BY <1>2, <2>1 DEF get_status, Calm
  <2>2. CASE Jobs # {}
    <3>1. PICK j \in Jobs : TRUE
      BY <2>2
    <3>2. Update(j, job[j], file[j])
      BY <1>2 DEF get_status, Update
    <3> QED
      BY <1>1, <3>2, UpdateIsCalm
  <2> QED
    BY <2>1, <2>2
<1>3. ASSUME NEW j \in Jobs, start_upload(j) PROVE Calm
  <2>1. [job[j] EXCEPT !.state = "created"] \in Row
    BY <1>1 DEF Row, States
  <2> QED
    BY <1>1, <1>3, <2>1, UpdateIsCalm DEF start_upload, Row, Terminal
<1>4. ASSUME NEW j \in Jobs, abort_upload(j) PROVE Calm
  <2>1. [job[j] EXCEPT !.state = "aborted"] \in Row
    BY <1>1 DEF Row, States, Terminal
  <2> QED
    BY <1>1, <1>4, <2>1, UpdateIsCalm DEF abort_upload, Created, Row, Terminal
<1>5. ASSUME NEW j \in Jobs, DayPasses(j) PROVE Calm
  BY <1>1, <1>5 DEF DayPasses, Calm, TypeOK, Row
<1>6. ASSUME NEW r \in Requests, NEW j \in Jobs, NEW p \in Parts, NEW v \in Versions,
             part_begin(r, j, p, v)
      PROVE  Calm
  BY <1>1, <1>6, UpdateIsCalm DEF part_begin
<1>7. ASSUME NEW r \in Requests, NEW j \in Jobs, FinishMark(r, j) PROVE Calm
  <2>1. [job[j] EXCEPT !.state = "finishing"] \in Row
    BY <1>1 DEF Row, States
  <2> QED
    BY <1>1, <1>7, <2>1, UpdateIsCalm DEF FinishMark, Created, Row, Terminal
<1> QED
  BY <1>2, <1>3, <1>4, <1>5, <1>6, <1>7

-----------------------------------------------------------------------------
(* Types.                                                                  *)

LEMMA IdleIs ==
    /\ Idle.pc = "idle" /\ Idle.part = 0 /\ Idle.version = 0 /\ Idle.read = NoFiles
    /\ Idle = [pc |-> "idle", job |-> Idle.job, part |-> 0, version |-> 0, read |-> NoFiles]
    /\ NoFiles \in [Parts -> Nat] /\ \A p \in Parts : NoFiles[p] = 0
BY DEF Idle, NoFiles

Request == [pc : {"idle", "write", "free"} \union Finishing, job : Jobs \union {Idle.job},
            part : Nat, version : Nat, read : [Parts -> Nat]]

\* A request that begins to finish a session has read nothing.
LEMMA BeginsAt ==
    ASSUME NEW j \in Jobs
    PROVE  LET q == [Idle EXCEPT !.pc = "assemble", !.job = j]
           IN  q \in Request /\ q.pc = "assemble" /\ q.job = j /\ q.read = NoFiles
<1>1. Idle \in Request /\ Idle.read = NoFiles
  BY IdleIs DEF Request
<1> QED
  BY <1>1 DEF Request, Finishing

LEMMA InitVideoInv == Init => VideoInv
<1> SUFFICES ASSUME Init PROVE VideoInv
  OBVIOUS
<1>1. TypeOK
  BY IdleIs DEF Init, TypeOK, States, Finishing, At
<1>2. FileInv
  BY IdleIs DEF Init, FileInv
<1>3. FinishInv /\ ReadInv
  BY IdleIs DEF Init, FinishInv, ReadInv, Finishing, At
<1>4. CompletedAsSent
  BY DEF Init, CompletedAsSent
<1> QED
  BY <1>1, <1>2, <1>3, <1>4 DEF VideoInv

\* What a restart does to the rows, files and acknowledgements: sessions that
\* were finishing or created change, the files are those there were or a
\* version then noted as possible, and nothing noted is forgotten.
LEMMA RestartEffect ==
    ASSUME TypeOK, NEW rs \in SUBSET Requests, \A r \in rs : At(r, "write"), Restart(rs)
    PROVE  /\ TypeOK'
           /\ \A j \in Jobs :
                /\ job'[j].state # "finishing" /\ job'[j].cid = job[j].cid
                /\ job[j].state \in Terminal => job'[j].state = job[j].state
                /\ job'[j].state = "completed" => job[j].state = "completed"
           /\ \A j \in Jobs, p \in Parts :
                /\ h'.sent[j][p] = h.sent[j][p] /\ h.maybe[j][p] \subseteq h'.maybe[j][p]
                /\ \/ file'[j][p] \in {file[j][p], 0}
                   \/ file'[j][p] \in h'.maybe[j][p]
<1> DEFINE Now(j, p) == {request[r].version : r \in {q \in rs : request[q].job = j
                                                                /\ request[q].part = p}}
           F(j) == IF job'[j].state = "expired" /\ job[j].state # "expired" THEN NoFiles
                   ELSE [p \in Parts |-> IF Now(j, p) = {} THEN file[j][p]
                                         ELSE CHOOSE v \in Now(j, p) : TRUE]
           M(j) == [p \in Parts |-> h.maybe[j][p] \union Now(j, p)]
<1>1. /\ job' = [j \in Jobs |-> Resumed(job[j])]
      /\ file' = [j \in Jobs |-> F(j)]
      /\ request' = [r \in Requests |-> Idle]
      /\ h' = [h EXCEPT !.stuck = {}, !.maybe = [j \in Jobs |-> M(j)]]
      /\ UNCHANGED <<received, blobs>>
  BY DEF Restart
<1>2. \A j \in Jobs, p \in Parts : Now(j, p) \in SUBSET Nat
  BY DEF TypeOK
<1> HIDE DEF Now
<1>3. ASSUME NEW j \in Jobs
      PROVE  /\ Resumed(job[j]) \in Row
             /\ Resumed(job[j]).state # "finishing" /\ Resumed(job[j]).cid = job[j].cid
             /\ job[j].state \in Terminal => Resumed(job[j]).state = job[j].state
             /\ Resumed(job[j]).state = "completed" => job[j].state = "completed"
  <2>1. job[j] \in Row
    BY DEF TypeOK, Row
  <2> QED
    BY <2>1 DEF Resumed, Row, States, Terminal
<1>4. ASSUME NEW j \in Jobs
      PROVE  /\ F(j) \in [Parts -> Nat]
             /\ \A p \in Parts : F(j)[p] \in {file[j][p], 0} \/ F(j)[p] \in Now(j, p)
  <2>1. \A p \in Parts : Now(j, p) # {} => (CHOOSE v \in Now(j, p) : TRUE) \in Now(j, p)
    OBVIOUS
  <2>2. file[j] \in [Parts -> Nat]
    BY DEF TypeOK
  <2> QED
    BY <1>2, <2>1, <2>2, IdleIs
<1>5. /\ h'.sent = h.sent /\ h'.maybe = [j \in Jobs |-> M(j)] /\ h'.stuck = {}
      /\ h' \in [sent : [Jobs -> [Parts -> Nat]], maybe : [Jobs -> [Parts -> SUBSET Nat]],
                 stuck : SUBSET Jobs]
  <2>1. h = [sent |-> h.sent, maybe |-> h.maybe, stuck |-> h.stuck]
        /\ h.sent \in [Jobs -> [Parts -> Nat]] /\ h.maybe \in [Jobs -> [Parts -> SUBSET Nat]]
    BY DEF TypeOK
  <2>2. h' = [sent |-> h.sent, maybe |-> [j \in Jobs |-> M(j)], stuck |-> {}]
    BY <1>1, <2>1
  <2>3. [j \in Jobs |-> M(j)] \in [Jobs -> [Parts -> SUBSET Nat]]
    BY <1>2, <2>1
  <2> QED
    BY <2>1, <2>2, <2>3
<1>6. TypeOK'
  <2>1. job' \in [Jobs -> Row] /\ file' \in [Jobs -> [Parts -> Nat]]
    BY <1>1, <1>3, <1>4
  <2>2. received' \in [Jobs -> SUBSET Parts]
    BY <1>1 DEF TypeOK
  <2>3. request' \in [Requests -> [pc : {"idle", "write", "free"} \union Finishing,
                                   job : Jobs \union {Idle.job}, part : Nat,
                                   version : Nat, read : [Parts -> Nat]]]
    BY <1>1, IdleIs
  <2>4. \A r \in Requests : At(r, "idle")'
    BY <1>1, IdleIs DEF At
  <2> QED
    BY <1>5, <2>1, <2>2, <2>3, <2>4 DEF TypeOK, Row, At
<1> HIDE DEF F
<1> QED
  BY <1>1, <1>3, <1>4, <1>5, <1>6

\* Where the steps of a request may lead it, whatever they do to the sessions.
LEMMA TypeStep == TypeOK /\ [Next]_vars => TypeOK'
<1> SUFFICES ASSUME TypeOK, [Next]_vars PROVE TypeOK'
  OBVIOUS
<1> DEFINE Acks(x) == x \in [sent : [Jobs -> [Parts -> Nat]],
                              maybe : [Jobs -> [Parts -> SUBSET Nat]], stuck : SUBSET Jobs]
           Fits(q) == /\ q \in Request
                      /\ q.pc # "idle" => q.job \in Jobs
                      /\ q.pc = "write" => q.part \in Parts
<1>0. /\ job \in [Jobs -> Row] /\ received \in [Jobs -> SUBSET Parts]
      /\ file \in [Jobs -> [Parts -> Nat]] /\ request \in [Requests -> Request]
      /\ Acks(h) /\ \A r \in Requests : Fits(request[r])
  BY DEF TypeOK, Row, Request, At
<1>1. ASSUME job' \in [Jobs -> Row], received' \in [Jobs -> SUBSET Parts],
             file' \in [Jobs -> [Parts -> Nat]], Acks(h'),
             \/ UNCHANGED request
             \/ \E r \in Requests, q \in Request :
                   Fits(q) /\ request' = [request EXCEPT ![r] = q]
      PROVE  TypeOK'
  <2>1. request' \in [Requests -> Request] /\ \A r \in Requests : Fits(request'[r])
    BY <1>0, <1>1
  <2> QED
    BY <1>1, <2>1 DEF TypeOK, Row, Request, At
<1>2. Fits(Idle)
  BY IdleIs DEF Request, Finishing
<1>3. CASE get_status
  BY <1>0, <1>1, <1>3, CalmSteps DEF get_status, Calm
<1>4. ASSUME NEW j \in Jobs, start_upload(j) \/ DayPasses(j) PROVE TypeOK'
  BY <1>0, <1>1, <1>4, CalmSteps DEF start_upload, DayPasses, Calm
<1>5. ASSUME NEW j \in Jobs, abort_upload(j) PROVE TypeOK'
  <2>1. received' \in [Jobs -> SUBSET Parts]
    BY <1>0, <1>5 DEF abort_upload
  <2> QED
    BY <1>0, <1>1, <1>5, <2>1, CalmSteps DEF abort_upload, Calm
<1>6. ASSUME NEW r \in Requests, NEW j \in Jobs, NEW p \in Parts, NEW v \in Versions,
             part_begin(r, j, p, v)
      PROVE  TypeOK'
  <2> DEFINE q == [Idle EXCEPT !.pc = "write", !.job = j, !.part = p, !.version = v]
  <2>1. p \in Nat /\ v \in Nat
    BY VideoAssumption DEF Parts, Versions
  <2>2. q \in Request /\ q.pc = "write" /\ q.job = j /\ q.part = p
    <3>1. Idle \in Request
      BY IdleIs DEF Request
    <3> QED
      BY <2>1, <3>1 DEF Request
  <2>3. Fits(q)
    BY <2>2
  <2> QED
    BY <1>0, <1>1, <1>6, <2>3, CalmSteps DEF part_begin, Calm
<1>7. ASSUME NEW r \in Requests, part_finish(r) PROVE TypeOK'
  <2>1. request[r].job \in Jobs /\ request[r].part \in Parts /\ request[r].version \in Nat
    BY <1>0, <1>7 DEF part_finish, Request, At
  <2>2. file' \in [Jobs -> [Parts -> Nat]] /\ received' \in [Jobs -> SUBSET Parts] /\ Acks(h')
    <3> DEFINE q == request[r]
    <3>1. CASE job[q.job].state = "created"
      <4>1. /\ file' = [file EXCEPT ![q.job][q.part] = q.version]
            /\ received' = [received EXCEPT ![q.job] = @ \union {q.part}]
            /\ h' = [h EXCEPT !.sent = [h.sent EXCEPT ![q.job][q.part] = q.version],
                              !.maybe = [h.maybe EXCEPT ![q.job][q.part] = {}]]
        BY <1>7, <3>1 DEF part_finish
      <4>2. file' \in [Jobs -> [Parts -> Nat]] /\ received' \in [Jobs -> SUBSET Parts]
        BY <1>0, <2>1, <4>1
      <4>3. /\ [h.sent EXCEPT ![q.job][q.part] = q.version] \in [Jobs -> [Parts -> Nat]]
            /\ [h.maybe EXCEPT ![q.job][q.part] = {}] \in [Jobs -> [Parts -> SUBSET Nat]]
        BY <1>0, <2>1
      <4> QED
        BY <1>0, <4>1, <4>2, <4>3
    <3>2. CASE job[q.job].state # "created"
      BY <1>0, <1>7, <3>2 DEF part_finish
    <3> QED
      BY <3>1, <3>2
  <2>3. Fits([request[r] EXCEPT !.pc = "free"])
    BY <1>0, <2>1 DEF Request
  <2> QED
    BY <1>0, <1>1, <1>7, <2>2, <2>3 DEF part_finish
<1>8. ASSUME NEW r \in Requests, part_finishFails(r) PROVE TypeOK'
  <2>1. request[r].job \in Jobs /\ request[r].part \in Parts /\ request[r].version \in Nat
    BY <1>0, <1>8 DEF part_finishFails, Request, At
  <2>2. file' \in [Jobs -> [Parts -> Nat]] /\ Acks(h')
    <3> DEFINE q == request[r]
               m == h.maybe[q.job][q.part] \union {q.version}
    <3>1. /\ file' = [file EXCEPT ![q.job][q.part] = q.version]
          /\ h' = [h EXCEPT !.maybe = [h.maybe EXCEPT ![q.job][q.part] = m]]
      BY <1>8 DEF part_finishFails
    <3>2. file' \in [Jobs -> [Parts -> Nat]]
      BY <1>0, <2>1, <3>1
    <3>3. m \in SUBSET Nat
      BY <1>0, <2>1
    <3> HIDE DEF m
    <3>4. [h.maybe EXCEPT ![q.job][q.part] = m] \in [Jobs -> [Parts -> SUBSET Nat]]
      BY <1>0, <2>1, <3>3
    <3> QED
      BY <1>0, <3>1, <3>2, <3>4
  <2>3. Fits([request[r] EXCEPT !.pc = "free"])
    BY <1>0, <2>1 DEF Request
  <2> QED
    BY <1>0, <1>1, <1>8, <2>2, <2>3 DEF part_finishFails
<1>9. ASSUME NEW r \in Requests, part_free(r) PROVE TypeOK'
  BY <1>0, <1>1, <1>2, <1>9 DEF part_free, Return
<1>10. ASSUME NEW r \in Requests, NEW j \in Jobs, FinishMark(r, j) PROVE TypeOK'
  <2> DEFINE q == [Idle EXCEPT !.pc = "assemble", !.job = j]
  <2>2. Fits(q)
    BY BeginsAt
  <2> QED
    BY <1>0, <1>1, <1>10, <2>2, CalmSteps DEF FinishMark, Calm
<1>11. ASSUME NEW r \in Requests, AssemblePart(r) PROVE TypeOK'
  <2> DEFINE p == Cardinality({i \in Parts : request[r].read[i] # 0}) + 1
  <2>1. p \in Parts /\ request[r].job \in Jobs
    BY <1>0, <1>11 DEF AssemblePart, At
  <2> HIDE DEF p
  <2>2. /\ Fits([request[r] EXCEPT !.pc = "reset"])
        /\ Fits([request[r] EXCEPT !.read[p] = file[request[r].job][p]])
    <3>1. request[r] \in Request /\ Fits(request[r]) /\ file[request[r].job][p] \in Nat
      BY <1>0, <2>1
    <3>2. Fits([request[r] EXCEPT !.pc = "reset"])
      BY <2>1, <3>1 DEF Request, Finishing
    <3>3. [request[r].read EXCEPT ![p] = file[request[r].job][p]] \in [Parts -> Nat]
      BY <2>1, <3>1 DEF Request
    <3>4. Fits([request[r] EXCEPT !.read =
                   [request[r].read EXCEPT ![p] = file[request[r].job][p]]])
      BY <3>1, <3>3 DEF Request
    <3> QED
      BY <3>2, <3>4
  <2> QED
    BY <1>0, <1>1, <1>11, <2>2 DEF AssemblePart, p
<1>12. ASSUME NEW r \in Requests, StoreObject(r) PROVE TypeOK'
  <2>1. Fits([request[r] EXCEPT !.pc = "record"]) /\ Fits([request[r] EXCEPT !.pc = "fail"])
    <3>1. request[r] \in Request /\ request[r].job \in Jobs
      BY <1>0, <1>12 DEF StoreObject, At
    <3>2. \A pc \in Finishing : [request[r] EXCEPT !.pc = pc] \in Request
      BY <3>1 DEF Request
    <3>3. \A pc \in Finishing : /\ [request[r] EXCEPT !.pc = pc].pc = pc /\ pc # "write"
                               /\ [request[r] EXCEPT !.pc = pc].job = request[r].job
      BY <3>1 DEF Request, Finishing
    <3>4. \A pc \in Finishing : Fits([request[r] EXCEPT !.pc = pc])
      BY <3>1, <3>2, <3>3
    <3> QED
      BY <3>4 DEF Finishing
  <2> QED
    BY <1>0, <1>1, <1>12, <2>1 DEF StoreObject
<1>13. ASSUME NEW r \in Requests, StoreFails(r) PROVE TypeOK'
  <2>1. Fits([request[r] EXCEPT !.pc = "reset"])
    <3>1. request[r] \in Request /\ request[r].job \in Jobs
      BY <1>0, <1>13 DEF StoreFails, At
    <3>2. \A pc \in Finishing : [request[r] EXCEPT !.pc = pc] \in Request
      BY <3>1 DEF Request
    <3>3. \A pc \in Finishing : /\ [request[r] EXCEPT !.pc = pc].pc = pc /\ pc # "write"
                               /\ [request[r] EXCEPT !.pc = pc].job = request[r].job
      BY <3>1 DEF Request, Finishing
    <3>4. \A pc \in Finishing : Fits([request[r] EXCEPT !.pc = pc])
      BY <3>1, <3>2, <3>3
    <3> QED
      BY <3>4 DEF Finishing
  <2> QED
    BY <1>0, <1>1, <1>13, <2>1 DEF StoreFails
<1>14. ASSUME NEW r \in Requests, FinishRecord(r) PROVE TypeOK'
  <2>1. request[r].job \in Jobs /\ request[r].read \in [Parts -> Nat]
    BY <1>0, <1>14 DEF FinishRecord, Request, At
  <2>2. job' \in [Jobs -> Row] /\ file' \in [Jobs -> [Parts -> Nat]]
    <3>1. file' \in [Jobs -> [Parts -> Nat]]
      BY <1>0, <1>14, <2>1, IdleIs DEF FinishRecord
    <3>2. [job[request[r].job] EXCEPT !.state = "completed", !.cid = request[r].read] \in Row
      <4>1. job[request[r].job] \in Row
        BY <1>0, <2>1
      <4> QED
        BY <2>1, <4>1 DEF Row, States, Terminal
    <3>3. job' = [job EXCEPT ![request[r].job] =
                    [job[request[r].job] EXCEPT !.state = "completed", !.cid = request[r].read]]
      BY <1>0, <1>14, <2>1 DEF FinishRecord
    <3> QED
      BY <1>0, <2>1, <3>1, <3>2, <3>3
  <2> QED
    BY <1>0, <1>1, <1>2, <1>14, <2>2 DEF FinishRecord, Return
<1>15. ASSUME NEW r \in Requests, FinishRecordFails(r) PROVE TypeOK'
  <2>1. Acks(h')
    BY <1>0, <1>15 DEF FinishRecordFails, Request, At
  <2> QED
    BY <1>0, <1>1, <1>2, <1>15, <2>1 DEF FinishRecordFails, Return
<1>16. ASSUME NEW r \in Requests, FinishFailed(r) \/ FinishReset(r) PROVE TypeOK'
  <2>1. job' \in [Jobs -> Row]
    <3> DEFINE j == request[r].job
    <3>1. j \in Jobs
      BY <1>0, <1>16 DEF FinishFailed, FinishReset, At
    <3>2. PICK s \in States : job' = [job EXCEPT ![j].state = s]
      <4>1. CASE FinishFailed(r)
        BY <4>1 DEF FinishFailed, States, Terminal
      <4>2. CASE FinishReset(r)
        BY <1>0, <3>1, <4>2 DEF FinishReset, States, Row
      <4> QED
        BY <1>16, <4>1, <4>2
    <3>3. [job[j] EXCEPT !.state = s] \in Row
      <4>1. job[j] \in Row
        BY <1>0, <3>1
      <4> QED
        BY <4>1 DEF Row
    <3> QED
      BY <1>0, <3>1, <3>2, <3>3
  <2> QED
    BY <1>0, <1>1, <1>2, <1>16, <2>1 DEF FinishFailed, FinishReset, Return
<1>17. CASE \E object : video_upload(object)
  BY <1>0, <1>1, <1>17 DEF video_upload
<1>18. CASE Restart({})
  BY <1>18, RestartEffect
<1>19. ASSUME NEW r \in Renamed, Restart({r}) PROVE TypeOK'
  BY <1>19, RestartEffect DEF Renamed
<1>20. CASE UNCHANGED vars
  BY <1>0, <1>1, <1>20 DEF vars
<1> QED
  BY <1>3, <1>4, <1>5, <1>6, <1>7, <1>8, <1>9, <1>10, <1>11, <1>12, <1>13, <1>14, <1>15,
     <1>16, <1>17, <1>18, <1>19, <1>20
  DEF Next, video_upload_part, video_finish_upload, FinishStep

-----------------------------------------------------------------------------
(* The sessions, and the requests that finish them.                        *)

\* What a part's end notes: the bytes of part p of session j become what the
\* client was told, or what may be there, while the session takes parts.
LEMMA PartEffect ==
    ASSUME TypeOK, NEW r \in Requests, part_finish(r) \/ part_finishFails(r)
    PROVE  /\ UNCHANGED <<job, blobs>>
           /\ request' = [request EXCEPT ![r].pc = "free"]
           /\ \A i \in Jobs : job[i].state # "created" =>
                \A p \in Parts : /\ h'.sent[i][p] = h.sent[i][p]
                                 /\ h'.maybe[i][p] = h.maybe[i][p]
           /\ \A i \in Jobs, p \in Parts :
                \/ /\ file'[i][p] = file[i][p] /\ h'.sent[i][p] = h.sent[i][p]
                   /\ h'.maybe[i][p] = h.maybe[i][p]
                \/ file'[i][p] \in h'.maybe[i][p] \union {h'.sent[i][p]}
<1> DEFINE q == request[r]
<1>1. q.job \in Jobs /\ q.part \in Parts
  BY DEF TypeOK, part_finish, part_finishFails, At
<1>2. h.sent \in [Jobs -> [Parts -> Nat]] /\ h.maybe \in [Jobs -> [Parts -> SUBSET Nat]]
      /\ file \in [Jobs -> [Parts -> Nat]]
      /\ h = [sent |-> h.sent, maybe |-> h.maybe, stuck |-> h.stuck]
  BY DEF TypeOK
<1>3. CASE part_finish(r) /\ job[q.job].state = "created"
  <2>1. /\ file' = [file EXCEPT ![q.job][q.part] = q.version]
        /\ h' = [h EXCEPT !.sent = [h.sent EXCEPT ![q.job][q.part] = q.version],
                          !.maybe = [h.maybe EXCEPT ![q.job][q.part] = {}]]
    BY <1>3 DEF part_finish
  <2>2. /\ h'.sent = [h.sent EXCEPT ![q.job][q.part] = q.version]
        /\ h'.maybe = [h.maybe EXCEPT ![q.job][q.part] = {}]
    BY <1>2, <2>1
  <2>3. \A i \in Jobs, p \in Parts :
           IF i = q.job /\ p = q.part
           THEN file'[i][p] = q.version /\ h'.sent[i][p] = q.version
           ELSE file'[i][p] = file[i][p] /\ h'.sent[i][p] = h.sent[i][p]
                /\ h'.maybe[i][p] = h.maybe[i][p]
    BY <1>1, <1>2, <2>1, <2>2
  <2>4. UNCHANGED <<job, blobs>> /\ request' = [request EXCEPT ![r].pc = "free"]
    BY <1>3 DEF part_finish
  <2> QED
    BY <1>3, <2>3, <2>4
<1>4. CASE part_finish(r) /\ job[q.job].state # "created"
  BY <1>4 DEF part_finish
<1>5. CASE part_finishFails(r)
  <2> DEFINE m == h.maybe[q.job][q.part] \union {q.version}
  <2>1. /\ file' = [file EXCEPT ![q.job][q.part] = q.version]
        /\ h' = [h EXCEPT !.maybe = [h.maybe EXCEPT ![q.job][q.part] = m]]
    BY <1>5 DEF part_finishFails
  <2>2. q.version \in m
    OBVIOUS
  <2> HIDE DEF m
  <2>3. /\ h'.sent = h.sent
        /\ h'.maybe = [h.maybe EXCEPT ![q.job][q.part] = m]
    BY <1>2, <2>1
  <2>4. \A i \in Jobs, p \in Parts :
           IF i = q.job /\ p = q.part
           THEN file'[i][p] = q.version /\ h'.maybe[i][p] = m
           ELSE file'[i][p] = file[i][p] /\ h'.sent[i][p] = h.sent[i][p]
                /\ h'.maybe[i][p] = h.maybe[i][p]
    BY <1>1, <1>2, <2>1, <2>3
  <2>5. /\ UNCHANGED <<job, blobs>> /\ request' = [request EXCEPT ![r].pc = "free"]
        /\ job[q.job].state = "created"
    BY <1>5 DEF part_finishFails
  <2> QED
    BY <2>2, <2>4, <2>5
<1> QED
  BY <1>3, <1>4, <1>5

LEMMA FileStep == TypeOK /\ FileInv /\ [Next]_vars => FileInv'
<1> SUFFICES ASSUME TypeOK, FileInv, [Next]_vars PROVE FileInv'
  OBVIOUS
<1>1. ASSUME Calm, UNCHANGED h PROVE FileInv'
  BY <1>1 DEF Calm, FileInv, Told
<1>2. CASE get_status
  BY <1>1, <1>2, CalmSteps DEF get_status
<1>3. ASSUME NEW j \in Jobs, start_upload(j) \/ abort_upload(j) \/ DayPasses(j) PROVE FileInv'
  BY <1>1, <1>3, CalmSteps DEF start_upload, abort_upload, DayPasses
<1>4. ASSUME NEW r \in Requests, NEW j \in Jobs, NEW p \in Parts, NEW v \in Versions,
             part_begin(r, j, p, v)
      PROVE  FileInv'
  BY <1>1, <1>4, CalmSteps DEF part_begin
<1>5. ASSUME NEW r \in Requests, NEW j \in Jobs, FinishMark(r, j) PROVE FileInv'
  BY <1>1, <1>5, CalmSteps DEF FinishMark
<1>6. ASSUME NEW r \in Requests, part_finish(r) \/ part_finishFails(r) PROVE FileInv'
  BY <1>6, PartEffect DEF FileInv, Told
<1>7. ASSUME UNCHANGED <<file, h>> PROVE FileInv'
  BY <1>7 DEF FileInv, Told
<1>8. ASSUME NEW r \in Requests,
             part_free(r) \/ AssemblePart(r) \/ StoreObject(r) \/ StoreFails(r)
               \/ FinishFailed(r) \/ FinishReset(r)
      PROVE  FileInv'
  BY <1>7, <1>8 DEF part_free, AssemblePart, StoreObject, StoreFails, FinishFailed, FinishReset
<1>9. ASSUME NEW r \in Requests, FinishRecord(r) PROVE FileInv'
  <2>1. \A i \in Jobs, p \in Parts : file'[i][p] \in {file[i][p], 0}
    BY <1>9, IdleIs DEF FinishRecord, TypeOK
  <2> QED
    BY <1>9, <2>1 DEF FinishRecord, FileInv, Told
<1>10. ASSUME NEW r \in Requests, FinishRecordFails(r) PROVE FileInv'
  <2>1. h'.sent = h.sent /\ h'.maybe = h.maybe /\ file' = file
    BY <1>10 DEF FinishRecordFails, TypeOK
  <2> QED
    BY <2>1 DEF FileInv, Told
<1>11. ASSUME NEW rs \in SUBSET Requests, \A r \in rs : At(r, "write"), Restart(rs)
       PROVE  FileInv'
  BY <1>11, RestartEffect DEF FileInv, Told
<1>12. CASE \E object : video_upload(object)
  BY <1>7, <1>12 DEF video_upload
<1>13. CASE Restart({}) \/ \E r \in Renamed : Restart({r})
  BY <1>11, <1>13 DEF Renamed
<1>14. CASE UNCHANGED vars
  BY <1>7, <1>14 DEF vars
<1> QED
  BY <1>2, <1>3, <1>4, <1>5, <1>6, <1>8, <1>9, <1>10, <1>12, <1>13, <1>14
  DEF Next, video_upload_part, video_finish_upload, FinishStep

LEMMA FinishStepInv == TypeOK /\ FinishInv /\ [Next]_vars => FinishInv'
<1> SUFFICES ASSUME TypeOK, FinishInv, [Next]_vars PROVE FinishInv'
  OBVIOUS
<1>0. /\ request \in [Requests -> Request] /\ \A r \in Requests : ~At(r, "idle") => request[r].job \in Jobs
      /\ job \in [Jobs -> Row]
  BY DEF TypeOK, Request, Row
<1>i. Idle.pc \notin Finishing
  BY IdleIs DEF Finishing
<1>j. \A r \in Requests : request[r].pc \in Finishing => request[r].job \in Jobs
  BY <1>0 DEF Finishing, At
<1>1. ASSUME \A i \in Jobs : job[i].state = "finishing" => job'[i].state = "finishing",
             \/ UNCHANGED request
             \/ \E r \in Requests, q \in Request :
                  /\ request' = [request EXCEPT ![r] = q]
                  /\ q.pc \in Finishing => request[r].pc \in Finishing /\ q.job = request[r].job
      PROVE  FinishInv'
  BY <1>0, <1>1, <1>j DEF FinishInv
<1>2. CASE get_status
  BY <1>1, <1>2, CalmSteps DEF get_status, Calm
<1>3. ASSUME NEW j \in Jobs, start_upload(j) \/ abort_upload(j) \/ DayPasses(j) PROVE FinishInv'
  BY <1>1, <1>3, CalmSteps DEF start_upload, abort_upload, DayPasses, Calm
<1>4. ASSUME NEW r \in Requests, NEW j \in Jobs, NEW p \in Parts, NEW v \in Versions,
             part_begin(r, j, p, v)
      PROVE  FinishInv'
  <2> DEFINE q == [Idle EXCEPT !.pc = "write", !.job = j, !.part = p, !.version = v]
  <2>1. q \in Request /\ q.pc = "write"
    <3>1. Idle \in Request /\ p \in Nat /\ v \in Nat
      BY IdleIs, VideoAssumption DEF Request, Parts, Versions
    <3> QED
      BY <3>1 DEF Request
  <2>2. request' = [request EXCEPT ![r] = q]
    BY <1>4 DEF part_begin
  <2> HIDE DEF q
  <2> QED
    BY <1>1, <1>4, <2>1, <2>2, CalmSteps DEF Calm, Finishing
<1>5. ASSUME NEW r \in Requests, NEW j \in Jobs, FinishMark(r, j) PROVE FinishInv'
  <2> DEFINE q == [Idle EXCEPT !.pc = "assemble", !.job = j]
  <2>1. q \in Request /\ q.pc = "assemble" /\ q.job = j
    BY BeginsAt
  <2>2. request' = [request EXCEPT ![r] = q]
    BY <1>5 DEF FinishMark
  <2> HIDE DEF q
  <2>3. \A i \in Jobs : job[i].state = "finishing" => job'[i].state = "finishing"
    BY <1>5, CalmSteps DEF Calm
  <2>4. job[j].state = "created" /\ job'[j].state = "finishing"
    <3>1. job[j].state = "created" /\ ~Overdue(j) /\ job[j] \in Row
      BY <1>0, <1>5 DEF FinishMark, Created
    <3>2. job'[j] = [job[j] EXCEPT !.state = "finishing"]
      BY <1>5, <3>1 DEF FinishMark, Update, Expired
    <3> QED
      BY <3>1, <3>2 DEF Row
  <2>5. \A s \in Requests : request[s].pc \in Finishing => request[s].job # j
    BY <2>4 DEF FinishInv
  <2> QED
    BY <1>0, <1>j, <2>1, <2>2, <2>3, <2>4, <2>5 DEF FinishInv
<1>6. ASSUME NEW r \in Requests, part_finish(r) \/ part_finishFails(r) PROVE FinishInv'
  <2>1. [request[r] EXCEPT !.pc = "free"] \in Request
    BY <1>0 DEF Request
  <2> QED
    BY <1>0, <1>1, <1>6, <2>1, PartEffect DEF Finishing, Request
<1>7. ASSUME NEW r \in Requests, part_free(r) \/ FinishRecordFails(r) PROVE FinishInv'
  BY <1>0, <1>1, <1>7, <1>i, IdleIs DEF part_free, FinishRecordFails, Return, Request
<1>8. ASSUME NEW r \in Requests, AssemblePart(r) \/ StoreObject(r) \/ StoreFails(r) PROVE FinishInv'
  <2>1. UNCHANGED job /\ request[r].pc \in Finishing
    BY <1>8 DEF AssemblePart, StoreObject, StoreFails, At, Finishing
  <2>2. /\ \A s \in Requests : s # r => request'[s] = request[s]
        /\ request'[r].job = request[r].job
    BY <1>0, <1>8 DEF AssemblePart, StoreObject, StoreFails, Request
  <2> QED
    BY <2>1, <2>2 DEF FinishInv
<1>9. ASSUME NEW r \in Requests, FinishRecord(r) \/ FinishFailed(r) \/ FinishReset(r) PROVE FinishInv'
  <2>1. request[r].pc \in Finishing /\ request' = [request EXCEPT ![r] = Idle]
    BY <1>9 DEF FinishRecord, FinishFailed, FinishReset, At, Finishing, Return
  <2>2. \A i \in Jobs : i # request[r].job => job'[i] = job[i]
    BY <1>0, <1>9 DEF FinishRecord, FinishFailed, FinishReset
  <2> QED
    BY <1>0, <1>i, <1>j, <2>1, <2>2 DEF FinishInv
<1>10. CASE \E object : video_upload(object)
  BY <1>1, <1>10 DEF video_upload
<1>11. CASE Restart({}) \/ \E r \in Renamed : Restart({r})
  <2>1. request' = [r \in Requests |-> Idle]
    BY <1>11 DEF Restart
  <2> QED
    BY <1>i, <2>1 DEF FinishInv
<1>12. CASE UNCHANGED vars
  BY <1>1, <1>12 DEF vars
<1> QED
  BY <1>2, <1>3, <1>4, <1>5, <1>6, <1>7, <1>8, <1>9, <1>10, <1>11, <1>12
  DEF Next, video_upload_part, video_finish_upload, FinishStep

LEMMA ReadStep == VideoInv /\ [Next]_vars => ReadInv'
<1> SUFFICES ASSUME VideoInv, [Next]_vars PROVE ReadInv'
  OBVIOUS
<1>0. /\ request \in [Requests -> Request] /\ TypeOK /\ FinishInv /\ ReadInv /\ FileInv
      /\ \A r \in Requests : ~At(r, "idle") => request[r].job \in Jobs
      /\ job \in [Jobs -> Row]
  BY DEF VideoInv, TypeOK, Request, Row
<1>i. Idle.pc \notin Finishing /\ Idle.pc # "record"
  BY IdleIs DEF Finishing
<1>j. \A r \in Requests : request[r].pc \in Finishing => request[r].job \in Jobs
  BY <1>0 DEF Finishing, At
<1> DEFINE Kept == /\ blobs \subseteq blobs'
                   /\ \A i \in Jobs, p \in Parts : job[i].state = "finishing" => Told(i, p)' = Told(i, p)
           \* What ReadInv says of a request q, with what is told now.
           Read(q) == /\ q.pc \in Finishing => q.job \in Jobs /\
                           \A p \in Parts : q.read[p] # 0 => q.read[p] \in Told(q.job, p)
                      /\ q.pc = "record" => q.read \in blobs' /\ \A p \in Parts : q.read[p] # 0
<1>1. ASSUME Kept,
             \/ UNCHANGED request
             \/ \E r \in Requests : /\ \A s \in Requests : s # r => request'[s] = request[s]
                                    /\ Read(request'[r])
                                    /\ request'[r].pc \in Finishing =>
                                          job[request'[r].job].state = "finishing"
      PROVE  ReadInv'
  <2>1. ASSUME NEW s \in Requests,
               Read(request'[s]),
               request'[s].pc \in Finishing => job[request'[s].job].state = "finishing"
        PROVE  /\ request'[s].pc \in Finishing =>
                    \A p \in Parts : request'[s].read[p] # 0 =>
                       request'[s].read[p] \in Told(request[s].job, p)'
               /\ At(s, "record")' =>
                    request'[s].read \in blobs' /\ \A p \in Parts : request'[s].read[p] # 0
    <3>1. \A i \in Jobs, p \in Parts : job[i].state = "finishing" =>
             h'.maybe[i][p] \union {h'.sent[i][p]} = Told(i, p)
      BY <1>1 DEF Told
    <3>2. request'[s].pc \in Finishing => \A p \in Parts : request'[s].read[p] # 0 =>
             request'[s].read[p] \in h'.maybe[request'[s].job][p] \union {h'.sent[request'[s].job][p]}
      BY <2>1, <3>1
    <3> QED
      BY <2>1, <3>2 DEF At, Told
  <2>2. \A s \in Requests : request'[s] = request[s] =>
           Read(request'[s]) /\
           (request'[s].pc \in Finishing => job[request'[s].job].state = "finishing")
    BY <1>0, <1>1, <1>j DEF ReadInv, FinishInv, At
  <2> QED
    BY <1>1, <2>1, <2>2 DEF ReadInv
<1>3. CASE get_status
  BY <1>1, <1>3 DEF get_status, Told
<1>4. ASSUME NEW j \in Jobs, start_upload(j) \/ abort_upload(j) \/ DayPasses(j) PROVE ReadInv'
  BY <1>1, <1>4 DEF start_upload, abort_upload, DayPasses, Told
<1>5. ASSUME NEW r \in Requests, NEW j \in Jobs, NEW p \in Parts, NEW v \in Versions,
             part_begin(r, j, p, v)
      PROVE  ReadInv'
  <2>1. /\ \A s \in Requests : s # r => request'[s] = request[s]
        /\ request'[r].pc = "write"
    <3>1. Idle \in Request
      BY IdleIs DEF Request
    <3> QED
      BY <1>0, <1>5, <3>1 DEF part_begin, Request
  <2> QED
    BY <1>1, <1>5, <2>1 DEF part_begin, Told, Finishing
<1>6. ASSUME NEW r \in Requests, NEW j \in Jobs, FinishMark(r, j) PROVE ReadInv'
  <2> DEFINE q == [Idle EXCEPT !.pc = "assemble", !.job = j]
  <2>1. q \in Request /\ q.pc = "assemble" /\ q.job = j /\ q.read = NoFiles
    BY BeginsAt
  <2>2. request' = [request EXCEPT ![r] = q] /\ UNCHANGED <<h, blobs>>
    BY <1>6 DEF FinishMark
  <2> HIDE DEF q
  <2>3. ASSUME NEW s \in Requests
        PROVE  /\ request'[s].pc \in Finishing =>
                    \A p \in Parts : request'[s].read[p] # 0 =>
                       request'[s].read[p] \in Told(request[s].job, p)'
               /\ At(s, "record")' =>
                    request'[s].read \in blobs' /\ \A p \in Parts : request'[s].read[p] # 0
    <3>1. CASE s = r
      BY <1>0, <2>1, <2>2, <3>1, IdleIs DEF At
    <3>2. CASE s # r
      BY <1>0, <2>2, <3>2 DEF ReadInv, Told, At
    <3> QED
      BY <3>1, <3>2
  <2> QED
    BY <2>3 DEF ReadInv
<1>7. ASSUME NEW r \in Requests, part_finish(r) \/ part_finishFails(r) PROVE ReadInv'
  <2>1. Kept
    BY <1>0, <1>7, PartEffect DEF Told
  <2>2. /\ \A s \in Requests : s # r => request'[s] = request[s]
        /\ request'[r].pc = "free"
    BY <1>0, <1>7, PartEffect DEF Request
  <2> QED
    BY <1>1, <2>1, <2>2 DEF Finishing
<1>8. ASSUME NEW r \in Requests, Return(r), Kept PROVE ReadInv'
  BY <1>0, <1>1, <1>8, <1>i DEF Return
<1>9. ASSUME NEW r \in Requests,
             part_free(r) \/ FinishRecord(r) \/ FinishFailed(r) \/ FinishReset(r)
      PROVE  ReadInv'
  BY <1>8, <1>9 DEF part_free, FinishRecord, FinishFailed, FinishReset, Told
<1>10. ASSUME NEW r \in Requests, FinishRecordFails(r) PROVE ReadInv'
  <2>1. h'.sent = h.sent /\ h'.maybe = h.maybe
    BY <1>0, <1>10 DEF FinishRecordFails, TypeOK
  <2> QED
    BY <1>8, <1>10, <2>1 DEF FinishRecordFails, Told
<1>11. ASSUME NEW r \in Requests, AssemblePart(r) PROVE ReadInv'
  <2> DEFINE q == request[r]
             p == Cardinality({i \in Parts : q.read[i] # 0}) + 1
  <2>1. /\ p \in Parts /\ q.pc = "assemble" /\ q.job \in Jobs /\ UNCHANGED <<h, blobs>>
        /\ request' = [request EXCEPT ![r] =
             IF file[q.job][p] = 0 THEN [q EXCEPT !.pc = "reset"]
                                   ELSE [q EXCEPT !.read[p] = file[q.job][p]]]
    BY <1>0, <1>11 DEF AssemblePart, At
  <2> HIDE DEF p
  <2>2. q.read \in [Parts -> Nat] /\ q \in Request
    BY <1>0 DEF Request
  <2>3. /\ \A s \in Requests : s # r => request'[s] = request[s]
        /\ request'[r].job = q.job /\ request'[r].pc \in {"assemble", "reset"}
        /\ \A i \in Parts : \/ request'[r].read[i] = q.read[i]
                            \/ request'[r].read[i] = file[q.job][i]
    <3>1. CASE file[q.job][p] = 0
      BY <1>0, <2>1, <2>2, <3>1 DEF Request
    <3>2. CASE file[q.job][p] # 0
      BY <1>0, <2>1, <2>2, <3>2 DEF Request
    <3> QED
      BY <3>1, <3>2
  <2>4. \A i \in Parts : request'[r].read[i] # 0 => request'[r].read[i] \in Told(q.job, i)
    BY <1>0, <2>1, <2>3 DEF ReadInv, FileInv, Finishing
  <2>5. job[q.job].state = "finishing"
    BY <1>0, <2>1 DEF FinishInv, Finishing
  <2>6. Kept
    BY <2>1 DEF Told
  <2> QED
    BY <1>1, <2>1, <2>3, <2>4, <2>5, <2>6
<1>12. ASSUME NEW r \in Requests, StoreObject(r) \/ StoreFails(r) PROVE ReadInv'
  <2>1. /\ request[r].pc = "assemble" /\ request[r].job \in Jobs
        /\ blobs \subseteq blobs' /\ UNCHANGED h
    BY <1>0, <1>12 DEF StoreObject, StoreFails, At
  <2>2. /\ \A s \in Requests : s # r => request'[s] = request[s]
        /\ request'[r].job = request[r].job /\ request'[r].read = request[r].read
        /\ request'[r].pc = "record" =>
             request[r].read \in blobs' /\ \A p \in Parts : request[r].read[p] # 0
    BY <1>0, <1>12 DEF StoreObject, StoreFails, Request
  <2>3. \A i \in Parts : request[r].read[i] # 0 => request[r].read[i] \in Told(request[r].job, i)
    BY <1>0, <2>1 DEF ReadInv, Finishing
  <2>4. job[request[r].job].state = "finishing"
    BY <1>0, <2>1 DEF FinishInv, Finishing
  <2>5. Kept
    BY <2>1 DEF Told
  <2> QED
    BY <1>1, <2>1, <2>2, <2>3, <2>4, <2>5
<1>13. CASE \E object : video_upload(object)
  BY <1>1, <1>13 DEF video_upload, Told
<1>14. CASE Restart({}) \/ \E r \in Renamed : Restart({r})
  <2>1. request' = [r \in Requests |-> Idle]
    BY <1>14 DEF Restart
  <2> QED
    BY <1>i, <2>1 DEF ReadInv, At
<1>15. CASE UNCHANGED vars
  BY <1>1, <1>15 DEF vars, Told
<1> QED
  BY <1>3, <1>4, <1>5, <1>6, <1>7, <1>9, <1>10, <1>11, <1>12, <1>13, <1>14, <1>15
  DEF Next, video_upload_part, video_finish_upload, FinishStep

\* The rows of the sessions that ended, and what they were made of, stay.
LEMMA EndedStep ==
    ASSUME VideoInv, [Next]_vars
    PROVE  /\ CompletedAsSent'
           /\ \A j \in Jobs : job[j].state \in Terminal => job'[j].state = job[j].state
<1>0. /\ request \in [Requests -> Request] /\ TypeOK /\ FinishInv /\ ReadInv /\ CompletedAsSent
      /\ \A r \in Requests : ~At(r, "idle") => request[r].job \in Jobs
      /\ job \in [Jobs -> Row]
  BY DEF VideoInv, TypeOK, Request, Row
<1> DEFINE Ended == \A j \in Jobs : job[j].state \in Terminal => job'[j].state = job[j].state
           Goal == CompletedAsSent' /\ Ended
<1>1. ASSUME Ended, blobs \subseteq blobs',
             \A j \in Jobs : job'[j].state = "completed" =>
                /\ job[j].state = "completed" /\ job'[j].cid = job[j].cid
                /\ \A p \in Parts : Told(j, p) \subseteq Told(j, p)'
      PROVE  Goal
  BY <1>0, <1>1 DEF CompletedAsSent, Told
<1>2. ASSUME Calm, UNCHANGED <<blobs, h>> PROVE Goal
  BY <1>1, <1>2 DEF Calm, Told, Terminal
<1>3. CASE get_status
  BY <1>0, <1>2, <1>3, CalmSteps DEF get_status
<1>4. ASSUME NEW j \in Jobs, start_upload(j) \/ abort_upload(j) \/ DayPasses(j) PROVE Goal
  BY <1>0, <1>2, <1>4, CalmSteps DEF start_upload, abort_upload, DayPasses
<1>5. ASSUME NEW r \in Requests, NEW j \in Jobs, NEW p \in Parts, NEW v \in Versions,
             part_begin(r, j, p, v)
      PROVE  Goal
  BY <1>0, <1>2, <1>5, CalmSteps DEF part_begin
<1>6. ASSUME NEW r \in Requests, NEW j \in Jobs, FinishMark(r, j) PROVE Goal
  BY <1>0, <1>2, <1>6, CalmSteps DEF FinishMark
<1>7. ASSUME NEW r \in Requests, part_finish(r) \/ part_finishFails(r) PROVE Goal
  <2>1. UNCHANGED <<job, blobs>>
    BY <1>0, <1>7, PartEffect
  <2>2. \A j \in Jobs : job[j].state = "completed" => \A p \in Parts : Told(j, p) \subseteq Told(j, p)'
    BY <1>0, <1>7, PartEffect DEF Told
  <2> QED
    BY <1>1, <2>1, <2>2
<1>8. ASSUME UNCHANGED <<job, h>>, blobs \subseteq blobs' PROVE Goal
  BY <1>1, <1>8 DEF Told
<1>9. ASSUME NEW r \in Requests,
             part_free(r) \/ AssemblePart(r) \/ StoreObject(r) \/ StoreFails(r)
      PROVE  Goal
  BY <1>8, <1>9 DEF part_free, AssemblePart, StoreObject, StoreFails
<1>10. ASSUME NEW r \in Requests, FinishRecordFails(r) PROVE Goal
  <2>1. h'.sent = h.sent /\ h'.maybe = h.maybe /\ UNCHANGED <<job, blobs>>
    BY <1>0, <1>10 DEF FinishRecordFails, TypeOK
  <2> QED
    BY <1>1, <2>1 DEF Told
<1>11. ASSUME NEW r \in Requests, FinishFailed(r) \/ FinishReset(r) PROVE Goal
  <2>1. request[r].job \in Jobs /\ job[request[r].job].state = "finishing" /\ UNCHANGED <<h, blobs>>
    BY <1>0, <1>11 DEF FinishFailed, FinishReset, FinishInv, At, Finishing
  <2>2. /\ \A j \in Jobs : j # request[r].job => job'[j] = job[j]
        /\ job'[request[r].job].state # "completed"
    BY <1>0, <1>11, <2>1 DEF FinishFailed, FinishReset, Row
  <2> QED
    BY <1>1, <2>1, <2>2 DEF Told, Terminal
<1>12. ASSUME NEW r \in Requests, FinishRecord(r) PROVE Goal
  <2> DEFINE q == request[r]
  <2>1. q.pc = "record" /\ q.job \in Jobs /\ job[q.job].state = "finishing" /\ UNCHANGED <<h, blobs>>
    BY <1>0, <1>12 DEF FinishRecord, FinishInv, At, Finishing
  <2>2. /\ \A j \in Jobs : j # q.job => job'[j] = job[j]
        /\ job'[q.job].cid = q.read
    BY <1>0, <1>12, <2>1 DEF FinishRecord, Row
  <2>3. q.read \in blobs /\ \A p \in Parts : q.read[p] \in Told(q.job, p)
    BY <1>0, <2>1 DEF ReadInv, At, Finishing
  <2> QED
    BY <1>0, <2>1, <2>2, <2>3 DEF CompletedAsSent, Told, Terminal
<1>13. ASSUME NEW rs \in SUBSET Requests, \A r \in rs : At(r, "write"), Restart(rs) PROVE Goal
  BY <1>0, <1>1, <1>13, RestartEffect DEF Restart, Told
<1>14. CASE \E object : video_upload(object)
  BY <1>8, <1>14 DEF video_upload
<1>15. CASE Restart({}) \/ \E r \in Renamed : Restart({r})
  BY <1>13, <1>15 DEF Renamed
<1>16. CASE UNCHANGED vars
  BY <1>8, <1>16 DEF vars
<1> QED
  BY <1>3, <1>4, <1>5, <1>6, <1>7, <1>9, <1>10, <1>11, <1>12, <1>14, <1>15, <1>16
  DEF Next, video_upload_part, video_finish_upload, FinishStep

-----------------------------------------------------------------------------
(* The theorems.                                                           *)

\* The invariant holds in every state.
LEMMA VideoInvariance == Spec => []VideoInv
<1>1. VideoInv /\ [Next]_vars => VideoInv'
  BY TypeStep, FileStep, FinishStepInv, ReadStep, EndedStep DEF VideoInv
<1> QED
  BY <1>1, InitVideoInv, PTL DEF Spec

\* Whatever parts are repeated, abandoned or cut off, whoever aborts and
\* whenever the server restarts: a completed session's object is stored, and is
\* made part by part of bytes its client was told of.
THEOREM CompletedUploadsAreAsSent == Spec => []CompletedAsSent
<1>1. VideoInv => CompletedAsSent
  BY DEF VideoInv
<1> QED
  BY <1>1, VideoInvariance, PTL

\* No step takes a session out of completed, failed, aborted or expired: in
\* particular not the finish that comes back to the mutex after its assembly.
THEOREM EndedSessionsStayEnded == Spec => TerminalStays
<1>1. VideoInv /\ [Next]_vars =>
        [\A j \in Jobs : job[j].state \in Terminal => job'[j].state = job[j].state]_vars
  BY EndedStep
<1> QED
  BY <1>1, VideoInvariance, PTL DEF Spec, TerminalStays
=============================================================================
