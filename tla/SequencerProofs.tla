---------------------------- MODULE SequencerProofs ----------------------------
(***************************************************************************)
(* The safety properties of the sequencer, proved for any number of        *)
(* consumers, accounts and events, with and without failing statements and *)
(* rebuilt data directories.  None of them is inductive; IInv is.          *)
(***************************************************************************)
EXTENDS SequencerFeed, FiniteSetTheorems, TLAPS

\* The log: its newest row carries the AUTOINCREMENT mark; an event is in the
\* table or was deleted, by one statement or the other; the mark of retention
\* covers every deletion it was written for; and while SQLite does not fail a
\* log in use has caught up with every number the host ever used.
LogInv ==
    /\ TopRowSurvives
    /\ autoinc <= high
    /\ \A s \in issued :
          /\ s <= autoinc
          /\ s \in lost \/ s \in purged \/ \E r \in rows : r.seq = s
    /\ \A s \in lost : s \notin unmarked => s <= pruned
    /\ ~SqliteFails /\ (rows # {} \/ state # "down") => autoinc = high

\* A connection: until its thread runs it has sent nothing and stands where it
\* began; a request that is not refused began within the log; the frame it
\* holds is in the log's range, and whatever the log ever had between the
\* cursor and that frame is deleted.
ConnInv(c) ==
    /\ pc[c] \in {"idle", "asked"} => known[c] = {}
    /\ pc[c] \in {"idle", "asked", "checked", "registered"} => sent[c] = {}
    /\ pc[c] \in {"asked", "checked", "registered"} => start[c] = cursor[c]
    /\ pc[c] = "asked" => err[c] = "none"
    /\ pc[c] # "idle" /\ err[c] = "none" => cursor[c] <= autoinc
    /\ err[c] # "none" => pc[c] # "holding" /\ start[c] = cursor[c]
    /\ pc[c] = "holding" =>
          /\ cursor[c] < frame[c] /\ frame[c] <= autoinc /\ rows # {}
          /\ \A s \in issued : cursor[c] < s /\ s < frame[c] => s \in lost \cup purged
    /\ start[c] <= cursor[c]
    /\ \A s \in sent[c] : start[c] < s /\ s <= cursor[c]
    /\ \A s \in issued :
          pc[c] # "idle" /\ err[c] = "none" /\ start[c] < s /\ s <= cursor[c]
            => s \in sent[c] \cup lost \cup purged
    /\ \A s \in known[c] : start[c] < s => outdated[c] = TRUE

\* What a consumer persisted lies within the one data directory there is.
SavedInv ==
    ~Rebuilds => \A c \in Subs : saved[c] = 0 \/ (rows # {} /\ saved[c] <= autoinc)

\* Nobody is inside subscribe_repos once free() has begun.
Drained == state = "closing" => \A c \in Subs : ~Handling(c)

IInv ==
    /\ TypeOK
    /\ Drained
    /\ FreeWaitsForThreads
    /\ LogInv
    /\ \A c \in Subs : ConnInv(c)
    /\ SavedInv

-----------------------------------------------------------------------------
(* The statements on the log.                                              *)

\* MAX(seq) is the AUTOINCREMENT mark unless the table is empty.
LEMMA CurrentIsTop ==
    ASSUME TypeOK, TopRowSurvives
    PROVE  current_locked(rows) = IF rows = {} THEN 0 ELSE autoinc
<1>1. CASE rows = {}
  BY <1>1 DEF current_locked
<1>2. CASE rows # {}
  <2> DEFINE S == {r.seq : r \in rows}
             Top(m) == \A r \in rows : r.seq <= m
  <2>1. PICK r \in rows : r.seq = autoinc /\ \A q \in rows : q.seq <= r.seq
    BY <1>2 DEF TopRowSurvives
  <2>2. autoinc \in S /\ Top(autoinc)
    BY <2>1
  <2>3. ASSUME NEW m \in S, Top(m) PROVE m = autoinc
    <3>1. m \in Nat /\ autoinc \in Nat
      BY DEF TypeOK, Row
    <3>2. m <= autoinc /\ autoinc <= m
      BY <2>1, <2>2, <2>3
    <3> QED
      BY <3>1, <3>2
  <2>4. (CHOOSE m \in S : Top(m)) = autoinc
    BY <2>2, <2>3, Zenon
  <2>5. current_locked(rows) = CHOOSE m \in S : Top(m)
    BY <1>2, Zenon DEF current_locked
  <2> QED
    BY <1>2, <2>4, <2>5, Zenon
<1> QED
  BY <1>1, <1>2

\* Opening the log leaves a row only at the AUTOINCREMENT mark, and never lowers
\* the mark: the clock outruns every number that was used.
LEMMA SeedsRaise ==
    ASSUME TypeOK, autoinc <= high, NEW s \in Seeds
    PROVE  /\ s.autoinc \in Nat /\ autoinc <= s.autoinc
           /\ s.rows = {} \/ s.rows = {[seq |-> s.autoinc, did |-> None]}
           /\ ~SqliteFails => s.autoinc >= high
<1>1. Now \in Nat /\ high <= Now
  BY SequencerAssumption DEF Now, TypeOK
<1>2. CASE s = [rows |-> {}, autoinc |-> Now]
  BY <1>1, <1>2 DEF TypeOK
<1>3. CASE SqliteFails /\ s = [rows |-> {}, autoinc |-> autoinc]
  BY <1>3 DEF TypeOK
<1>4. CASE SqliteFails /\ s = [rows |-> {[seq |-> Now, did |-> None]}, autoinc |-> Now]
  BY <1>1, <1>4 DEF TypeOK
<1> QED
  BY <1>2, <1>3, <1>4, SequencerAssumption DEF Seeds

\* What a retention pass does, whichever of its statements fail: the rows that go
\* lie below the newest, and each is covered by the mark or known not to be.
LEMMA RetainEffect ==
    ASSUME TypeOK, TopRowSurvives, Retain
    PROVE  \E gone \in SUBSET rows :
              /\ rows' = rows \ gone
              /\ lost' = lost \cup {r.seq : r \in gone}
              /\ unmarked' = unmarked \/ unmarked' = unmarked \cup {r.seq : r \in gone}
              /\ pruned' \in Nat /\ pruned <= pruned'
              /\ \A r \in gone : /\ r.seq < autoinc
                                 /\ r.seq \in unmarked' \/ r.seq <= pruned'
<1> DEFINE cutoff == current_locked(rows) - MinEvents
<1>1. cutoff \in Int /\ (rows # {} => cutoff < autoinc)
  <2>1. current_locked(rows) = IF rows = {} THEN 0 ELSE autoinc
    BY CurrentIsTop
  <2>2. autoinc \in Nat
    BY DEF TypeOK
  <2> QED
    BY <2>1, <2>2, SequencerAssumption
<1>2. CASE UNCHANGED <<rows, pruned, lost, unmarked>>
  <2> WITNESS {} \in SUBSET rows
  <2> QED
    BY <1>2 DEF TypeOK
<1>3. CASE cutoff > 0 /\ ~UNCHANGED <<rows, pruned, lost, unmarked>>
  <2> HIDE DEF cutoff
  <2>1. PICK aged \in 0..cutoff, mark \in BOOLEAN, deletes \in BOOLEAN :
           LET gone == IF deletes THEN Expired(rows, cutoff, aged, None) ELSE {}
               seqs == {r.seq : r \in gone}
           IN /\ rows' = rows \ gone
              /\ pruned' = IF mark THEN MaxOf(pruned, cutoff) ELSE pruned
              /\ lost' = lost \cup seqs
              /\ unmarked' = IF mark THEN unmarked ELSE unmarked \cup seqs
    BY <1>3 DEF Retain, cutoff
  <2> DEFINE gone == IF deletes THEN Expired(rows, cutoff, aged, None) ELSE {}
             seqs == {r.seq : r \in gone}
  <2>2. gone \in SUBSET rows /\ \A r \in gone : r.seq <= cutoff
    BY DEF Expired
  <2> HIDE DEF gone
  <2>3. pruned' \in Nat /\ pruned <= pruned' /\ (mark => cutoff <= pruned')
    BY <1>1, <1>3, <2>1 DEF MaxOf, TypeOK
  <2>4. ASSUME NEW r \in gone
        PROVE  r.seq < autoinc /\ (r.seq \in unmarked' \/ r.seq <= pruned')
    <3>1. r.seq \in Nat /\ r.seq <= cutoff /\ cutoff < autoinc /\ autoinc \in Nat
      BY <1>1, <2>2 DEF TypeOK, Row
    <3>2. mark \/ r.seq \in unmarked'
      BY <2>1 DEF gone
    <3> QED
      BY <1>1, <2>3, <3>1, <3>2
  <2> QED
    BY <2>1, <2>2, <2>3, <2>4 DEF gone
<1> QED
  BY <1>2, <1>3 DEF Retain

-----------------------------------------------------------------------------
(* Every step keeps IInv, one conjunct at a time.                          *)

\* A log that was never opened and nobody subscribed to satisfies the invariant.
LEMMA InitIInv == Init => IInv
<1> SUFFICES ASSUME Init PROVE IInv
  OBVIOUS
<1> USE DEF Init, NoConnections
<1>1. TypeOK
  BY DEF TypeOK, PCs
<1>2. FreeWaitsForThreads
  <2>1. {c \in Subs : Counted(c)} = {}
    BY DEF Counted
  <2> QED
    BY <2>1, FS_EmptySet DEF FreeWaitsForThreads
<1>3. LogInv
  BY <1>1 DEF LogInv, TopRowSurvives, TypeOK
<1>4. ASSUME NEW c \in Subs PROVE ConnInv(c)
  <2>1. /\ pc[c] = "idle" /\ err[c] = "none" /\ start[c] = 0 /\ cursor[c] = 0
        /\ known[c] = {} /\ sent[c] = {} /\ issued = {}
    OBVIOUS
  <2>2. start[c] \in Nat /\ cursor[c] \in Nat
    BY <2>1
  <2> QED
    BY ONLY <2>1, <2>2 DEF ConnInv
<1>5. SavedInv /\ Drained
  BY DEF SavedInv, Drained
<1> QED
  BY <1>1, <1>2, <1>3, <1>4, <1>5 DEF IInv

\* A thread that is counted keeps the counter positive.
LEMMA CountedPositive ==
    ASSUME FreeWaitsForThreads, NEW c \in Subs, Counted(c)
    PROVE  active \in Nat /\ active > 0
<1> DEFINE S == {d \in Subs : Counted(d)}
<1>1. IsFiniteSet(S)
  BY FS_Subset, SequencerAssumption
<1>2. S # {}
  OBVIOUS
<1>3. active = Cardinality(S)
  BY DEF FreeWaitsForThreads
<1> HIDE DEF S
<1> QED
  BY <1>1, <1>2, <1>3, FS_EmptySet, FS_CardinalityType

\* The values keep their types: a counter that stands for the threads there are
\* is positive when one of them is taken off it.
LEMMA TypeStep ==
    ASSUME IInv, [Next]_vars
    PROVE  TypeOK'
<1> USE SequencerAssumption DEF IInv, TypeOK, Row, PCs, logVars, procVars, connVars, histVars
<1>1. CASE UNCHANGED vars
  BY <1>1 DEF vars
<1>2. CASE Open
  <2>1. CASE rows # {}
    BY <1>2, <2>1 DEF Open, seed_sequence_floor
  <2>2. CASE rows = {}
    <3>1. PICK s \in Seeds : rows' = s.rows /\ autoinc' = s.autoinc
                               /\ high' = MaxOf(high, s.autoinc)
      BY <1>2, <2>2 DEF Open, seed_sequence_floor
    <3>2. s.autoinc \in Nat /\ (s.rows = {} \/ s.rows = {[seq |-> s.autoinc, did |-> None]})
      BY SeedsRaise DEF LogInv
    <3> QED
      BY <1>2, <3>1, <3>2 DEF Open, MaxOf
  <2> QED
    BY <2>1, <2>2
<1>3. CASE CrashWhileSeeding
  BY <1>3 DEF CrashWhileSeeding, Now
<1>4. CASE Retain
  <2>1. PICK gone \in SUBSET rows :
           /\ rows' = rows \ gone
           /\ lost' = lost \cup {r.seq : r \in gone}
           /\ unmarked' = unmarked \/ unmarked' = unmarked \cup {r.seq : r \in gone}
           /\ pruned' \in Nat
    BY <1>4, RetainEffect DEF LogInv
  <2>2. {r.seq : r \in gone} \subseteq Nat
    OBVIOUS
  <2> QED
    BY <1>4, <2>1, <2>2 DEF Retain
<1>5. CASE BeginFree \/ EndFree
  BY <1>5 DEF BeginFree, EndFree
<1>6. CASE Crash
  BY <1>6 DEF Crash, Released
<1>7. CASE Rebuild
  BY <1>7 DEF Rebuild
<1>8. ASSUME NEW did \in Accounts, append_event(did) PROVE TypeOK'
  BY <1>8 DEF append_event, MaxOf
<1>9. ASSUME NEW did \in Accounts, purge_account(did) PROVE TypeOK'
  <2>1. Superseded(rows, did) \subseteq rows
    BY DEF Superseded, OfAccount
  <2>2. {r.seq : r \in Superseded(rows, did)} \subseteq Nat
    BY <2>1
  <2> QED
    BY <1>9, <2>1, <2>2 DEF purge_account
<1>10. ASSUME NEW c \in Subs, ReadCurrent(c) PROVE TypeOK'
  <2>1. current_locked(rows) \in Nat
    BY CurrentIsTop DEF LogInv
  <2>2. PICK w \in CursorParams(c) :
           /\ cursor' = [cursor EXCEPT ![c] = IF w >= 0 THEN w ELSE current_locked(rows)]
           /\ start' = [start EXCEPT ![c] = IF w >= 0 THEN w ELSE current_locked(rows)]
    BY <1>10 DEF ReadCurrent
  <2>3. w \in Int
    BY DEF CursorParams, Absent, Malformed
  <2> QED
    BY <1>10, <2>1, <2>2, <2>3 DEF ReadCurrent
<1>11. ASSUME NEW c \in Subs, CheckPruned(c) PROVE TypeOK'
  BY <1>11 DEF CheckPruned
<1>12. ASSUME NEW c \in Subs, Register(c) \/ SpawnWorker(c) \/ Disconnect(c) PROVE TypeOK'
  <2>1. CASE Register(c)
    BY <2>1 DEF Register
  <2>2. CASE SpawnWorker(c)
    BY <2>2 DEF SpawnWorker
  <2>3. CASE Disconnect(c)
    BY <2>3 DEF Disconnect
  <2> QED
    BY <1>12, <2>1, <2>2, <2>3
<1>13. ASSUME NEW c \in Subs, Refuse(c) PROVE TypeOK'
  BY <1>13 DEF Refuse, Released
<1>14. ASSUME NEW c \in Subs, SpawnFails(c) PROVE TypeOK'
  <2>1. active' \in Nat
    BY <1>14, CountedPositive DEF SpawnFails, Counted
  <2> QED
    BY <1>14, <2>1 DEF SpawnFails, Released
<1>15. ASSUME NEW c \in Subs, WorkerExit(c) PROVE TypeOK'
  BY <1>15 DEF WorkerExit, Released
<1>16. ASSUME NEW c \in Subs, ReadNext(c) PROVE TypeOK'
  BY <1>16 DEF ReadNext, read_next_locked, After
<1>17. ASSUME NEW c \in Subs, SendFrame(c) PROVE TypeOK'
  BY <1>17 DEF SendFrame
<1>18. ASSUME NEW c \in Subs, LeaveLoop(c) PROVE TypeOK'
  BY <1>18 DEF LeaveLoop
<1> QED
  BY <1>1, <1>2, <1>3, <1>4, <1>5, <1>6, <1>7, <1>8, <1>9, <1>10, <1>11, <1>12,
     <1>13, <1>14, <1>15, <1>16, <1>17, <1>18
  DEF Next, Process, Handler, Worker, ReplyError, SendFails, LeaveOnClose, LeaveOnFailure

\* free() starts only once wf_xrpc_server_free has ended the handlers, and none
\* starts after it.
LEMMA DrainedStep ==
    ASSUME IInv, [Next]_vars
    PROVE  Drained'
<1> USE DEF IInv, TypeOK, Drained, Handling, vars, logVars, procVars, connVars, histVars
<1>1. CASE UNCHANGED vars
  BY <1>1
<1>2. CASE Process
  <2>1. state' # "closing" \/ BeginFree \/ (state' = state /\ pc' = pc)
    BY <1>2 DEF Process, Open, CrashWhileSeeding, Retain, EndFree, Crash, Rebuild,
       append_event, purge_account
  <2> QED
    BY <2>1 DEF BeginFree
<1>3. ASSUME NEW c \in Subs, Handler(c) PROVE Drained'
  <2>1. state = "open" \/ pc[c] \in {"asked", "checked", "registered"}
    BY <1>3 DEF Handler, ReadCurrent, CheckPruned, Register, Refuse, SpawnWorker, SpawnFails
  <2>2. state # "closing"
    BY <2>1
  <2>3. state' = state
    BY <1>3 DEF Handler, ReadCurrent, CheckPruned, Register, Refuse, SpawnWorker, SpawnFails
  <2> QED
    BY <2>2, <2>3
<1>4. ASSUME NEW c \in Subs, Worker(c) \/ Disconnect(c) PROVE Drained'
  <2>1. /\ state' = state
        /\ \A d \in Subs : pc'[d] # pc[d] => pc'[d] \in {"idle", "run", "holding", "exit"}
    BY <1>4 DEF Worker, ReplyError, ReadNext, SendFrame, SendFails, LeaveOnClose,
       LeaveOnFailure, LeaveLoop, WorkerExit, Released, Disconnect
  <2> QED
    BY <2>1
<1> QED
  BY <1>1, <1>2, <1>3, <1>4 DEF Next

\* The counter moves with the set of threads it stands for, and the process is
\* down only when there are none.
LEMMA CountStep ==
    ASSUME IInv, [Next]_vars
    PROVE  FreeWaitsForThreads'
<1> DEFINE S == {d \in Subs : Counted(d)}
<1>0. IsFiniteSet(S) /\ active = Cardinality(S) /\ Cardinality(S) \in Nat
  BY FS_Subset, FS_CardinalityType, SequencerAssumption DEF IInv, FreeWaitsForThreads
<1>1. ASSUME active' = active, pc' = pc, state' # "down" \/ state' = state
      PROVE  FreeWaitsForThreads'
  BY <1>1 DEF IInv, FreeWaitsForThreads, Counted
<1>2. ASSUME NEW c \in Subs, state' = state, state # "down",
             \A d \in Subs : d # c => pc'[d] = pc[d],
             \/ active' = active /\ (Counted(c) <=> Counted(c)')
             \/ active' = active + 1 /\ ~Counted(c) /\ Counted(c)'
             \/ active' = active - 1 /\ Counted(c) /\ ~Counted(c)'
      PROVE  FreeWaitsForThreads'
  <2>1. \A d \in Subs : d # c => (Counted(d)' <=> Counted(d))
    BY <1>2 DEF Counted
  <2>3. CASE active' = active /\ (Counted(c) <=> Counted(c)')
    <3>1. S' = S
      BY <2>1, <2>3
    <3> QED
      BY <1>0, <1>2, <2>3, <3>1 DEF FreeWaitsForThreads
  <2>4. CASE active' = active + 1 /\ ~Counted(c) /\ Counted(c)'
    <3>1. S' = S \cup {c} /\ c \notin S
      BY <2>1, <2>4
    <3>2. Cardinality(S \cup {c}) = Cardinality(S) + 1
      BY <1>0, <3>1, FS_AddElement
    <3> QED
      BY <1>0, <1>2, <2>4, <3>1, <3>2 DEF FreeWaitsForThreads
  <2>5. CASE active' = active - 1 /\ Counted(c) /\ ~Counted(c)'
    <3>1. S' = S \ {c} /\ c \in S
      BY <2>1, <2>5
    <3>2. Cardinality(S \ {c}) = Cardinality(S) - 1
      BY <1>0, <3>1, FS_RemoveElement
    <3> QED
      BY <1>0, <1>2, <2>5, <3>1, <3>2 DEF FreeWaitsForThreads
  <2> QED
    BY <1>2, <2>3, <2>4, <2>5
<1>3. ASSUME NEW c \in Subs, pc[c] # "idle" \/ state = "open" PROVE state # "down"
  BY <1>3 DEF IInv, FreeWaitsForThreads
<1> HIDE DEF S
<1> USE DEF Counted, vars, logVars, procVars, connVars, histVars
<1>4. CASE UNCHANGED vars
  BY <1>1, <1>4
<1>5. CASE Open \/ CrashWhileSeeding \/ Retain \/ BeginFree \/ Rebuild
  BY <1>1, <1>5 DEF Open, CrashWhileSeeding, Retain, BeginFree, Rebuild
<1>6. CASE EndFree
  <2>1. S = {}
    BY <1>0, <1>6, FS_EmptySet DEF EndFree
  <2>2. \A d \in Subs : pc[d] = "idle"
    BY <1>6, <2>1 DEF EndFree, S, IInv, TypeOK, PCs, Drained, Handling
  <2> QED
    BY <1>0, <1>6, <2>2 DEF EndFree, FreeWaitsForThreads, S
<1>7. CASE Crash
  <2>1. \A d \in Subs : pc'[d] = "idle"
    BY <1>7 DEF Crash, Released
  <2>2. {d \in Subs : Counted(d)}' = {}
    BY <2>1
  <2> QED
    BY <1>7, <2>1, <2>2, FS_EmptySet DEF Crash, FreeWaitsForThreads
<1>8. ASSUME NEW did \in Accounts, append_event(did) \/ purge_account(did)
      PROVE  FreeWaitsForThreads'
  BY <1>1, <1>8 DEF append_event, purge_account
<1>9. ASSUME NEW c \in Subs, Handler(c) PROVE FreeWaitsForThreads'
  <2>1. CASE ReadCurrent(c) \/ CheckPruned(c) \/ SpawnWorker(c) \/ Refuse(c)
    BY <1>2, <1>3, <2>1
    DEF ReadCurrent, CheckPruned, SpawnWorker, Refuse, Released, IInv, TypeOK
  <2>2. CASE Register(c)
    BY <1>2, <1>3, <2>2 DEF Register, IInv, TypeOK
  <2>3. CASE SpawnFails(c)
    BY <1>2, <1>3, <2>3 DEF SpawnFails, Released, IInv, TypeOK
  <2> QED
    BY <1>9, <2>1, <2>2, <2>3 DEF Handler
<1>10. ASSUME NEW c \in Subs, Worker(c) \/ Disconnect(c) PROVE FreeWaitsForThreads'
  <2>1. CASE LeaveLoop(c) /\ pc[c] \in {"run", "holding"}
    BY <1>2, <1>3, <2>1 DEF LeaveLoop, IInv, TypeOK
  <2>2. CASE ReadNext(c) \/ SendFrame(c)
    BY <1>2, <1>3, <2>2 DEF ReadNext, SendFrame, IInv, TypeOK
  <2>3. CASE WorkerExit(c)
    <3>1. active' = active - 1
      BY <2>3, CountedPositive DEF WorkerExit, IInv
    <3> QED
      BY <1>2, <1>3, <2>3, <3>1 DEF WorkerExit, Released, IInv, TypeOK
  <2>4. CASE Disconnect(c)
    BY <1>1, <2>4 DEF Disconnect
  <2> QED
    BY <1>10, <2>1, <2>2, <2>3, <2>4
    DEF Worker, ReplyError, SendFails, LeaveOnClose, LeaveOnFailure
<1> QED
  BY <1>4, <1>5, <1>6, <1>7, <1>8, <1>9, <1>10 DEF Next, Process

\* The statements on the log keep its invariant; everything else leaves it alone.
LEMMA LogStep ==
    ASSUME IInv, [Next]_vars
    PROVE  LogInv'
<1> USE DEF IInv, vars, logVars, procVars, connVars, histVars
<1>0. TypeOK' /\ TypeOK
  BY TypeStep
<1>1. ASSUME UNCHANGED <<logVars, histVars>>, state = "down" => state' = "down"
      PROVE  LogInv'
  BY <1>1 DEF LogInv, TopRowSurvives
<1>2. CASE Open
  <2>1. CASE rows # {}
    BY <1>2, <2>1 DEF Open, seed_sequence_floor, LogInv, TopRowSurvives
  <2>2. CASE rows = {}
    <3>1. PICK s \in Seeds : rows' = s.rows /\ autoinc' = s.autoinc
                               /\ high' = MaxOf(high, s.autoinc)
      BY <1>2, <2>2 DEF Open, seed_sequence_floor
    <3>2. /\ s.autoinc \in Nat /\ autoinc <= s.autoinc
          /\ s.rows = {} \/ s.rows = {[seq |-> s.autoinc, did |-> None]}
          /\ ~SqliteFails => s.autoinc >= high
      BY SeedsRaise DEF LogInv
    <3>3. TopRowSurvives'
      BY <1>0, <3>1, <3>2 DEF TopRowSurvives, TypeOK
    <3>4. autoinc <= autoinc' /\ autoinc' <= high' /\ (~SqliteFails => autoinc' = high')
      <4>1. high \in Nat /\ autoinc \in Nat
        BY <1>0 DEF TypeOK
      <4> QED
        BY <3>1, <3>2, <4>1 DEF MaxOf
    <3> QED
      BY <1>0, <1>2, <2>2, <3>3, <3>4 DEF Open, LogInv, TypeOK
  <2> QED
    BY <2>1, <2>2
<1>3. CASE CrashWhileSeeding
  <2>1. autoinc' = high' /\ high <= high' /\ rows' = {[seq |-> autoinc', did |-> None]}
    BY <1>0, <1>3, SequencerAssumption DEF CrashWhileSeeding, Now, TypeOK
  <2>2. TopRowSurvives'
    BY <1>0, <2>1 DEF TopRowSurvives, TypeOK
  <2> QED
    BY <1>0, <1>3, <2>1, <2>2 DEF CrashWhileSeeding, LogInv, TypeOK
<1>4. CASE Retain
  <2>1. PICK gone \in SUBSET rows :
           /\ rows' = rows \ gone
           /\ lost' = lost \cup {r.seq : r \in gone}
           /\ unmarked' = unmarked \/ unmarked' = unmarked \cup {r.seq : r \in gone}
           /\ pruned' \in Nat /\ pruned <= pruned'
           /\ \A r \in gone : /\ r.seq < autoinc
                              /\ r.seq \in unmarked' \/ r.seq <= pruned'
    BY <1>0, <1>4, RetainEffect DEF LogInv
  <2>2. UNCHANGED <<autoinc, high, issued, purged, state>>
    BY <1>4 DEF Retain
  <2>3. TopRowSurvives' /\ (rows' # {} => rows # {})
    BY <1>0, <2>1, <2>2 DEF LogInv, TopRowSurvives, TypeOK, Row
  <2>4. ASSUME NEW s \in lost', s \notin unmarked' PROVE s <= pruned'
    BY <1>0, <2>1, <2>4 DEF LogInv, TypeOK
  <2>5. \A s \in issued' : s \in lost' \/ s \in purged' \/ \E r \in rows' : r.seq = s
    BY <2>1, <2>2 DEF LogInv
  <2> QED
    BY <2>2, <2>3, <2>4, <2>5 DEF LogInv
<1>5. CASE Rebuild
  BY <1>0, <1>5 DEF Rebuild, LogInv, TopRowSurvives, TypeOK
<1>6. CASE BeginFree \/ EndFree \/ Crash
  BY <1>1, <1>6 DEF BeginFree, EndFree, Crash
<1>7. ASSUME NEW did \in Accounts, append_event(did) PROVE LogInv'
  <2> DEFINE new == [seq |-> autoinc + 1, did |-> did]
  <2>1. /\ rows' = rows \cup {new} /\ new.seq = autoinc + 1
        /\ autoinc' = autoinc + 1 /\ issued' = issued \cup {autoinc + 1}
        /\ high' = MaxOf(high, autoinc + 1)
        /\ UNCHANGED <<lost, unmarked, purged, pruned>> /\ state = "open"
    BY <1>7 DEF append_event
  <2> HIDE DEF new
  <2>2. autoinc \in Nat /\ high \in Nat /\ issued \subseteq Nat
    BY <1>0 DEF TypeOK
  <2>3. \A r \in rows : r.seq \in Nat /\ r.seq <= autoinc
    BY <1>0 DEF LogInv, TopRowSurvives, TypeOK, Row
  <2>4. TopRowSurvives'
    BY <2>1, <2>2, <2>3 DEF TopRowSurvives
  <2>5. autoinc' <= high' /\ (autoinc = high => autoinc' = high')
    BY <2>1, <2>2 DEF MaxOf
  <2>6. \A s \in issued' : /\ s <= autoinc'
                           /\ s \in lost' \/ s \in purged' \/ \E r \in rows' : r.seq = s
    BY <2>1, <2>2 DEF LogInv
  <2> QED
    BY <2>1, <2>4, <2>5, <2>6 DEF LogInv
<1>8. ASSUME NEW did \in Accounts, purge_account(did) PROVE LogInv'
  <2> DEFINE gone == Superseded(rows, did)
  <2>1. gone \subseteq rows /\ \A r \in gone : \E q \in rows : r.seq < q.seq
    BY DEF Superseded, OfAccount
  <2> HIDE DEF gone
  <2>2. rows' = rows \ gone /\ purged' = purged \cup {r.seq : r \in gone}
    BY <1>8 DEF purge_account, gone
  <2>3. TopRowSurvives' /\ (rows' # {} => rows # {})
    BY <1>0, <1>8, <2>1, <2>2 DEF purge_account, LogInv, TopRowSurvives, TypeOK, Row
  <2> QED
    BY <1>8, <2>2, <2>3 DEF purge_account, LogInv
<1>9. ASSUME NEW c \in Subs, Handler(c) \/ Worker(c) \/ Disconnect(c) PROVE LogInv'
  BY <1>1, <1>9
  DEF Handler, ReadCurrent, CheckPruned, Register, Refuse, SpawnWorker, SpawnFails,
      Worker, ReplyError, ReadNext, SendFrame, SendFails, LeaveOnClose,
      LeaveOnFailure, LeaveLoop, WorkerExit, Disconnect
<1>10. CASE UNCHANGED vars
  BY <1>1, <1>10
<1> QED
  BY <1>2, <1>3, <1>4, <1>5, <1>6, <1>7, <1>8, <1>9, <1>10 DEF Next, Process

\* What a connection has reached, holds and has been sent stays true of it while
\* the log grows and loses rows, and a step of one connection is a step of no
\* other.
LEMMA ConnStep ==
    ASSUME IInv, [Next]_vars
    PROVE  \A c \in Subs : ConnInv(c)'
<1> USE DEF IInv, vars, logVars, procVars, connVars, histVars
<1>0. TypeOK' /\ TypeOK /\ LogInv'
  BY TypeStep, LogStep
<1>1. ASSUME UNCHANGED connVars, autoinc <= autoinc', rows # {} => rows' # {},
             \A s \in issued' : s \in issued \/ s > autoinc,
             lost \subseteq lost', purged \subseteq purged'
      PROVE  \A c \in Subs : ConnInv(c)'
  <2> SUFFICES ASSUME NEW c \in Subs PROVE ConnInv(c)'
    OBVIOUS
  <2>1. ConnInv(c)
    OBVIOUS
  <2> QED
    BY <1>0, <1>1, <2>1 DEF ConnInv, TypeOK
<1>2. ASSUME NEW c \in Subs, UNCHANGED <<logVars, histVars>>, ConnInv(c)',
             \A d \in Subs : d # c =>
                /\ pc'[d] = pc[d] /\ cursor'[d] = cursor[d] /\ err'[d] = err[d]
                /\ outdated'[d] = outdated[d] /\ frame'[d] = frame[d]
                /\ start'[d] = start[d] /\ sent'[d] = sent[d] /\ known'[d] = known[d]
      PROVE  \A d \in Subs : ConnInv(d)'
  <2> SUFFICES ASSUME NEW d \in Subs, d # c PROVE ConnInv(d)'
    BY <1>2
  <2>1. ConnInv(d)
    OBVIOUS
  <2> QED
    BY <1>2, <2>1 DEF ConnInv
<1>3. ASSUME NEW c \in Subs, TypeOK', pc'[c] = "idle", known'[c] = {}, sent'[c] = {},
             err'[c] = "none", start'[c] = 0, cursor'[c] = 0
      PROVE  ConnInv(c)'
  BY <1>3 DEF ConnInv, TypeOK
<1>4. CASE UNCHANGED vars
  BY <1>4 DEF ConnInv
<1>5. CASE Open
  BY <1>1, <1>5, SeedsRaise DEF Open, seed_sequence_floor, LogInv, TypeOK
<1>6. CASE CrashWhileSeeding
  BY <1>0, <1>1, <1>6, SequencerAssumption DEF CrashWhileSeeding, Now, LogInv, TypeOK
<1>7. CASE Retain
  <2>1. rows # {} => rows' # {}
    <3>1. PICK gone \in SUBSET rows : /\ rows' = rows \ gone
                                      /\ \A r \in gone : r.seq < autoinc
      BY <1>7, RetainEffect DEF LogInv
    <3> QED
      BY <3>1 DEF LogInv, TopRowSurvives, TypeOK
  <2>2. lost \subseteq lost'
    BY <1>7, RetainEffect DEF LogInv
  <2> QED
    BY <1>1, <1>7, <2>1, <2>2 DEF Retain, TypeOK
<1>8. CASE Rebuild
  <2> SUFFICES ASSUME NEW c \in Subs PROVE ConnInv(c)'
    OBVIOUS
  <2>1. ConnInv(c) /\ pc[c] = "idle"
    BY <1>8 DEF Rebuild, FreeWaitsForThreads
  <2> QED
    BY <1>0, <1>8, <2>1 DEF Rebuild, ConnInv, TypeOK
<1>9. CASE BeginFree \/ EndFree
  BY <1>1, <1>9 DEF BeginFree, EndFree, TypeOK
<1>10. CASE Crash
  BY <1>0, <1>3, <1>10 DEF Crash, Released
<1>11. ASSUME NEW did \in Accounts, append_event(did) PROVE \A c \in Subs : ConnInv(c)'
  BY <1>1, <1>11 DEF append_event, TypeOK
<1>12. ASSUME NEW did \in Accounts, purge_account(did) PROVE \A c \in Subs : ConnInv(c)'
  <2>1. rows # {} => rows' # {}
    <3>1. \A r \in Superseded(rows, did) : \E q \in rows : r.seq < q.seq
      BY DEF Superseded, OfAccount
    <3> QED
      BY <1>0, <1>12, <3>1 DEF purge_account, LogInv, TopRowSurvives, TypeOK, Row
  <2> QED
    BY <1>1, <1>12, <2>1 DEF purge_account, TypeOK
<1>13. ASSUME NEW c \in Subs, ReadCurrent(c) PROVE \A d \in Subs : ConnInv(d)'
  <2> DEFINE current == current_locked(rows)
  <2>1. current \in Nat /\ current <= autoinc
    <3>1. current = IF rows = {} THEN 0 ELSE autoinc
      BY CurrentIsTop DEF LogInv
    <3>2. autoinc \in Nat
      BY DEF TypeOK
    <3> QED
      BY <3>1, <3>2
  <2> HIDE DEF current
  <2>2. PICK w \in CursorParams(c) :
         /\ cursor' = [cursor EXCEPT ![c] = IF w >= 0 THEN w ELSE current]
         /\ start' = [start EXCEPT ![c] = IF w >= 0 THEN w ELSE current]
         /\ err' = [err EXCEPT ![c] = IF w = Malformed THEN "InvalidRequest"
                                      ELSE IF w > current THEN "FutureCursor"
                                      ELSE "none"]
         /\ pc' = [pc EXCEPT ![c] = IF w >= 0 /\ w <= current THEN "asked"
                                    ELSE "checked"]
    BY <1>13 DEF ReadCurrent, current
  <2>3. /\ pc[c] = "idle" /\ known[c] = {} /\ sent[c] = {}
        /\ UNCHANGED <<known, sent, logVars, histVars, outdated, frame>>
    BY <1>13 DEF ReadCurrent, ConnInv
  <2>4. w \in Int /\ (w < 0 => w = Absent \/ w = Malformed)
    BY DEF CursorParams, Absent, Malformed, TypeOK
  <2>5. /\ start'[c] = cursor'[c] /\ start'[c] \in Nat
        /\ pc'[c] \in {"asked", "checked"}
        /\ pc'[c] = "asked" => err'[c] = "none"
        /\ err'[c] = "none" => cursor'[c] <= autoinc
    BY <2>1, <2>2, <2>4 DEF TypeOK, Absent, Malformed
  <2>6. ConnInv(c)'
    BY <1>0, <2>3, <2>5 DEF ConnInv, TypeOK
  <2> QED
    BY <1>2, <2>2, <2>3, <2>6 DEF TypeOK
<1>14. ASSUME NEW c \in Subs, CheckPruned(c) PROVE \A d \in Subs : ConnInv(d)'
  <2>1. ConnInv(c) /\ pc[c] = "asked" /\ pc'[c] = "checked"
    BY <1>14 DEF CheckPruned, TypeOK
  <2>2. ASSUME NEW s \in known'[c], start'[c] < s PROVE outdated'[c] = TRUE
    <3>1. s \in lost /\ s \notin unmarked /\ start'[c] = start[c] /\ cursor[c] = start[c]
      BY <1>14, <2>1, <2>2 DEF CheckPruned, TypeOK, ConnInv
    <3>2. s <= pruned /\ s \in Nat /\ pruned \in Nat /\ start[c] \in Nat
      BY <3>1 DEF LogInv, TypeOK
    <3>3. pruned > 0 /\ cursor[c] < pruned
      BY <2>2, <3>1, <3>2
    <3> QED
      BY <1>14, <3>3 DEF CheckPruned, TypeOK
  <2>3. ConnInv(c)'
    BY <1>0, <1>14, <2>1, <2>2 DEF CheckPruned, ConnInv, TypeOK
  <2> QED
    BY <1>2, <1>14, <2>3 DEF CheckPruned, TypeOK
<1>15. ASSUME NEW c \in Subs, Register(c) \/ SpawnWorker(c) \/ Disconnect(c)
       PROVE  \A d \in Subs : ConnInv(d)'
  <2>1. ConnInv(c)
    OBVIOUS
  <2>2. ConnInv(c)'
    BY <1>15, <2>1 DEF Register, SpawnWorker, Disconnect, ConnInv, TypeOK
  <2> QED
    BY <1>2, <1>15, <2>2 DEF Register, SpawnWorker, Disconnect, TypeOK
<1>16. ASSUME NEW c \in Subs, Refuse(c) \/ SpawnFails(c) \/ WorkerExit(c)
       PROVE  \A d \in Subs : ConnInv(d)'
  <2>1. Released({c}) /\ UNCHANGED <<logVars, histVars>>
    BY <1>16 DEF Refuse, SpawnFails, WorkerExit
  <2>2. ConnInv(c)'
    BY <1>0, <1>3, <2>1 DEF Released
  <2> QED
    BY <1>2, <2>1, <2>2 DEF Released, TypeOK
<1>17. ASSUME NEW c \in Subs, ReadNext(c) PROVE \A d \in Subs : ConnInv(d)'
  <2>1. PICK r \in read_next_locked(rows, cursor[c]) :
           frame' = [frame EXCEPT ![c] = r.seq]
    BY <1>17 DEF ReadNext
  <2>2. r \in rows /\ cursor[c] < r.seq /\ \A q \in rows : q.seq > cursor[c] => r.seq <= q.seq
    BY DEF read_next_locked, After
  <2>3. r.seq \in Nat /\ r.seq <= autoinc
    BY <2>2 DEF LogInv, TopRowSurvives, TypeOK, Row
  <2>4. ASSUME NEW s \in issued, cursor[c] < s, s < r.seq PROVE s \in lost \cup purged
    BY <2>2, <2>3, <2>4 DEF LogInv, TypeOK, Row
  <2>5. ConnInv(c) /\ pc'[c] = "holding" /\ frame'[c] = r.seq
    BY <1>17, <2>1 DEF ReadNext, TypeOK
  <2>6. ConnInv(c)'
    BY <1>17, <2>2, <2>3, <2>4, <2>5 DEF ReadNext, ConnInv, TypeOK
  <2> QED
    BY <1>2, <1>17, <2>1, <2>6 DEF ReadNext, TypeOK
<1>18. ASSUME NEW c \in Subs, SendFrame(c) PROVE \A d \in Subs : ConnInv(d)'
  <2>1. /\ ConnInv(c) /\ pc[c] = "holding" /\ pc'[c] = "run"
        /\ cursor'[c] = frame[c] /\ sent'[c] = sent[c] \cup {frame[c]}
    BY <1>18 DEF SendFrame, TypeOK
  <2>2. ASSUME NEW s \in issued, start[c] < s, s <= frame[c]
        PROVE  s \in sent'[c] \cup lost \cup purged
    <3>1. s \in Nat /\ cursor[c] \in Nat /\ frame[c] \in Nat
      BY DEF TypeOK
    <3>2. CASE s <= cursor[c]
      BY <2>1, <2>2, <3>2 DEF ConnInv
    <3>3. CASE cursor[c] < s /\ s < frame[c]
      BY <2>1, <3>3 DEF ConnInv
    <3>4. CASE s = frame[c]
      BY <2>1, <3>4
    <3> QED
      BY <2>2, <3>1, <3>2, <3>3, <3>4
  <2>3. ConnInv(c)'
    BY <1>0, <1>18, <2>1, <2>2 DEF SendFrame, ConnInv, TypeOK
  <2> QED
    BY <1>2, <1>18, <2>3 DEF SendFrame, TypeOK
<1>19. ASSUME NEW c \in Subs, LeaveLoop(c), pc[c] # "idle" PROVE \A d \in Subs : ConnInv(d)'
  <2>1. ConnInv(c)
    OBVIOUS
  <2>2. ConnInv(c)'
    BY <1>19, <2>1 DEF LeaveLoop, ConnInv, TypeOK
  <2> QED
    BY <1>2, <1>19, <2>2 DEF LeaveLoop, TypeOK
<1> QED
  BY <1>4, <1>5, <1>6, <1>7, <1>8, <1>9, <1>10, <1>11, <1>12, <1>13, <1>14, <1>15,
     <1>16, <1>17, <1>18, <1>19
  DEF Next, Process, Handler, Worker, ReplyError, SendFails, LeaveOnClose, LeaveOnFailure

\* In one data directory nothing that a consumer may have persisted is undone.
LEMMA SavedStep ==
    ASSUME IInv, [Next]_vars
    PROVE  SavedInv'
<1> USE DEF IInv, vars, logVars, procVars, connVars, histVars
<1>0. TypeOK /\ TypeOK' /\ LogInv /\ LogInv'
  BY TypeStep, LogStep
<1>1. ASSUME saved' = saved, autoinc <= autoinc', rows # {} => rows' # {}
      PROVE  SavedInv'
  BY <1>0, <1>1 DEF SavedInv, TypeOK
<1>2. CASE Open
  <2>1. CASE rows # {}
    BY <1>0, <1>1, <1>2, <2>1 DEF Open, seed_sequence_floor, TypeOK
  <2>2. CASE rows = {}
    BY <1>2, <2>2 DEF Open, SavedInv
  <2> QED
    BY <2>1, <2>2
<1>3. CASE CrashWhileSeeding
  BY <1>3 DEF CrashWhileSeeding, SavedInv
<1>4. CASE Retain
  <2>1. PICK gone \in SUBSET rows : /\ rows' = rows \ gone
                                    /\ \A r \in gone : r.seq < autoinc
    BY <1>4, RetainEffect DEF LogInv
  <2>2. rows # {} => rows' # {}
    BY <2>1 DEF LogInv, TopRowSurvives, TypeOK
  <2> QED
    BY <1>0, <1>1, <1>4, <2>2 DEF Retain, TypeOK
<1>5. CASE Rebuild
  BY <1>5 DEF Rebuild, SavedInv
<1>6. CASE BeginFree \/ EndFree \/ Crash
  BY <1>0, <1>1, <1>6 DEF BeginFree, EndFree, Crash, TypeOK
<1>7. ASSUME NEW did \in Accounts, append_event(did) PROVE SavedInv'
  BY <1>0, <1>1, <1>7 DEF append_event, TypeOK
<1>8. ASSUME NEW did \in Accounts, purge_account(did) PROVE SavedInv'
  <2>1. \A r \in Superseded(rows, did) : \E q \in rows : r.seq < q.seq
    BY DEF Superseded, OfAccount
  <2>2. rows # {} => rows' # {}
    BY <1>0, <1>8, <2>1 DEF purge_account, LogInv, TopRowSurvives, TypeOK, Row
  <2> QED
    BY <1>0, <1>1, <1>8, <2>2 DEF purge_account, TypeOK
<1>9. ASSUME NEW c \in Subs, SendFrame(c) PROVE SavedInv'
  <2>1. ConnInv(c) /\ pc[c] = "holding"
    BY <1>9 DEF SendFrame
  <2>2. rows # {} /\ frame[c] <= autoinc
    BY <2>1 DEF ConnInv
  <2>3. \A d \in Subs : saved'[d] = saved[d] \/ saved'[d] = frame[c]
    BY <1>9 DEF SendFrame, TypeOK
  <2> QED
    BY <1>9, <2>2, <2>3 DEF SendFrame, SavedInv
<1>10. ASSUME NEW c \in Subs,
              Handler(c) \/ (Worker(c) /\ ~SendFrame(c)) \/ Disconnect(c)
       PROVE  SavedInv'
  BY <1>10
  DEF Handler, ReadCurrent, CheckPruned, Register, Refuse, SpawnWorker, SpawnFails,
      Worker, ReplyError, ReadNext, SendFails, LeaveOnClose,
      LeaveOnFailure, LeaveLoop, WorkerExit, Disconnect, SavedInv
<1>11. CASE UNCHANGED vars
  BY <1>11 DEF SavedInv
<1> QED
  BY <1>2, <1>3, <1>4, <1>5, <1>6, <1>7, <1>8, <1>9, <1>10, <1>11
  DEF Next, Process, Worker

\* The invariant is inductive: each of its conjuncts is kept by every step.
LEMMA NextIInv == IInv /\ [Next]_vars => IInv'
BY TypeStep, DrainedStep, CountStep, LogStep, ConnStep, SavedStep DEF IInv

-----------------------------------------------------------------------------
(* The theorems.                                                           *)

\* The inductive invariant holds in every state of the sequencer.
THEOREM Invariance == Spec => []IInv
BY InitIInv, NextIInv, PTL DEF Spec

\* Every variable of the sequencer keeps its type; in particular the counter of
\* active subscribers never goes below zero.
THEOREM TypeCorrect == Spec => []TypeOK
<1>1. IInv => TypeOK
  BY DEF IInv
<1> QED
  BY <1>1, Invariance, PTL

\* MAX(seq) is the newest sequence number of a non-empty log: no retention pass
\* and no account deletion removes the newest row.
THEOREM TopRow == Spec => []TopRowSurvives
<1>1. IInv => TopRowSurvives
  BY DEF IInv, LogInv
<1> QED
  BY <1>1, Invariance, PTL

\* No consumer misses an event that is still in the log, however appends,
\* retention, deletions and other consumers interleave with its replay.
THEOREM Completeness == Spec => []StreamComplete
<1>1. IInv => StreamComplete
  BY DEF IInv, ConnInv, StreamComplete
<1> QED
  BY <1>1, Invariance, PTL

\* A connection is sent each event at most once, in increasing order.
THEOREM Increase == Spec => []StreamIncreases
<1>1. IInv => StreamIncreases
  BY DEF IInv, ConnInv, StreamIncreases
<1> QED
  BY <1>1, Invariance, PTL

\* A consumer that resumes at the cursor it persisted is never refused as being
\* in the future of a data directory that was kept.
THEOREM OwnCursor == Spec => []OwnCursorNeverFuture
<1>1. ASSUME IInv PROVE OwnCursorNeverFuture
  <2>1. current_locked(rows) = IF rows = {} THEN 0 ELSE autoinc
    BY <1>1, CurrentIsTop DEF IInv, LogInv
  <2>2. autoinc \in Nat
    BY <1>1 DEF IInv, TypeOK
  <2>3. ASSUME ~Rebuilds, NEW c \in Subs PROVE saved[c] <= current_locked(rows)
    <3>1. saved[c] \in Nat
      BY <1>1 DEF IInv, TypeOK
    <3>2. saved[c] = 0 \/ (rows # {} /\ saved[c] <= autoinc)
      BY <1>1, <2>3 DEF IInv, SavedInv
    <3> QED
      BY <2>1, <2>2, <3>1, <3>2
  <2> QED
    BY <2>3 DEF OwnCursorNeverFuture
<1> QED
  BY <1>1, Invariance, PTL

\* A gap that retention had recorded when the subscription was handled is
\* announced before the replay.
THEOREM GapAnnounced == Spec => []KnownGapAnnounced
<1>1. IInv => KnownGapAnnounced
  BY DEF IInv, ConnInv, KnownGapAnnounced
<1> QED
  BY <1>1, Invariance, PTL

\* free() destroys nothing that a handler or a worker may still use.
THEOREM FreeIsSafe == Spec => []FreeWaitsForThreads
<1>1. IInv => FreeWaitsForThreads
  BY DEF IInv
<1> QED
  BY <1>1, Invariance, PTL

\* A sequence number is handed out once in the life of a host whose SQLite does
\* not fail, across any number of rebuilt data directories.
THEOREM NeverReused == Spec => SeqNeverReused
<1>1. ASSUME IInv, [Next]_vars, ~SqliteFails, NEW s \in issued' \ issued
      PROVE  s > high
  <2>1. PICK did \in Accounts : append_event(did)
    BY <1>1
    DEF Next, Process, Open, CrashWhileSeeding, Retain, BeginFree, EndFree, Crash,
        Rebuild, purge_account, Handler, ReadCurrent, CheckPruned, Register, Refuse,
        SpawnWorker, SpawnFails, Worker, ReplyError, ReadNext, SendFrame, SendFails,
        LeaveOnClose, LeaveOnFailure, LeaveLoop, WorkerExit, Disconnect,
        vars, histVars
  <2>2. s = autoinc + 1 /\ state = "open"
    BY <1>1, <2>1 DEF append_event
  <2>3. autoinc = high /\ autoinc \in Nat
    BY <1>1, <2>2 DEF IInv, LogInv, TypeOK
  <2> QED
    BY <2>2, <2>3
<1>2. IInv /\ [Next]_vars => [~SqliteFails => \A s \in issued' \ issued : s > high]_vars
  BY <1>1
<1> QED
  BY <1>2, Invariance, PTL DEF Spec, SeqNeverReused

-----------------------------------------------------------------------------
(* The sequencer implements the feed (SequencerFeed).  IInv bounds a frame   *)
(* and a cursor by the AUTOINCREMENT mark; the feed speaks of the rows there *)
(* are, and FeedInv adds what relates the two.                               *)

\* A sequence number is one row's; what was deleted lies below the newest row;
\* and the numbers stay within the bound of the instance.
RowsInv ==
    /\ high <= MaxSeq
    /\ \A r, q \in rows : r.seq = q.seq => r = q
    /\ \A s \in lost \cup purged : s < autoinc
    /\ rows = {} => lost = {} /\ purged = {}

\* The frame a worker holds is, or was, an event, and none that can still be
\* read lies between it and the cursor; on an empty log a cursor is at its
\* beginning.
PlaceInv(c) ==
    /\ pc[c] = "holding" =>
          /\ frame[c] \in {r.seq : r \in rows} \cup lost \cup purged
          /\ \A r \in rows : cursor[c] < r.seq => frame[c] <= r.seq
    /\ pc[c] # "idle" /\ err[c] = "none" /\ rows = {} => cursor[c] = 0

FeedInv == RowsInv /\ \A c \in Subs : PlaceInv(c)

-----------------------------------------------------------------------------
(* FeedInv is an invariant.                                                *)

LEMMA InitFeedInv == Init => FeedInv
BY SequencerAssumption DEF Init, NoConnections, FeedInv, RowsInv, PlaceInv

\* What a purge deletes lies below the newest row.
LEMMA PurgeBelowTop ==
    ASSUME TypeOK, TopRowSurvives, NEW did, NEW r \in Superseded(rows, did)
    PROVE  r \in rows /\ r.seq \in Nat /\ r.seq < autoinc
<1>1. PICK q \in rows : r.seq < q.seq /\ r \in rows
  BY DEF Superseded, OfAccount
<1>2. q.seq <= autoinc /\ q.seq \in Nat /\ r.seq \in Nat /\ autoinc \in Nat
  BY <1>1 DEF TopRowSurvives, TypeOK, Row
<1> QED
  BY <1>1, <1>2

LEMMA RowsStep ==
    ASSUME IInv, RowsInv, [Next]_vars
    PROVE  RowsInv'
<1> USE DEF vars, logVars, procVars, connVars, histVars
<1>0. TypeOK /\ LogInv /\ TopRowSurvives /\ TypeOK' /\ LogInv' /\ TopRowSurvives'
  BY NextIInv DEF IInv, LogInv
<1>1. ASSUME UNCHANGED <<rows, autoinc, lost, purged, high>> PROVE RowsInv'
  BY <1>1 DEF RowsInv
<1>2. Now \in Nat /\ Now <= MaxSeq /\ high <= Now
  BY <1>0, SequencerAssumption DEF Now, RowsInv, TypeOK
<1>3. CASE Open
  <2>1. CASE rows # {}
    BY <1>1, <1>3, <2>1 DEF Open, seed_sequence_floor
  <2>2. CASE rows = {}
    <3>1. PICK s \in Seeds : rows' = s.rows /\ autoinc' = s.autoinc
                               /\ high' = MaxOf(high, s.autoinc)
      BY <1>3, <2>2 DEF Open, seed_sequence_floor
    <3>2. s.rows = {} \/ s.rows = {[seq |-> s.autoinc, did |-> None]}
      BY <1>0, <3>1, SeedsRaise DEF LogInv
    <3>3. s.autoinc = Now \/ s.autoinc = autoinc
      BY SequencerAssumption DEF Seeds
    <3>4. high' <= MaxSeq
      BY <1>0, <1>2, <3>1, <3>3, SequencerAssumption DEF MaxOf, LogInv, TypeOK, RowsInv
    <3>5. lost' = {} /\ purged' = {}
      BY <1>3, <2>2 DEF Open, RowsInv
    <3> QED
      BY <3>1, <3>2, <3>4, <3>5 DEF RowsInv
  <2> QED
    BY <2>1, <2>2
<1>4. CASE CrashWhileSeeding
  BY <1>2, <1>4 DEF CrashWhileSeeding, RowsInv
<1>5. CASE Retain
  <2>1. PICK gone \in SUBSET rows :
           /\ rows' = rows \ gone
           /\ lost' = lost \cup {r.seq : r \in gone}
           /\ \A r \in gone : r.seq < autoinc
    BY <1>0, <1>5, RetainEffect
  <2>2. UNCHANGED <<autoinc, purged, high>>
    BY <1>5 DEF Retain
  <2>3. rows' = {} => rows = {}
    BY <1>0, <2>1 DEF TopRowSurvives, TypeOK
  <2> QED
    BY <2>1, <2>2, <2>3 DEF RowsInv
<1>6. CASE Rebuild
  BY <1>6 DEF Rebuild, RowsInv
<1>7. ASSUME NEW did \in Accounts, append_event(did) PROVE RowsInv'
  <2>1. \A r \in rows : r.seq \in Nat /\ r.seq <= autoinc
    BY <1>0 DEF TopRowSurvives, TypeOK, Row
  <2>2. lost \subseteq Nat /\ purged \subseteq Nat /\ autoinc \in Nat /\ high \in Nat
    BY <1>0 DEF TypeOK
  <2> QED
    BY <1>7, <2>1, <2>2, SequencerAssumption DEF append_event, RowsInv, MaxOf
<1>8. ASSUME NEW did \in Accounts, purge_account(did) PROVE RowsInv'
  <2> DEFINE gone == Superseded(rows, did)
  <2>1. \A r \in gone : r \in rows /\ r.seq < autoinc
    BY <1>0, PurgeBelowTop
  <2>2. rows' = rows \ gone /\ purged' = purged \cup {r.seq : r \in gone}
          /\ UNCHANGED <<autoinc, lost, high>>
    BY <1>8 DEF purge_account
  <2>3. rows' = {} => rows = {}
    BY <1>0, <2>1, <2>2 DEF TopRowSurvives, TypeOK
  <2> QED
    BY <2>1, <2>2, <2>3 DEF RowsInv
<1>9. ASSUME NEW c \in Subs, Handler(c) \/ Worker(c) \/ Disconnect(c) PROVE RowsInv'
  BY <1>1, <1>9
  DEF Handler, ReadCurrent, CheckPruned, Register, Refuse, SpawnWorker, SpawnFails,
      Worker, ReplyError, ReadNext, SendFrame, SendFails, LeaveOnClose,
      LeaveOnFailure, LeaveLoop, WorkerExit, Disconnect
<1>10. CASE BeginFree \/ EndFree \/ Crash \/ UNCHANGED vars
  BY <1>1, <1>10 DEF BeginFree, EndFree, Crash
<1> QED
  BY <1>3, <1>4, <1>5, <1>6, <1>7, <1>8, <1>9, <1>10 DEF Next, Process

LEMMA PlaceStep ==
    ASSUME IInv, FeedInv, [Next]_vars
    PROVE  \A c \in Subs : PlaceInv(c)'
<1> USE DEF vars, logVars, procVars, connVars, histVars
<1>0. /\ TypeOK /\ LogInv /\ TopRowSurvives /\ RowsInv
      /\ TypeOK' /\ TopRowSurvives' /\ RowsInv'
  BY NextIInv, RowsStep DEF IInv, LogInv, FeedInv
<1>1. \A c \in Subs : PlaceInv(c) /\ ConnInv(c)
  BY DEF FeedInv, IInv
\* A step on the log alone: events are added above the mark, or deleted.
<1>2. ASSUME UNCHANGED <<pc, cursor, err, frame>>, rows # {} => rows' # {},
             \A r \in rows' : r \in rows \/ r.seq > autoinc,
             {r.seq : r \in rows} \cup lost \cup purged
                \subseteq {r.seq : r \in rows'} \cup lost' \cup purged'
      PROVE  \A c \in Subs : PlaceInv(c)'
  <2> SUFFICES ASSUME NEW c \in Subs PROVE PlaceInv(c)'
    OBVIOUS
  <2>1. PlaceInv(c) /\ ConnInv(c)
    BY <1>1
  <2>2. cursor[c] \in Nat /\ frame[c] \in Nat /\ autoinc \in Nat
          /\ \A r \in rows' : r.seq \in Nat
    BY <1>0 DEF TypeOK, Row
  <2> QED
    BY <1>2, <2>1, <2>2 DEF PlaceInv, ConnInv
\* A step of one connection.
<1>3. ASSUME NEW c \in Subs, PlaceInv(c)', UNCHANGED <<rows, lost, purged>>,
             \A d \in Subs : d # c =>
                /\ pc'[d] = pc[d] /\ cursor'[d] = cursor[d]
                /\ err'[d] = err[d] /\ frame'[d] = frame[d]
      PROVE  \A d \in Subs : PlaceInv(d)'
  BY <1>1, <1>3 DEF PlaceInv
<1>4. CASE Open
  <2>1. CASE rows # {}
    BY <1>2, <1>4, <2>1 DEF Open, seed_sequence_floor
  <2>2. CASE rows = {}
    <3>1. \A c \in Subs : pc[c] = "idle"
      BY <1>4 DEF Open, IInv, FreeWaitsForThreads
    <3> QED
      BY <1>4, <3>1 DEF Open, PlaceInv
  <2> QED
    BY <2>1, <2>2
<1>5. CASE CrashWhileSeeding \/ Rebuild
  <2>1. \A c \in Subs : pc[c] = "idle"
    BY <1>5 DEF CrashWhileSeeding, Rebuild, IInv, FreeWaitsForThreads
  <2> QED
    BY <1>5, <2>1 DEF CrashWhileSeeding, Rebuild, PlaceInv
<1>6. CASE Retain
  <2>1. PICK gone \in SUBSET rows :
           /\ rows' = rows \ gone
           /\ lost' = lost \cup {r.seq : r \in gone}
           /\ \A r \in gone : r.seq < autoinc
    BY <1>0, <1>6, RetainEffect
  <2>2. rows # {} => rows' # {}
    BY <1>0, <2>1 DEF TopRowSurvives, TypeOK
  <2> QED
    BY <1>2, <1>6, <2>1, <2>2 DEF Retain
<1>7. ASSUME NEW did \in Accounts, append_event(did) PROVE \A c \in Subs : PlaceInv(c)'
  BY <1>0, <1>2, <1>7 DEF append_event, TypeOK
<1>8. ASSUME NEW did \in Accounts, purge_account(did) PROVE \A c \in Subs : PlaceInv(c)'
  <2>1. \A r \in Superseded(rows, did) : r.seq < autoinc
    BY <1>0, PurgeBelowTop
  <2>2. rows # {} => rows' # {}
    BY <1>0, <1>8, <2>1 DEF purge_account, TopRowSurvives, TypeOK
  <2> QED
    BY <1>2, <1>8, <2>2 DEF purge_account
<1>9. CASE Crash
  BY <1>9 DEF Crash, Released, PlaceInv
<1>10. CASE BeginFree \/ EndFree \/ UNCHANGED vars
  BY <1>1, <1>10 DEF BeginFree, EndFree, PlaceInv
<1>11. ASSUME NEW c \in Subs, ReadCurrent(c) PROVE \A d \in Subs : PlaceInv(d)'
  <2>1. PICK w \in CursorParams(c) :
           /\ cursor' = [cursor EXCEPT ![c] = IF w >= 0 THEN w ELSE current_locked(rows)]
           /\ err' = [err EXCEPT ![c] = IF w = Malformed THEN "InvalidRequest"
                                        ELSE IF w > current_locked(rows) THEN "FutureCursor"
                                        ELSE "none"]
           /\ pc' = [pc EXCEPT ![c] = IF w >= 0 /\ w <= current_locked(rows) THEN "asked"
                                      ELSE "checked"]
    BY <1>11 DEF ReadCurrent
  <2>2. rows = {} => current_locked(rows) = 0
    BY DEF current_locked
  <2>3. w \in Int
    BY <1>0 DEF CursorParams, TypeOK, Absent, Malformed
  <2>4. rows = {} /\ err'[c] = "none" => cursor'[c] = 0
    BY <1>0, <2>1, <2>2, <2>3 DEF TypeOK
  <2>5. pc'[c] # "holding" /\ UNCHANGED <<rows, lost, purged, frame>>
    BY <1>0, <1>11, <2>1 DEF ReadCurrent, TypeOK
  <2>6. PlaceInv(c)'
    BY <2>4, <2>5 DEF PlaceInv
  <2> QED
    BY <1>0, <1>3, <2>1, <2>5, <2>6 DEF TypeOK
<1>12. ASSUME NEW c \in Subs, CheckPruned(c) \/ Register(c) \/ SpawnWorker(c) \/ Disconnect(c)
       PROVE \A d \in Subs : PlaceInv(d)'
  <2>1. PlaceInv(c)'
    BY <1>0, <1>1, <1>12
    DEF CheckPruned, Register, SpawnWorker, Disconnect, PlaceInv, TypeOK, Counted
  <2> QED
    BY <1>0, <1>3, <1>12, <2>1 DEF CheckPruned, Register, SpawnWorker, Disconnect, TypeOK
<1>13. ASSUME NEW c \in Subs, Refuse(c) \/ SpawnFails(c) \/ WorkerExit(c)
       PROVE \A d \in Subs : PlaceInv(d)'
  BY <1>1, <1>13 DEF Refuse, SpawnFails, WorkerExit, Released, PlaceInv
<1>14. ASSUME NEW c \in Subs, LeaveLoop(c), pc[c] # "idle"
       PROVE \A d \in Subs : PlaceInv(d)'
  BY <1>0, <1>1, <1>14 DEF LeaveLoop, PlaceInv, TypeOK
<1>15. ASSUME NEW c \in Subs, ReadNext(c) PROVE \A d \in Subs : PlaceInv(d)'
  <2>1. PICK r \in read_next_locked(rows, cursor[c]) : frame' = [frame EXCEPT ![c] = r.seq]
    BY <1>15 DEF ReadNext
  <2>2. r \in rows /\ \A q \in rows : q.seq > cursor[c] => r.seq <= q.seq
    BY DEF read_next_locked, After
  <2>3. \A q \in rows : q.seq \in Nat
    BY <1>0 DEF TypeOK, Row
  <2>4. PlaceInv(c)'
    BY <1>0, <1>1, <1>15, <2>1, <2>2, <2>3 DEF ReadNext, PlaceInv, TypeOK
  <2> QED
    BY <1>0, <1>3, <1>15, <2>1, <2>4 DEF ReadNext, TypeOK
<1>16. ASSUME NEW c \in Subs, SendFrame(c) PROVE \A d \in Subs : PlaceInv(d)'
  <2>1. rows # {}
    BY <1>1, <1>16 DEF SendFrame, ConnInv
  <2>2. PlaceInv(c)'
    BY <1>0, <1>16, <2>1 DEF SendFrame, PlaceInv, TypeOK
  <2> QED
    BY <1>0, <1>3, <1>16, <2>2 DEF SendFrame, TypeOK
<1> QED
  BY <1>4, <1>5, <1>6, <1>7, <1>8, <1>9, <1>10, <1>11, <1>12, <1>13, <1>14, <1>15, <1>16
  DEF Next, Process, Handler, Worker, ReplyError, SendFails, LeaveOnClose, LeaveOnFailure

LEMMA FeedInvariance == Spec => [](IInv /\ FeedInv)
<1>1. IInv /\ FeedInv /\ [Next]_vars => FeedInv'
  BY RowsStep, PlaceStep DEF FeedInv
<1> QED
  BY <1>1, InitFeedInv, InitIInv, NextIInv, PTL DEF Spec

-----------------------------------------------------------------------------
(* The refinement.                                                         *)

\* The feed's newest event is the one the AUTOINCREMENT mark counts.
LEMMA NewestIsTop ==
    ASSUME TypeOK, TopRowSurvives
    PROVE  Promised!Newest = IF rows = {} THEN 0 ELSE autoinc
<1> DEFINE S == {r.seq : r \in rows}
           Top(m) == \A s \in S : s <= m
           newest == CHOOSE m \in S : Top(m)
<1>1. Promised!Newest = IF S = {} THEN 0 ELSE newest
  BY DEF Promised!Newest
<1>2. CASE rows = {}
  BY <1>1, <1>2
<1>3. CASE rows # {}
  <2>1. PICK r \in rows : r.seq = autoinc /\ \A q \in rows : q.seq <= r.seq
    BY <1>3 DEF TopRowSurvives
  <2>2. autoinc \in S /\ Top(autoinc)
    BY <2>1
  <2>3. ASSUME NEW m \in S, Top(m) PROVE m = autoinc
    <3>1. m \in Nat /\ autoinc \in Nat
      BY DEF TypeOK, Row
    <3>2. m <= autoinc /\ autoinc <= m
      BY <2>2, <2>3
    <3> QED
      BY <3>1, <3>2
  <2>4. newest = autoinc
    BY <2>2, <2>3, Zenon
  <2>5. S # {}
    BY <1>3
  <2> HIDE DEF newest, S
  <2> QED
    BY <1>1, <1>3, <2>4, <2>5
<1> QED
  BY <1>2, <1>3

\* A row that appears alone above every number there was is a publication.
LEMMA PublishStep ==
    ASSUME NEW s \in 1..MaxSeq, NEW did,
           \A p \in {r.seq : r \in rows} \cup lost \cup purged : p < s,
           rows' = rows \cup {[seq |-> s, did |-> did]},
           UNCHANGED <<lost, purged, pc, err, cursor, sent>>
    PROVE  Promised!Publish(s)
<1>1. {r.seq : r \in rows}' = {r.seq : r \in rows} \cup {s}
  <2> DEFINE new == [seq |-> s, did |-> did]
  <2>1. new.seq = s
    OBVIOUS
  <2> HIDE DEF new
  <2>2. {r.seq : r \in rows \cup {new}} = {r.seq : r \in rows} \cup {new.seq}
    OBVIOUS
  <2> QED
    BY <2>1, <2>2 DEF new
<1>2. Streaming' = Streaming
  BY DEF Streaming
<1>3. UNCHANGED << [c \in Subs |-> IF c \in Streaming THEN cursor[c] ELSE 0],
                   [c \in Subs |-> IF c \in Streaming THEN sent[c] ELSE {}] >>
  BY <1>2
<1> QED
  BY <1>1, <1>2, <1>3 DEF Promised!Publish, Promised!Published

\* Rows that leave the table and are remembered as lost or purged, but for the
\* newest, are a withdrawal.
LEMMA WithdrawStep ==
    ASSUME TypeOK, TopRowSurvives, RowsInv, NEW gone \in SUBSET rows,
           \A r \in gone : r.seq < autoinc,
           rows' = rows \ gone,
           lost' \cup purged' = lost \cup purged \cup {r.seq : r \in gone},
           UNCHANGED <<pc, err, cursor, sent>>
    PROVE  Promised!Withdraw \/ UNCHANGED Promised!vars
<1> DEFINE log == {r.seq : r \in rows}
<1>1. CASE gone = {}
  BY <1>1 DEF Promised!vars, Streaming
<1>2. CASE gone # {}
  <2>1. PICK top \in rows : top.seq = autoinc
    BY <1>2 DEF TopRowSurvives
  <2>2. autoinc \in Nat /\ top \in rows'
    BY <2>1 DEF TypeOK
  <2>3. Promised!Newest = autoinc
    BY <1>2, NewestIsTop
  <2>4. log' \in SUBSET log /\ log \ log' = {r.seq : r \in gone}
    BY DEF RowsInv
  <2>5. log' # log
    BY <1>2, <2>4
  <2>6. autoinc \in log'
    BY <2>1, <2>2
  <2>7. Streaming' = Streaming
    BY DEF Streaming
  <2> QED
    BY <2>3, <2>4, <2>5, <2>6, <2>7 DEF Promised!Withdraw
<1> QED
  BY <1>1, <1>2

\* Connections that end while they stream end their subscriptions.
LEMMA EndStep ==
    ASSUME UNCHANGED <<rows, lost, purged>>, Streaming' \subseteq Streaming,
           \A c \in Streaming' : cursor'[c] = cursor[c] /\ sent'[c] = sent[c]
    PROVE  Promised!End \/ UNCHANGED Promised!vars
<1>1. Streaming \subseteq Subs
  BY DEF Streaming
<1>2. CASE Streaming' = Streaming
  BY <1>1, <1>2 DEF Promised!vars
<1>3. CASE Streaming' # Streaming
  BY <1>1, <1>3 DEF Promised!End
<1> QED
  BY <1>2, <1>3

\* Every step of the sequencer is a step of the feed, or changes nothing of it.
LEMMA StepRefines ==
    ASSUME IInv, FeedInv, [Next]_vars
    PROVE  [Promised!Next]_(Promised!vars)
<1> USE DEF vars, logVars, procVars, connVars, histVars
<1>0. TypeOK /\ LogInv /\ TopRowSurvives /\ RowsInv /\ TypeOK'
  BY NextIInv DEF IInv, LogInv, FeedInv
<1>1. \A c \in Subs : PlaceInv(c) /\ ConnInv(c)
  BY DEF FeedInv, IInv
<1>2. ASSUME UNCHANGED <<rows, lost, purged, pc, err, cursor, sent>>
      PROVE  UNCHANGED Promised!vars
  BY <1>2 DEF Promised!vars, Streaming
<1>3. Streaming \subseteq Subs
  BY DEF Streaming
<1>4. ASSUME NEW s \in 1..MaxSeq, NEW did, rows' = rows \cup {[seq |-> s, did |-> did]},
             \A p \in {r.seq : r \in rows} \cup lost \cup purged : p < s,
             UNCHANGED <<lost, purged, pc, err, cursor, sent>>
      PROVE  Promised!Next
  BY <1>4, PublishStep DEF Promised!Next
<1>5. Now \in 1..MaxSeq
  BY <1>0, SequencerAssumption DEF Now, RowsInv, TypeOK
<1>6. CASE Open
  <2>1. CASE rows' = rows
    BY <1>2, <1>6, <2>1 DEF Open
  <2>2. CASE rows' # rows
    <3>1. rows = {} /\ rows' = {[seq |-> Now, did |-> None]}
      BY <1>6, <2>2, SequencerAssumption DEF Open, seed_sequence_floor, Seeds
    <3>2. lost = {} /\ purged = {}
      BY <1>0, <3>1 DEF RowsInv
    <3>3. UNCHANGED <<lost, purged, pc, err, cursor, sent>>
      BY <1>6 DEF Open
    <3> QED
      BY <1>4, <1>5, <3>1, <3>2, <3>3
  <2> QED
    BY <2>1, <2>2
<1>7. CASE CrashWhileSeeding
  <2>1. rows = {} /\ rows' = {[seq |-> Now, did |-> None]}
          /\ UNCHANGED <<lost, purged, pc, err, cursor, sent>>
    BY <1>7 DEF CrashWhileSeeding
  <2>2. lost = {} /\ purged = {}
    BY <1>0, <2>1 DEF RowsInv
  <2> QED
    BY <1>4, <1>5, <2>1, <2>2
<1>8. ASSUME NEW did \in Accounts, append_event(did) PROVE Promised!Next
  <2>1. autoinc + 1 \in 1..MaxSeq
    BY <1>0, <1>8, SequencerAssumption DEF append_event, TypeOK
  <2>2. \A p \in {r.seq : r \in rows} \cup lost \cup purged : p < autoinc + 1
    <3>1. \A r \in rows : r.seq <= autoinc /\ r.seq \in Nat
      BY <1>0 DEF TopRowSurvives, TypeOK, Row
    <3>2. \A p \in lost \cup purged : p < autoinc /\ p \in Nat
      BY <1>0 DEF RowsInv, TypeOK
    <3>3. autoinc \in Nat
      BY <1>0 DEF TypeOK
    <3>4. \A p \in {r.seq : r \in rows} : p <= autoinc /\ p \in Nat
      BY <3>1
    <3>5. \A p \in Nat : p <= autoinc => p < autoinc + 1
      BY <3>3
    <3> QED
      BY <3>2, <3>3, <3>4, <3>5
  <2> QED
    BY <1>4, <1>8, <2>1, <2>2 DEF append_event
<1>9. CASE Retain
  <2>1. PICK gone \in SUBSET rows :
           /\ rows' = rows \ gone
           /\ lost' = lost \cup {r.seq : r \in gone}
           /\ \A r \in gone : r.seq < autoinc
    BY <1>0, <1>9, RetainEffect
  <2>2. UNCHANGED <<purged, pc, err, cursor, sent>>
    BY <1>9 DEF Retain
  <2>3. lost' \cup purged' = lost \cup purged \cup {r.seq : r \in gone}
    BY <2>1, <2>2
  <2> QED
    BY <1>0, <2>1, <2>2, <2>3, WithdrawStep DEF Promised!Next
<1>10. ASSUME NEW did \in Accounts, purge_account(did)
       PROVE  [Promised!Next]_(Promised!vars)
  <2> DEFINE gone == Superseded(rows, did)
  <2>1. \A r \in gone : r \in rows /\ r.seq < autoinc
    BY <1>0, PurgeBelowTop
  <2>2. /\ rows' = rows \ gone /\ purged' = purged \cup {r.seq : r \in gone}
        /\ UNCHANGED <<lost, pc, err, cursor, sent>>
    BY <1>10 DEF purge_account
  <2>3. lost' \cup purged' = lost \cup purged \cup {r.seq : r \in gone}
    BY <2>2
  <2> HIDE DEF gone
  <2> QED
    BY <1>0, <2>1, <2>2, <2>3, WithdrawStep DEF Promised!Next
<1>11. CASE Rebuild
  <2>1. Streaming = {} /\ Streaming' = {}
    BY <1>11 DEF Rebuild, Streaming, IInv, FreeWaitsForThreads
  <2>2. Promised!StartAgain
    BY <1>11, <2>1 DEF Rebuild, Promised!StartAgain
  <2> QED
    BY <2>2 DEF Promised!Next
<1>12. CASE Crash
  <2>1. Streaming' = {} /\ UNCHANGED <<rows, lost, purged>>
    BY <1>12 DEF Crash, Released, Streaming
  <2> QED
    BY <2>1, EndStep DEF Promised!Next
<1>13. CASE BeginFree \/ EndFree \/ UNCHANGED vars
  BY <1>2, <1>13 DEF BeginFree, EndFree
\* Before a worker runs, and once it has left its loop, there is no
\* subscription for its steps to change.
<1>14. ASSUME NEW c \in Subs, c \notin Streaming, c \notin Streaming',
              UNCHANGED <<rows, lost, purged>>,
              \A d \in Subs : d # c => /\ pc'[d] = pc[d] /\ err'[d] = err[d]
                                       /\ cursor'[d] = cursor[d] /\ sent'[d] = sent[d]
       PROVE  UNCHANGED Promised!vars
  <2>1. Streaming' = Streaming
    BY <1>14 DEF Streaming
  <2> QED
    BY <1>3, <1>14, <2>1 DEF Promised!vars
<1>15. ASSUME NEW c \in Subs,
              \/ ReadCurrent(c) \/ CheckPruned(c) \/ Register(c) \/ Refuse(c)
              \/ SpawnFails(c) \/ ReplyError(c) \/ WorkerExit(c)
       PROVE  UNCHANGED Promised!vars
  <2>1. c \notin Streaming /\ c \notin Streaming'
    BY <1>0, <1>15
    DEF ReadCurrent, CheckPruned, Register, Refuse, SpawnFails, ReplyError, WorkerExit,
        Released, LeaveLoop, Streaming, TypeOK
  <2>2. UNCHANGED <<rows, lost, purged>>
    BY <1>15 DEF ReadCurrent, CheckPruned, Register, Refuse, SpawnFails, ReplyError,
                 WorkerExit, LeaveLoop
  <2>3. \A d \in Subs : d # c => /\ pc'[d] = pc[d] /\ err'[d] = err[d]
                                 /\ cursor'[d] = cursor[d] /\ sent'[d] = sent[d]
    BY <1>0, <1>15
    DEF ReadCurrent, CheckPruned, Register, Refuse, SpawnFails, ReplyError, WorkerExit,
        Released, LeaveLoop, TypeOK
  <2> QED
    BY <1>14, <2>1, <2>2, <2>3
\* A worker that starts without an error to report is a subscription, at a
\* cursor the log had reached and with nothing sent.
<1>16. ASSUME NEW c \in Subs, SpawnWorker(c) PROVE [Promised!Next]_(Promised!vars)
  <2>1. /\ pc[c] = "registered" /\ pc' = [pc EXCEPT ![c] = "run"]
        /\ UNCHANGED <<rows, lost, purged, err, cursor, sent>>
    BY <1>16 DEF SpawnWorker
  <2>2. CASE err[c] # "none"
    <3>1. c \notin Streaming /\ c \notin Streaming'
      BY <1>0, <2>1, <2>2 DEF Streaming
    <3> QED
      BY <1>0, <1>14, <2>1, <3>1 DEF TypeOK
  <2>3. CASE err[c] = "none"
    <3>1. c \notin Streaming /\ Streaming' = Streaming \cup {c}
      BY <1>0, <2>1, <2>3 DEF Streaming, TypeOK
    <3>2. cursor[c] \in 0..Promised!Newest
      <4>1. cursor[c] <= autoinc /\ (rows = {} => cursor[c] = 0)
        BY <1>1, <2>1, <2>3 DEF ConnInv, PlaceInv
      <4>2. Promised!Newest = IF rows = {} THEN 0 ELSE autoinc
        BY <1>0, NewestIsTop
      <4>3. cursor[c] \in Nat /\ autoinc \in Nat
        BY <1>0 DEF TypeOK
      <4> HIDE DEF Promised!Newest
      <4> QED
        BY <4>1, <4>2, <4>3
    <3>3. sent[c] = {}
      BY <1>1, <2>1 DEF ConnInv
    <3> DEFINE at == [d \in Subs |-> IF d \in Streaming THEN cursor[d] ELSE 0]
    <3>4. at' = [at EXCEPT ![c] = cursor[c]]
      BY <2>1, <3>1
    <3>5. UNCHANGED [d \in Subs |-> IF d \in Streaming THEN sent[d] ELSE {}]
      BY <2>1, <3>1, <3>3
    <3>6. Promised!Subscribe(c)
      BY <2>1, <3>1, <3>2, <3>4, <3>5 DEF Promised!Subscribe
    <3> QED
      BY <3>6 DEF Promised!Next
  <2> QED
    BY <2>2, <2>3
<1>17. ASSUME NEW c \in Subs, ReadNext(c) \/ Disconnect(c) PROVE UNCHANGED Promised!vars
  <2>1. UNCHANGED <<rows, lost, purged, err, cursor, sent>>
    BY <1>17 DEF ReadNext, Disconnect
  <2>2. Streaming' = Streaming
    BY <1>0, <1>17 DEF ReadNext, Disconnect, Streaming, TypeOK
  <2> QED
    BY <2>1, <2>2 DEF Promised!vars
<1>18. ASSUME NEW c \in Subs, SendFrame(c) PROVE Promised!Next
  <2> DEFINE at == [d \in Subs |-> IF d \in Streaming THEN cursor[d] ELSE 0]
             got == [d \in Subs |-> IF d \in Streaming THEN sent[d] ELSE {}]
  <2>1. /\ pc[c] = "holding" /\ pc' = [pc EXCEPT ![c] = "run"]
        /\ cursor' = [cursor EXCEPT ![c] = frame[c]]
        /\ sent' = [sent EXCEPT ![c] = @ \cup {frame[c]}]
        /\ UNCHANGED <<rows, lost, purged, err>>
    BY <1>18 DEF SendFrame
  <2>2. c \in Streaming
    BY <1>1, <2>1 DEF ConnInv, Streaming
  <2>3. Streaming' = Streaming
    BY <1>0, <2>1, <2>2 DEF Streaming, TypeOK
  <2>4. at' = [at EXCEPT ![c] = frame[c]] /\ got' = [got EXCEPT ![c] = @ \cup {frame[c]}]
    <3>1. /\ cursor \in [Subs -> Nat] /\ sent \in [Subs -> SUBSET Nat]
      BY <1>0 DEF TypeOK
    <3>2. at' = [d \in Subs |-> IF d = c THEN frame[c] ELSE at[d]]
      BY <2>1, <2>2, <2>3, <3>1
    <3>3. got' = [d \in Subs |-> IF d = c THEN got[c] \cup {frame[c]} ELSE got[d]]
      BY <2>1, <2>2, <2>3, <3>1
    <3> QED
      BY <3>2, <3>3
  <2>5. /\ frame[c] \in {r.seq : r \in rows} \cup lost \cup purged
        /\ at[c] < frame[c]
        /\ \A q \in {r.seq : r \in rows} : at[c] < q => frame[c] <= q
    BY <1>1, <2>1, <2>2 DEF ConnInv, PlaceInv
  <2>6. Promised!Deliver(c)
    BY <2>1, <2>2, <2>3, <2>4, <2>5 DEF Promised!Deliver, Promised!Published
  <2> QED
    BY <2>6 DEF Promised!Next
<1>19. ASSUME NEW c \in Subs, LeaveLoop(c) PROVE [Promised!Next]_(Promised!vars)
  <2>1. Streaming' \subseteq Streaming /\ UNCHANGED <<rows, lost, purged, cursor, sent>>
    BY <1>0, <1>19 DEF LeaveLoop, Streaming, TypeOK
  <2> QED
    BY <2>1, EndStep DEF Promised!Next
<1> QED
  BY <1>6, <1>7, <1>8, <1>9, <1>10, <1>11, <1>12, <1>13, <1>15, <1>16, <1>17, <1>18, <1>19
  DEF Next, Process, Handler, Worker, SendFails, LeaveOnClose, LeaveOnFailure

\* Whatever the sequencer does, a consumer sees the feed it was promised: each
\* event once, in order, none passed over that could still be read, the newest
\* never taken back, and no position still to come.
THEOREM SequencerIsAFeed == Spec => ImplementsFeed
<1>1. Init => Promised!Init
  BY DEF Init, NoConnections, Promised!Init, Streaming
<1>2. IInv /\ FeedInv /\ [Next]_vars => [Promised!Next]_(Promised!vars)
  BY StepRefines
<1> QED
  BY <1>1, <1>2, FeedInvariance, PTL DEF Spec, ImplementsFeed, Promised!Spec
=============================================================================
