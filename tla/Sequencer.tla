------------------------------- MODULE Sequencer -------------------------------
(***************************************************************************)
(* The host-wide firehose sequencer (src/sequencer.c): one SQLite log of   *)
(* events, appended to by every account's repository and by the account    *)
(* and identity handlers, trimmed by retention and by account deletion,    *)
(* and replayed to any number of websocket subscribers, each served by a   *)
(* thread of its own that re-reads the log from its cursor.                *)
(*                                                                         *)
(* A step is what one thread does under one hold of the sequencer's mutex. *)
(* A process may crash at any step; the log survives, its threads do not.  *)
(***************************************************************************)
EXTENDS EventLog, Integers

CONSTANTS
    Subs,        \* consumers; each holds at most one connection at a time
    Accounts,    \* the accounts hosted here
    None,        \* the NULL did of the row seed_sequence_floor inserts
    MinEvents,   \* retention_min_events
    MaxSeq,      \* bound: no event is appended beyond this sequence number
    SqliteFails, \* may a statement on the log fail?
    Rebuilds     \* may the operator start again from an empty data directory?

ASSUME SequencerAssumption ==
    /\ IsFiniteSet(Subs)
    /\ None \notin Accounts
    /\ MinEvents \in Nat \ {0}    \* server.c: retention_min_events > 0 ? .. : 1000
    /\ MaxSeq \in Nat \ {0}
    /\ SqliteFails \in BOOLEAN
    /\ Rebuilds \in BOOLEAN

VARIABLES
    rows, autoinc,   \* the events table and its AUTOINCREMENT high-water mark
    pruned,          \* meta.pruned_through, 0 when there is no such row
    state,           \* of the process: "down", "open" or "closing"
    active,          \* s->active_subscribers
    retained,        \* has this process run its one retention pass?
    pc,              \* where the thread serving each subscriber is
    cursor,          \* worker->cursor
    err,             \* worker->error, "none" for NULL
    outdated,        \* worker->outdated: #info OutdatedCursor precedes the replay
    frame,           \* seq of the frame a worker has read and not yet sent, or 0
    closed,          \* wf_xrpc_server_ws_is_closed(worker->stream)
    saved,           \* the cursor each consumer has persisted on its side
    \* history: only high is read, for the clock and for a cursor of the future
    start,           \* the cursor each connection began at
    sent,            \* what each connection has been sent
    known,           \* the marked losses at the time worker->outdated was decided
    issued,          \* the sequence numbers of this log's events
    lost,            \* those retention deleted
    unmarked,        \* those retention deleted without recording how far it went
    purged,          \* those purge_account deleted
    high             \* the highest sequence number this host ever used

logVars  == <<rows, autoinc, pruned>>
procVars == <<state, active, retained>>
connVars == <<pc, cursor, err, outdated, frame, closed, start, sent, known>>
histVars == <<issued, lost, unmarked, purged, high>>
vars     == <<logVars, procVars, connVars, saved, histVars>>

-----------------------------------------------------------------------------
(* Requests carry a cursor, or none, or one that does not parse.           *)

Absent    == -1
Malformed == -2

PCs == {"idle", "asked", "checked", "registered", "run", "holding", "exit"}

\* The subscribers that metalbear_sequencer_free has to wait for.
Counted(c) == pc[c] \in {"registered", "run", "holding", "exit"}

Handling(c) == pc[c] \in {"asked", "checked", "registered"}

Row(did) == [seq : Nat, did : did]

MaxOf(a, b) == IF a >= b THEN a ELSE b

\* The connections of gone are over: their workers and streams are freed.
Released(gone) ==
    /\ pc' = [c \in Subs |-> IF c \in gone THEN "idle" ELSE pc[c]]
    /\ cursor' = [c \in Subs |-> IF c \in gone THEN 0 ELSE cursor[c]]
    /\ err' = [c \in Subs |-> IF c \in gone THEN "none" ELSE err[c]]
    /\ outdated' = [c \in Subs |-> c \notin gone /\ outdated[c]]
    /\ frame' = [c \in Subs |-> IF c \in gone THEN 0 ELSE frame[c]]
    /\ closed' = [c \in Subs |-> c \notin gone /\ closed[c]]
    /\ start' = [c \in Subs |-> IF c \in gone THEN 0 ELSE start[c]]
    /\ sent' = [c \in Subs |-> IF c \in gone THEN {} ELSE sent[c]]
    /\ known' = [c \in Subs |-> IF c \in gone THEN {} ELSE known[c]]

NoConnections ==
    /\ pc = [c \in Subs |-> "idle"]
    /\ cursor = [c \in Subs |-> 0]
    /\ err = [c \in Subs |-> "none"]
    /\ outdated = [c \in Subs |-> FALSE]
    /\ frame = [c \in Subs |-> 0]
    /\ closed = [c \in Subs |-> FALSE]
    /\ start = [c \in Subs |-> 0]
    /\ sent = [c \in Subs |-> {}]
    /\ known = [c \in Subs |-> {}]

Init ==
    /\ rows = {} /\ autoinc = 0 /\ pruned = 0
    /\ state = "down" /\ active = 0 /\ retained = FALSE
    /\ NoConnections
    /\ saved = [c \in Subs |-> 0]
    /\ issued = {} /\ lost = {} /\ unmarked = {} /\ purged = {} /\ high = 0

-----------------------------------------------------------------------------
(* Startup.                                                                *)

\* time(NULL) at startup: seconds since the epoch outrun any sequence number
\* that an earlier incarnation of this host can have reached (MaxSeq is the
\* bound of the instance).
Now == IF high < MaxSeq THEN high + 1 ELSE high

\* Mutant: a rebuilt log starts again at 1.
SeedsNothing == {[rows |-> {}, autoinc |-> autoinc]}

\* seed_sequence_floor on an empty log: INSERT a row at Now, then DELETE it,
\* which leaves only the AUTOINCREMENT mark.  Neither statement's failure is
\* fatal.
Seeds ==
    {[rows |-> {}, autoinc |-> Now]}
      \cup IF SqliteFails
           THEN {[rows |-> {}, autoinc |-> autoinc],
                 [rows |-> {[seq |-> Now, did |-> None]}, autoinc |-> Now]}
           ELSE {}

seed_sequence_floor ==
    IF rows # {} THEN UNCHANGED <<rows, autoinc, high>>
    ELSE \E s \in Seeds :
            /\ rows' = s.rows
            /\ autoinc' = s.autoinc
            /\ high' = MaxOf(high, s.autoinc)

Open ==
    /\ state = "down"
    /\ seed_sequence_floor
    /\ state' = "open"
    /\ UNCHANGED <<pruned, active, retained, connVars, saved, issued, lost,
                   unmarked, purged>>

\* The process dies between the placeholder's INSERT and its DELETE, each a
\* transaction of its own.
CrashWhileSeeding ==
    /\ state = "down" /\ rows = {}
    /\ rows' = {[seq |-> Now, did |-> None]}
    /\ autoinc' = Now
    /\ high' = Now
    /\ UNCHANGED <<pruned, procVars, connVars, saved, issued, lost, unmarked,
                   purged>>

-----------------------------------------------------------------------------
(* Writers.                                                                *)

\* One transaction: INSERT, encode the frame with the rowid as its seq, UPDATE,
\* COMMIT.  Every failure rolls the whole of it back, and a closing sequencer
\* refuses, so that only the success changes anything.
append_event(did) ==
    /\ state = "open"
    /\ autoinc < MaxSeq
    /\ autoinc' = autoinc + 1
    /\ rows' = rows \cup {[seq |-> autoinc + 1, did |-> did]}
    /\ issued' = issued \cup {autoinc + 1}
    /\ high' = MaxOf(high, autoinc + 1)
    /\ UNCHANGED <<pruned, procVars, connVars, saved, lost, unmarked, purged>>

\* metalbear_sequencer_retain: DELETE, then the mark, each a transaction of its
\* own.  The DELETE may fail; the mark may not be written after it succeeded;
\* and when it failed the mark is still written if the statement before it on
\* this connection had changed a row (sqlite3_changes is then stale).
Retain ==
    LET cutoff == current_locked(rows) - MinEvents IN
    /\ state = "open" /\ ~retained
    /\ retained' = TRUE
    /\ \/ /\ cutoff <= 0
          /\ UNCHANGED <<rows, pruned, lost, unmarked>>
       \/ /\ cutoff > 0
          /\ \E aged \in 0..cutoff, mark \in BOOLEAN, deletes \in BOOLEAN :
               LET gone == IF deletes THEN Expired(rows, cutoff, aged, None)
                                      ELSE {}
                   seqs == {r.seq : r \in gone}
               IN /\ ~SqliteFails => deletes /\ (mark <=> gone # {})
                  /\ rows' = rows \ gone
                  /\ pruned' = IF mark THEN MaxOf(pruned, cutoff) ELSE pruned
                  /\ lost' = lost \cup seqs
                  /\ unmarked' = IF mark THEN unmarked
                                         ELSE unmarked \cup seqs
    /\ UNCHANGED <<autoinc, state, active, connVars, saved, issued, purged, high>>

\* metalbear_sequencer_purge_account, when its one DELETE succeeds.
purge_account(did) ==
    /\ state = "open"
    /\ rows' = rows \ Superseded(rows, did)
    /\ purged' = purged \cup {r.seq : r \in Superseded(rows, did)}
    /\ UNCHANGED <<autoinc, pruned, procVars, connVars, saved, issued, lost,
                   unmarked, high>>

-----------------------------------------------------------------------------
(* subscribe_repos: the handler of a subscription request.  The newest seq,*)
(* the retention mark and the closing flag are read under three separate   *)
(* holds of the mutex.                                                     *)

CursorParams(c) == {Absent, Malformed, 0, saved[c], high + 1}

\* Mutant: a cursor of the future is taken at its word.
ReadCurrentTrusting(c) ==
    LET current == current_locked(rows) IN
    /\ state = "open" /\ pc[c] = "idle"
    /\ \E w \in CursorParams(c) :
         /\ cursor' = [cursor EXCEPT ![c] = IF w >= 0 THEN w ELSE current]
         /\ start' = [start EXCEPT ![c] = IF w >= 0 THEN w ELSE current]
         /\ err' = [err EXCEPT ![c] = IF w = Malformed THEN "InvalidRequest" ELSE "none"]
         /\ pc' = [pc EXCEPT ![c] = IF w >= 0 THEN "asked" ELSE "checked"]
    /\ UNCHANGED <<logVars, procVars, outdated, frame, closed, sent, known,
                   saved, histVars>>

ReadCurrent(c) ==
    LET current == current_locked(rows) IN
    /\ state = "open" /\ pc[c] = "idle"
    /\ \E w \in CursorParams(c) :
         /\ cursor' = [cursor EXCEPT ![c] = IF w >= 0 THEN w ELSE current]
         /\ start' = [start EXCEPT ![c] = IF w >= 0 THEN w ELSE current]
         /\ err' = [err EXCEPT ![c] = IF w = Malformed THEN "InvalidRequest"
                                      ELSE IF w > current THEN "FutureCursor"
                                      ELSE "none"]
         /\ pc' = [pc EXCEPT ![c] = IF w >= 0 /\ w <= current THEN "asked"
                                    ELSE "checked"]
    /\ UNCHANGED <<logVars, procVars, outdated, frame, closed, sent, known,
                   saved, histVars>>

\* Mutant: off by one in the comparison with the mark.
CheckPrunedOffByOne(c) ==
    /\ pc[c] = "asked"
    /\ outdated' = [outdated EXCEPT ![c] = pruned > 0 /\ cursor[c] + 1 < pruned]
    /\ known' = [known EXCEPT ![c] = lost \ unmarked]
    /\ pc' = [pc EXCEPT ![c] = "checked"]
    /\ UNCHANGED <<logVars, procVars, cursor, err, frame, closed, start, sent,
                   saved, histVars>>

CheckPruned(c) ==
    /\ pc[c] = "asked"
    /\ outdated' = [outdated EXCEPT ![c] = pruned > 0 /\ cursor[c] < pruned]
    /\ known' = [known EXCEPT ![c] = lost \ unmarked]
    /\ pc' = [pc EXCEPT ![c] = "checked"]
    /\ UNCHANGED <<logVars, procVars, cursor, err, frame, closed, start, sent,
                   saved, histVars>>

\* Mutant: the worker is not counted.
RegisterUncounted(c) ==
    /\ pc[c] = "checked" /\ state = "open"
    /\ pc' = [pc EXCEPT ![c] = "registered"]
    /\ UNCHANGED <<logVars, procVars, cursor, err, outdated, frame,
                   closed, start, sent, known, saved, histVars>>

Register(c) ==
    /\ pc[c] = "checked" /\ state = "open"
    /\ active' = active + 1
    /\ pc' = [pc EXCEPT ![c] = "registered"]
    /\ UNCHANGED <<logVars, state, retained, cursor, err, outdated, frame,
                   closed, start, sent, known, saved, histVars>>

\* calloc or wf_xrpc_server_ws_retain failed, or the sequencer is closing.
Refuse(c) ==
    /\ pc[c] = "checked"
    /\ Released({c})
    /\ UNCHANGED <<logVars, procVars, saved, histVars>>

SpawnWorker(c) ==
    /\ pc[c] = "registered"
    /\ pc' = [pc EXCEPT ![c] = "run"]
    /\ UNCHANGED <<logVars, procVars, cursor, err, outdated, frame, closed,
                   start, sent, known, saved, histVars>>

SpawnFails(c) ==
    /\ pc[c] = "registered"
    /\ active' = active - 1
    /\ Released({c})
    /\ UNCHANGED <<logVars, state, retained, saved, histVars>>

-----------------------------------------------------------------------------
(* subscriber_main: the thread of a connection.                            *)

LeaveLoop(c) ==
    /\ pc' = [pc EXCEPT ![c] = "exit"]
    /\ frame' = [frame EXCEPT ![c] = 0]
    /\ UNCHANGED <<logVars, procVars, cursor, err, outdated, closed, start,
                   sent, known, saved, histVars>>

\* A refused subscription is sent its #error frame and closed.
ReplyError(c) ==
    /\ pc[c] = "run" /\ err[c] # "none"
    /\ LeaveLoop(c)

\* Under the mutex: the first row after the cursor.  A frame read just as the
\* stream closed is dropped by the check that follows (LeaveOnClose).
ReadNext(c) ==
    /\ pc[c] = "run" /\ err[c] = "none" /\ ~closed[c] /\ state = "open"
    /\ \E r \in read_next_locked(rows, cursor[c]) :
          frame' = [frame EXCEPT ![c] = r.seq]
    /\ pc' = [pc EXCEPT ![c] = "holding"]
    /\ UNCHANGED <<logVars, procVars, cursor, err, outdated, closed, start,
                   sent, known, saved, histVars>>

\* Mutant: the cursor stays behind the frame that was sent.
SendFrameAgain(c) ==
    /\ pc[c] = "holding" /\ ~closed[c]
    /\ frame' = [frame EXCEPT ![c] = 0]
    /\ pc' = [pc EXCEPT ![c] = "run"]
    /\ UNCHANGED <<logVars, procVars, cursor, err, outdated, closed, start,
                   sent, known, saved, histVars>>

\* Outside the mutex.  The consumer persists its cursor when it pleases.
SendFrame(c) ==
    /\ pc[c] = "holding" /\ ~closed[c]
    /\ cursor' = [cursor EXCEPT ![c] = frame[c]]
    /\ sent' = [sent EXCEPT ![c] = @ \cup {frame[c]}]
    /\ \E s \in {saved[c], frame[c]} : saved' = [saved EXCEPT ![c] = s]
    /\ frame' = [frame EXCEPT ![c] = 0]
    /\ pc' = [pc EXCEPT ![c] = "run"]
    /\ UNCHANGED <<logVars, procVars, err, outdated, closed, start, known,
                   histVars>>

\* The peer is gone, or too slow (the write timed out).
SendFails(c) ==
    /\ pc[c] = "holding"
    /\ LeaveLoop(c)

\* Mutant: a worker does not look at s->closing.
LeaveOnDisconnect(c) ==
    /\ pc[c] = "run" /\ err[c] = "none" /\ closed[c]
    /\ LeaveLoop(c)

LeaveOnClose(c) ==
    /\ pc[c] = "run" /\ err[c] = "none"
    /\ closed[c] \/ state = "closing"
    /\ LeaveLoop(c)

\* The log cannot be read, or there is nothing to read and the ping fails.
LeaveOnFailure(c) ==
    /\ pc[c] = "run" /\ err[c] = "none" /\ ~closed[c] /\ state = "open"
    /\ SqliteFails \/ read_next_locked(rows, cursor[c]) = {}
    /\ LeaveLoop(c)

WorkerExit(c) ==
    /\ pc[c] = "exit"
    /\ active' = IF active > 0 THEN active - 1 ELSE active
    /\ Released({c})
    /\ UNCHANGED <<logVars, state, retained, saved, histVars>>

\* The consumer hangs up or its connection breaks.
Disconnect(c) ==
    /\ Counted(c) /\ ~closed[c]
    /\ closed' = [closed EXCEPT ![c] = TRUE]
    /\ UNCHANGED <<logVars, procVars, pc, cursor, err, outdated, frame, start,
                   sent, known, saved, histVars>>

-----------------------------------------------------------------------------
(* Shutdown, crash, and a data directory rebuilt from nothing.             *)

\* metalbear_sequencer_free latches closing.  metalbear_server_free has called
\* wf_xrpc_server_free by then, so that no handler is still running.
BeginFree ==
    /\ state = "open"
    /\ \A c \in Subs : ~Handling(c)
    /\ state' = "closing"
    /\ UNCHANGED <<logVars, active, retained, connVars, saved, histVars>>

\* The wait for active_subscribers is over: everything is destroyed.
EndFree ==
    /\ state = "closing" /\ active = 0
    /\ state' = "down"
    /\ retained' = FALSE
    /\ UNCHANGED <<logVars, active, connVars, saved, histVars>>

Crash ==
    /\ state # "down"
    /\ state' = "down" /\ active' = 0 /\ retained' = FALSE
    /\ Released(Subs)
    /\ UNCHANGED <<logVars, saved, histVars>>

Rebuild ==
    /\ Rebuilds
    /\ state = "down" /\ rows # {}
    /\ rows' = {} /\ autoinc' = 0 /\ pruned' = 0
    /\ issued' = {} /\ lost' = {} /\ unmarked' = {} /\ purged' = {}
    /\ UNCHANGED <<procVars, connVars, saved, high>>

Process ==
    \/ Open \/ CrashWhileSeeding \/ Retain
    \/ BeginFree \/ EndFree \/ Crash \/ Rebuild
    \/ \E did \in Accounts : append_event(did) \/ purge_account(did)

Handler(c) ==
    \/ ReadCurrent(c) \/ CheckPruned(c) \/ Register(c) \/ Refuse(c)
    \/ SpawnWorker(c) \/ SpawnFails(c)

Worker(c) ==
    \/ ReplyError(c) \/ ReadNext(c) \/ SendFrame(c) \/ SendFails(c)
    \/ LeaveOnClose(c) \/ LeaveOnFailure(c) \/ WorkerExit(c)

Next ==
    \/ Process
    \/ \E c \in Subs : Handler(c) \/ Worker(c) \/ Disconnect(c)

Spec == Init /\ [][Next]_vars

\* Threads run on: a handler returns, a worker takes its next turn at the mutex,
\* wf_xrpc_server_ws_send returns (it has a write timeout), and free() goes on
\* once its wait is over.  Nothing makes a consumer connect, the process start,
\* or an event happen.
Fairness ==
    /\ WF_vars(EndFree)
    /\ \A c \in Subs : WF_vars(Worker(c)) /\ WF_vars(SpawnWorker(c))

FairSpec == Spec /\ Fairness

-----------------------------------------------------------------------------
(* Properties.                                                             *)

\* The values the code's variables range over.
TypeOK ==
    /\ rows \subseteq Row(Accounts \cup {None})
    /\ autoinc \in Nat /\ pruned \in Nat
    /\ state \in {"down", "open", "closing"}
    /\ active \in Nat /\ retained \in BOOLEAN
    /\ pc \in [Subs -> PCs]
    /\ cursor \in [Subs -> Nat] /\ start \in [Subs -> Nat]
    /\ frame \in [Subs -> Nat] /\ saved \in [Subs -> Nat]
    /\ err \in [Subs -> {"none", "InvalidRequest", "FutureCursor"}]
    /\ outdated \in [Subs -> BOOLEAN] /\ closed \in [Subs -> BOOLEAN]
    /\ sent \in [Subs -> SUBSET Nat] /\ known \in [Subs -> SUBSET Nat]
    /\ issued \subseteq Nat /\ lost \subseteq Nat /\ unmarked \subseteq Nat
    /\ purged \subseteq Nat /\ high \in Nat

\* MAX(seq), which the code takes for the newest sequence number, is it: the
\* newest row outlives every retention pass and every purge, so a non-empty
\* log never appears to be shorter than it was.
TopRowSurvives ==
    rows # {} => \E r \in rows : r.seq = autoinc /\ \A q \in rows : q.seq <= r.seq

\* Every event between the cursor a connection began at and the one it has
\* reached was sent on it, unless retention or an account deletion removed the
\* event; whatever append_event, retain and purge_account did in between.
StreamComplete ==
    \A c \in Subs : pc[c] \in {"run", "holding"} /\ err[c] = "none" =>
        \A s \in issued :
            s > start[c] /\ s <= cursor[c] => s \in sent[c] \cup lost \cup purged

\* An event is never replayed behind the cursor of its connection: what a
\* worker holds lies above everything the connection has been sent.
StreamIncreases ==
    \A c \in Subs :
        /\ \A s \in sent[c] : start[c] < s /\ s <= cursor[c]
        /\ pc[c] = "holding" => cursor[c] < frame[c]

\* A consumer that comes back with the cursor it persisted is never told
\* FutureCursor, across any number of restarts, retention passes and purges of
\* one data directory.
OwnCursorNeverFuture ==
    ~Rebuilds => \A c \in Subs : saved[c] <= current_locked(rows)

\* A connection whose cursor lies below an event that retention had deleted,
\* and recorded as deleted, when the request was handled, announces the gap.
KnownGapAnnounced ==
    \A c \in Subs : \A s \in known[c] : start[c] < s => outdated[c]

\* metalbear_sequencer_free destroys the log, the mutex and the condition
\* variable only once no handler and no worker can touch them: the counter
\* never falls below the number of threads it stands for.
FreeWaitsForThreads ==
    /\ active = Cardinality({c \in Subs : Counted(c)})
    /\ state = "down" => \A c \in Subs : pc[c] = "idle"

\* While SQLite does not fail, a sequence number is used once in the lifetime
\* of the host, rebuilt data directories included: every append lands above
\* every number any earlier log handed out.
SeqNeverReused ==
    [][~SqliteFails => \A s \in issued' \ issued : s > high]_vars

\* A connection that is up eventually reaches every event that stays in the
\* log, unless it ends first.
CatchesUp ==
    \A c \in Subs, s \in 1..MaxSeq :
        (pc[c] = "run" /\ err[c] = "none" /\ s \in {r.seq : r \in rows})
            ~> (cursor[c] >= s \/ pc[c] \in {"exit", "idle"})

\* Shutdown ends: no subscriber, however slow or idle, keeps free() waiting.
FreeReturns == (state = "closing") ~> (state = "down")

-----------------------------------------------------------------------------
(* What the repository says of the sequencer and the code does not do.     *)

\* include/metalbear/sequencer.h promises of retention that it keeps at least
\* min_events.  The code subtracts min_events from the newest sequence NUMBER.
RetainKeepsMinEvents ==
    [][retained' /\ ~retained =>
        \/ rows' = rows
        \/ Cardinality(rows') >= MinEvents]_vars

\* The comment in subscribe_repos: a gap is announced rather than resuming at
\* the first surviving event.  A retention pass that runs between the check of
\* the mark and the replay leaves a gap that nobody announces.
NoSilentGap ==
    \A c \in Subs : pc[c] \in {"run", "holding"} /\ err[c] = "none" =>
        \A s \in lost \ sent[c] :
            start[c] < s /\ s <= cursor[c] => outdated[c]
=============================================================================
