------------------------------ MODULE Sessions ------------------------------
(***************************************************************************)
(* The sessions of one account: refresh tokens and their rotation, app     *)
(* passwords, two-factor login, takedown and the administrator's password  *)
(* reset (auth.c, session_routes.c, totp_routes.c, part of account.cpp and *)
(* admin_routes.c).                                                        *)
(*                                                                         *)
(* All requests of an account share ONE SQLite connection (auth.c opens it *)
(* once per account context) and no mutex of the program covers it, so the *)
(* unit of interleaving is the SQL statement: a statement of one request   *)
(* that runs while another has a transaction open becomes part of that     *)
(* transaction, and is undone when it rolls back.  saved is the database   *)
(* at BEGIN, or NoTxn.  A statement and the sqlite3_changes call after it  *)
(* are one step.                                                           *)
(*                                                                         *)
(* The account's own database (passwords, app passwords) has a connection  *)
(* and a mutex of its own; the registry's takedown is a third database.    *)
(* Time is a bounded clock; one tick is also one TOTP step.  A client may  *)
(* present any refresh token it was ever given.                            *)
(***************************************************************************)
EXTENDS Integers, FiniteSets

CONSTANTS Requests,   \* request threads
          Apps,       \* names of app passwords
          MaxJti,     \* bound on refresh tokens ever created
          MaxSecrets, \* bound on TOTP secrets ever created
          MaxClock,   \* bound on the clock
          MaxCalls,   \* bound on requests ever made
          Life,       \* lifetime of a refresh token, in ticks
          Grace,      \* how long a rotated token may be replayed, in ticks
          Primary,    \* the account password, as a credential
          NoRow,      \* no such refresh_token row
          NoTxn       \* no transaction is open on the connection

ASSUME SessionAssumption ==
    /\ MaxJti \in Nat \ {0} /\ MaxSecrets \in Nat /\ MaxClock \in Nat \ {0}
    /\ MaxCalls \in Nat
    /\ Life \in Nat \ {0} /\ Grace \in Nat \ {0}
    /\ Primary \notin Apps

Jti == 1..MaxJti
BackupCodes == {1}  \* stands for the ten codes: each is used independently

VARIABLES db,       \* auth.sqlite3 as the connection sees it
          saved,    \* auth.sqlite3 when the open transaction began, or NoTxn
          apps,     \* app passwords in account.sqlite3
          down,     \* the account's takedown in the registry
          clock,
          request,  \* what each request thread is doing
          calls,    \* requests made so far
          used,     \* refresh token identifiers drawn so far
          held,     \* refresh tokens clients hold that this key has signed
          h         \* history, for the properties only

vars == <<db, saved, apps, down, clock, request, calls, used, held, h>>

Rows == [exp : Int, next : 0..MaxJti, grace : Int, revoked : BOOLEAN,
         app : Apps \union {Primary}]

Idle == [pc |-> "idle", tok |-> 0, new |-> 0, cred |-> Primary, now |-> 0,
         code |-> 0, secret |-> 0, then |-> "idle"]

Init ==
    /\ db = [rows |-> [j \in Jti |-> NoRow], key |-> TRUE, secret |-> 0,
             active |-> FALSE, last |-> -1, backup |-> {}]
    /\ saved = NoTxn
    /\ apps = {} /\ down = FALSE /\ clock = 1
    /\ request = [r \in Requests |-> Idle] /\ calls = 0
    /\ used = 0 /\ held = [j \in Jti |-> 0]
    /\ h = [gone |-> {}, late |-> {}, undone |-> {}, cred |-> [j \in Jti |-> Primary],
            torn |-> {}, drawn |-> 0, taken |-> {}, twice |-> FALSE,
            succ |-> [j \in Jti |-> {}]]

At(r, pc) == request[r].pc = pc
Go(r, pc) == request' = [request EXCEPT ![r].pc = pc]
Return(r) == request' = [request EXCEPT ![r] = Idle]

\* A new request on thread r.
Call(r) == At(r, "idle") /\ calls < MaxCalls /\ calls' = calls + 1

(***************************************************************************)
(* The statements of the auth store.                                       *)
(***************************************************************************)

\* prune_expired_refreshes
Pruned(d) ==
    [d EXCEPT !.rows = [j \in Jti |->
        IF d.rows[j] # NoRow /\ (\/ d.rows[j].exp <= clock
                                 \/ d.rows[j].next # 0 /\ d.rows[j].grace <= clock)
        THEN NoRow ELSE d.rows[j]]]

\* persist_refresh
Persisted(d, j, exp, app) ==
    [d EXCEPT !.rows[j] = [exp |-> exp, next |-> 0, grace |-> 0,
                           revoked |-> FALSE, app |-> app]]

Live(d, j) == d.rows[j] # NoRow /\ ~d.rows[j].revoked

\* What a ROLLBACK takes back: ended sessions that live again, successors
\* that vanish, and factor codes that were recorded as used.
Undone ==
    {j \in Jti : \/ Live(saved, j) # Live(db, j)
                 \/ (saved.rows[j] = NoRow) # (db.rows[j] = NoRow)}

\* Every row a ROLLBACK changes: one whose successor it takes back, too.
Torn == {j \in Jti : saved.rows[j] # db.rows[j]}

RolledBack(hist) ==
    [hist EXCEPT !.undone = @ \union Undone,
                 !.torn = @ \union Torn,
                 !.taken = {c \in @ : c.secret # saved.secret \/ c.step <= saved.last}]

Rollback ==
    IF saved = NoTxn
    THEN UNCHANGED <<db, saved, h>>
    ELSE db' = saved /\ saved' = NoTxn /\ h' = RolledBack(h)

\* Issuing a pair for the row new: the client now holds a refresh token that
\* expires at exp.
Issued(r, new, exp) ==
    /\ held' = [held EXCEPT ![new] = exp]
    /\ request' = [request EXCEPT ![r].pc = "ok", ![r].new = new]

(***************************************************************************)
(* createSession.                                                          *)
(***************************************************************************)

\* metalbear_account_verify_credential: what a login may present.
verify_credential == apps \union {Primary}

valid_login(r) ==
    /\ Call(r)
    /\ \E c \in verify_credential :
         request' = [request EXCEPT ![r].pc = "takedown", ![r].cred = c]
    /\ UNCHANGED <<db, saved, apps, down, clock, used, held, h>>

\* The takedown is looked up after the credentials; allowTakendown goes on
\* with a session that is never persisted.
CheckTakedown(r) ==
    /\ At(r, "takedown")
    /\ LET go(then) ==
             request' = [request EXCEPT
                 ![r].pc = IF request[r].cred = Primary THEN "factor" ELSE then,
                 ![r].then = then]
       IN IF down THEN Return(r) \/ go("takendown") ELSE go("persist")
    /\ UNCHANGED <<db, saved, apps, down, clock, calls, used, held, h>>

login_required(r) ==
    /\ At(r, "factor")
    /\ Go(r, IF db.active THEN "code" ELSE request[r].then)
    /\ UNCHANGED <<db, saved, apps, down, clock, calls, used, held, h>>

\* metalbear_totp_verify: the steps at and either side of the clock, after
\* the last one used.
Matches(last) == {s \in (clock - 1)..(clock + 1) : s > last}

\* check_totp up to the statement that consumes the code.
check_totp(r) ==
    /\ db.active
    /\ \E s \in Matches(db.last) :
         request' = [request EXCEPT ![r].pc = "use", ![r].code = s,
                                    ![r].secret = db.secret]

\* check_backup: the code is hashed and looked for.
check_backup(r) == Go(r, "backup")

\* metalbear_totp_check_login_token: six digits or a backup code; a wrong
\* code is refused.
check_login_token(r) ==
    /\ At(r, "code")
    /\ Return(r) \/ check_totp(r) \/ check_backup(r)
    /\ UNCHANGED <<db, saved, apps, down, clock, calls, used, held, h>>

\* Mutant: the step is recorded without asking whether it was used.
totp_use_stepBlind(r) ==
    LET s == request[r].code
        c == [secret |-> request[r].secret, step |-> s]
    IN
    /\ At(r, "use")
    /\ IF db.active
       THEN /\ db' = [db EXCEPT !.last = s]
            /\ h' = [h EXCEPT !.twice = @ \/ (c.secret = db.secret /\ c \in h.taken),
                               !.taken = @ \union {c}]
            /\ Go(r, request[r].then)
       ELSE Return(r) /\ UNCHANGED <<db, h>>
    /\ UNCHANGED <<saved, apps, down, clock, calls, used, held>>

\* UPDATE ... WHERE active=1 AND last_step<?: the statement does not name the
\* secret the code was checked against.
totp_use_step(r) ==
    LET s == request[r].code
        c == [secret |-> request[r].secret, step |-> s]
    IN
    /\ At(r, "use")
    /\ IF db.active /\ db.last < s
       THEN /\ db' = [db EXCEPT !.last = s]
            /\ h' = [h EXCEPT !.twice = @ \/ (c.secret = db.secret /\ c \in h.taken),
                               !.taken = @ \union {c}]
            /\ Go(r, request[r].then)
       ELSE Return(r) /\ UNCHANGED <<db, h>>
    /\ UNCHANGED <<saved, apps, down, clock, calls, used, held>>

consume_backup(r) ==
    /\ At(r, "backup")
    /\ \E b \in BackupCodes :
         IF b \in db.backup
         THEN db' = [db EXCEPT !.backup = @ \ {b}] /\ Go(r, request[r].then)
         ELSE Return(r) /\ UNCHANGED db
    /\ UNCHANGED <<saved, apps, down, clock, calls, used, held, h>>

\* metalbear_auth_create_scoped_session: prune, draw an identifier, insert,
\* sign.
create_scoped_session(r) ==
    /\ At(r, "persist") /\ used < MaxJti
    /\ used' = used + 1
    /\ db' = Persisted(Pruned(db), used + 1, clock + Life, request[r].cred)
    /\ h' = [h EXCEPT !.cred[used + 1] = request[r].cred]
    /\ Issued(r, used + 1, clock + Life)
    /\ UNCHANGED <<saved, apps, down, clock, calls>>

create_takendown_session(r) ==
    /\ At(r, "takendown") /\ used < MaxJti
    /\ used' = used + 1
    /\ db' = Pruned(db)
    /\ h' = [h EXCEPT !.cred[used + 1] = request[r].cred]
    /\ Issued(r, used + 1, clock + Life)
    /\ UNCHANGED <<saved, apps, down, clock, calls>>

(***************************************************************************)
(* refreshSession and metalbear_auth_rotate_refresh.                       *)
(***************************************************************************)

refresh_session(r) ==
    /\ Call(r) /\ ~down
    /\ \E t \in Jti :
         /\ held[t] # 0
         /\ request' = [request EXCEPT ![r].pc = "select", ![r].tok = t]
    /\ UNCHANGED <<db, saved, apps, down, clock, used, held, h>>

\* A stored row that rotate_refresh refuses (a rotated row whose grace is over
\* has just been pruned).
RowRefused(row) == row = NoRow \/ (row # NoRow /\ (row.revoked \/ row.exp <= clock))

\* rotate_refresh up to BEGIN: verify, prune, read the row, choose.
RotateSelect(r) ==
    LET t   == request[r].tok
        d   == Pruned(db)
        row == d.rows[t]
    IN
    /\ At(r, "select")
    /\ db' = IF held[t] > clock THEN d ELSE db
    /\ \/ /\ held[t] <= clock \/ RowRefused(row)
          /\ Go(r, "probe") /\ UNCHANGED <<used, h>>
       \/ /\ held[t] > clock /\ ~RowRefused(row)
          /\ IF row.next # 0
             THEN /\ request' = [request EXCEPT ![r].pc = "successor", ![r].new = row.next]
                  /\ UNCHANGED <<used, h>>
             ELSE /\ used < MaxJti
                  /\ used' = used + 1
                  /\ h' = [h EXCEPT !.cred[used + 1] = h.cred[t]]
                  /\ request' = [request EXCEPT ![r].pc = "begin", ![r].new = used + 1,
                                                ![r].cred = row.app, ![r].now = clock]
    /\ UNCHANGED <<saved, apps, down, clock, calls, held>>

\* A BEGIN on a connection that is already in a transaction fails, and the
\* ROLLBACK that answers the failure ends that other transaction.
RotateBegin(r) ==
    /\ At(r, "begin")
    /\ IF saved = NoTxn
       THEN saved' = db /\ Go(r, "update") /\ UNCHANGED <<db, h>>
       ELSE Rollback /\ Return(r)
    /\ UNCHANGED <<apps, down, clock, calls, used, held>>

LeastOf(a, b) == IF a < b THEN a ELSE b

\* Mutant: the UPDATE does not ask that the token has no successor yet.
RotateUpdateAlways(r) ==
    LET t == request[r].tok
        row == db.rows[t]
    IN
    /\ At(r, "update")
    /\ IF row # NoRow /\ ~row.revoked
       THEN /\ db' = [db EXCEPT
                 !.rows[t].next = request[r].new,
                 !.rows[t].grace = LeastOf(request[r].now + Grace, row.exp)]
            /\ Go(r, "insert") /\ UNCHANGED <<saved, h>>
       ELSE Rollback /\ Go(r, "select")
    /\ UNCHANGED <<apps, down, clock, calls, used, held>>

\* UPDATE ... WHERE next_jti IS NULL AND revoked=0; no row changed means
\* ROLLBACK and starting again.
RotateUpdate(r) ==
    LET t == request[r].tok
        row == db.rows[t]
    IN
    /\ At(r, "update")
    /\ IF row # NoRow /\ row.next = 0 /\ ~row.revoked
       THEN /\ db' = [db EXCEPT
                 !.rows[t].next = request[r].new,
                 !.rows[t].grace = LeastOf(request[r].now + Grace, row.exp)]
            /\ Go(r, "insert") /\ UNCHANGED <<saved, h>>
       ELSE Rollback /\ Go(r, "select")
    /\ UNCHANGED <<apps, down, clock, calls, used, held>>

\* Mutant: the successor forgets which app password its chain came from.
RotateInsertNoName(r) ==
    /\ At(r, "insert")
    /\ \/ /\ db' = Persisted(db, request[r].new, request[r].now + Life, Primary)
          /\ Go(r, "commit") /\ UNCHANGED <<saved, h>>
       \/ Rollback /\ Return(r)
    /\ UNCHANGED <<apps, down, clock, calls, used, held>>

\* The successor keeps the app password the chain came from.
RotateInsert(r) ==
    /\ At(r, "insert")
    /\ \/ /\ db' = Persisted(db, request[r].new, request[r].now + Life, request[r].cred)
          /\ Go(r, "commit") /\ UNCHANGED <<saved, h>>
       \/ Rollback /\ Return(r)  \* the statement fails
    /\ UNCHANGED <<apps, down, clock, calls, used, held>>

\* COMMIT ends whatever transaction is open on the connection, and fails
\* when there is none.
RotateCommit(r) ==
    /\ At(r, "commit")
    /\ IF saved # NoTxn
       THEN /\ saved' = NoTxn
            /\ Issued(r, request[r].new, request[r].now + Life)
            /\ h' = [h EXCEPT !.succ[request[r].tok] = @ \union {request[r].new}]
            /\ UNCHANGED db
       ELSE Return(r) /\ UNCHANGED <<saved, held, db, h>>
    /\ UNCHANGED <<apps, down, clock, calls, used>>

\* The COMMIT itself fails (a full disk): everything since BEGIN is undone.
RotateCommitFails(r) ==
    /\ At(r, "commit") /\ saved # NoTxn
    /\ Rollback /\ Return(r)
    /\ UNCHANGED <<apps, down, clock, calls, used, held>>

\* A replay within the grace window is answered from the successor's row.
RotateSuccessor(r) ==
    LET n == request[r].new IN
    /\ At(r, "successor")
    /\ IF Live(db, n)
       THEN /\ Issued(r, n, db.rows[n].exp)
            /\ h' = [h EXCEPT !.succ[request[r].tok] = @ \union {n}]
       ELSE Go(r, "probe") /\ UNCHANGED <<held, h>>
    /\ UNCHANGED <<db, saved, apps, down, clock, calls, used>>

\* revoke_refresh: WF_OK when the row is there, revoked already or not.
Revoked(d, t) == IF d.rows[t] = NoRow THEN d ELSE [d EXCEPT !.rows[t].revoked = TRUE]

\* A refused refresh is told apart from a forged one by revoking the token.
Probe(r) ==
    /\ At(r, "probe")
    /\ db' = Revoked(db, request[r].tok)
    /\ Return(r)
    /\ UNCHANGED <<saved, apps, down, clock, calls, used, held, h>>

Done(r) ==
    /\ At(r, "ok") /\ Return(r)
    /\ UNCHANGED <<db, saved, apps, down, clock, calls, used, held, h>>

(***************************************************************************)
(* Ending sessions: deleteSession, revokeAppPassword, takedown and the     *)
(* administrator's password reset.  A rotation that is past its read when  *)
(* sessions are ended may still insert its successor: late.                *)
(***************************************************************************)

InFlight == {request[r].new : r \in {q \in Requests : request[q].pc \in
                                        {"begin", "update", "insert", "commit"}}}

Ended(js) == h' = [h EXCEPT !.gone = @ \union js, !.late = @ \union (js \cap InFlight)]

delete_session(r) ==
    /\ Call(r)
    /\ \E t \in Jti :
         /\ held[t] # 0 /\ db.rows[t] # NoRow
         /\ db' = Revoked(db, t)
         /\ Ended({t})
    /\ UNCHANGED <<saved, apps, down, clock, request, used, held>>

create_app_password(a) ==
    /\ a \notin apps
    /\ apps' = apps \union {a}
    /\ UNCHANGED <<db, saved, down, clock, calls, request, used, held, h>>

\* The app password's own row goes first, in the other database.
revoke_app_password(r) ==
    /\ Call(r)
    /\ \E a \in apps :
         /\ apps' = apps \ {a}
         /\ request' = [request EXCEPT ![r].pc = "revoke", ![r].cred = a]
    /\ UNCHANGED <<db, saved, down, clock, used, held, h>>

revoke_app_password_sessions(r) ==
    LET a == request[r].cred IN
    /\ At(r, "revoke")
    /\ db' = [db EXCEPT !.rows = [j \in Jti |->
           IF db.rows[j] # NoRow /\ db.rows[j].app = a
           THEN [db.rows[j] EXCEPT !.revoked = TRUE] ELSE db.rows[j]]]
    /\ Ended({j \in 1..used : h.cred[j] = a})
    /\ Return(r)
    /\ UNCHANGED <<saved, apps, down, clock, calls, used, held>>

\* updateSubjectStatus applying a takedown to the account.
ApplyTakedown(r) ==
    /\ Call(r) /\ ~down
    /\ down' = TRUE /\ Go(r, "delete_all")
    /\ UNCHANGED <<db, saved, apps, clock, used, held, h>>

LiftTakedown ==
    /\ down /\ down' = FALSE
    /\ UNCHANGED <<db, saved, apps, clock, calls, request, used, held, h>>

\* admin.updateAccountPassword: the password changes, then the sessions go.
\* A client that logs in is taken to know the current password.
admin_update_account_password(r) ==
    /\ Call(r) /\ Go(r, "delete_all")
    /\ UNCHANGED <<db, saved, apps, down, clock, used, held, h>>

\* metalbear_auth_delete_all: every row and the stored signing key, which the
\* open store keeps using.
delete_all(r) ==
    /\ At(r, "delete_all")
    /\ db' = [db EXCEPT !.rows = [j \in Jti |-> NoRow], !.key = FALSE]
    /\ Ended(1..used)
    /\ Return(r)
    /\ UNCHANGED <<saved, apps, down, clock, calls, used, held>>

(***************************************************************************)
(* Two-factor enrolment.                                                   *)
(***************************************************************************)

totp_enrol(r) ==
    /\ Call(r) /\ ~db.active
    /\ Go(r, "put_pending")
    /\ UNCHANGED <<db, saved, apps, down, clock, used, held, h>>

\* The upsert leaves an active secret alone.  Secrets are random: each is new.
totp_put_pending(r) ==
    /\ At(r, "put_pending") /\ h.drawn < MaxSecrets
    /\ IF db.active
       THEN UNCHANGED <<db, h>>
       ELSE /\ db' = [db EXCEPT !.secret = h.drawn + 1, !.last = -1]
            /\ h' = [h EXCEPT !.drawn = @ + 1]
    /\ Return(r)
    /\ UNCHANGED <<saved, apps, down, clock, calls, used, held>>

\* totp_confirm: read the pending secret and check a code against it.
totp_confirm(r) ==
    /\ Call(r) /\ db.secret # 0 /\ ~db.active
    /\ \E s \in Matches(-1) :
         request' = [request EXCEPT ![r].pc = "activate", ![r].code = s,
                                    ![r].secret = db.secret]
    /\ UNCHANGED <<db, saved, apps, down, clock, used, held, h>>

\* metalbear_auth_totp_activate: here a failed BEGIN is not answered by a
\* ROLLBACK.
ActivateBegin(r) ==
    /\ At(r, "activate")
    /\ IF saved = NoTxn THEN saved' = db /\ Go(r, "activating")
                        ELSE Return(r) /\ UNCHANGED saved
    /\ UNCHANGED <<db, apps, down, clock, calls, used, held, h>>

ActivateUpdate(r) ==
    /\ At(r, "activating")
    /\ IF db.secret # 0 /\ ~db.active
       THEN /\ db' = [db EXCEPT !.active = TRUE, !.last = request[r].code,
                                !.backup = BackupCodes]
            /\ h' = [h EXCEPT !.taken = @ \union
                       {[secret |-> db.secret, step |-> request[r].code]}]
            /\ Go(r, "activated") /\ UNCHANGED saved
       ELSE Rollback /\ Return(r)
    /\ UNCHANGED <<apps, down, clock, calls, used, held>>

ActivateCommit(r) ==
    /\ At(r, "activated")
    /\ saved' = NoTxn
    /\ Return(r)
    /\ UNCHANGED <<db, apps, down, clock, calls, used, held, h>>

\* totp_disable: the password, then a code, then the deletion.
totp_disable(r) ==
    /\ Call(r) /\ db.active
    /\ request' = [request EXCEPT ![r].pc = "factor", ![r].then = "disable"]
    /\ UNCHANGED <<db, saved, apps, down, clock, used, held, h>>

DisableDelete(r) ==
    /\ At(r, "disable")
    /\ db' = [db EXCEPT !.secret = 0, !.active = FALSE, !.last = -1, !.backup = {}]
    /\ Return(r)
    /\ UNCHANGED <<saved, apps, down, clock, calls, used, held, h>>

(***************************************************************************)
(* Time, and a restart of the process.                                     *)
(***************************************************************************)

Tick ==
    /\ clock < MaxClock /\ clock' = clock + 1
    /\ UNCHANGED <<db, saved, apps, down, calls, request, used, held, h>>

\* SQLite recovers to the last commit; load_or_create_key draws a new key
\* when none is stored, and tokens signed with the old one are void.
Restart ==
    /\ \E r \in Requests : request[r] # Idle
    /\ db' = [(IF saved = NoTxn THEN db ELSE saved) EXCEPT !.key = TRUE]
    /\ h' = IF saved = NoTxn THEN h ELSE RolledBack(h)
    /\ saved' = NoTxn
    /\ held' = IF (IF saved = NoTxn THEN db ELSE saved).key THEN held
               ELSE [j \in Jti |-> 0]
    /\ request' = [r \in Requests |-> Idle]
    /\ UNCHANGED <<apps, down, clock, calls, used>>

Login(r) ==
    \/ valid_login(r) \/ CheckTakedown(r) \/ login_required(r)
    \/ check_login_token(r) \/ totp_use_step(r) \/ consume_backup(r)
    \/ create_scoped_session(r) \/ create_takendown_session(r)

Refresh(r) ==
    \/ refresh_session(r) \/ RotateSelect(r) \/ RotateBegin(r)
    \/ RotateUpdate(r) \/ RotateInsert(r) \/ RotateCommit(r)
    \/ RotateCommitFails(r) \/ RotateSuccessor(r) \/ Probe(r) \/ Done(r)

EndSessions(r) ==
    \/ delete_session(r) \/ revoke_app_password(r)
    \/ revoke_app_password_sessions(r) \/ ApplyTakedown(r)
    \/ admin_update_account_password(r) \/ delete_all(r)

TwoFactor(r) ==
    \/ totp_enrol(r) \/ totp_put_pending(r) \/ totp_confirm(r)
    \/ ActivateBegin(r) \/ ActivateUpdate(r) \/ ActivateCommit(r)
    \/ totp_disable(r) \/ DisableDelete(r)

Next ==
    \/ \E r \in Requests : Login(r) \/ Refresh(r) \/ EndSessions(r) \/ TwoFactor(r)
    \/ \E a \in Apps : create_app_password(a)
    \/ LiftTakedown \/ Tick \/ Restart

Spec == Init /\ [][Next]_vars

(***************************************************************************)
(* Properties.                                                             *)
(***************************************************************************)

\* Type invariant.
TypeOK ==
    /\ \A j \in Jti : db.rows[j] = NoRow \/ db.rows[j] \in Rows
    /\ apps \subseteq Apps /\ down \in BOOLEAN
    /\ clock \in 1..MaxClock /\ used \in 0..MaxJti
    /\ h.gone \union h.late \union h.undone \subseteq Jti

\* A session ended by deleteSession, by revoking its app password, by a
\* takedown or by the administrator's reset never lives again: not even
\* through a successor of its chain, which keeps the app password's name.
\* Excepted are sessions whose end was undone by another request's ROLLBACK
\* on the shared connection and successors a rotation was already inserting.
SessionsStayEnded ==
    \A j \in h.gone \ (h.late \union h.undone) : ~Live(db, j)

\* The same without the first exception, as auth.h promises for app
\* passwords ("Revoke every refresh chain minted from a named app password").
RevocationSticks ==
    \A j \in h.gone \ h.late : ~Live(db, j)

\* All successful refreshes with one token return the same successor, however
\* they interleave, for as long as no ROLLBACK of another request has changed
\* the token's own row (and so could take its successor back).
ReplaysAgree ==
    \A t \in Jti \ h.torn : Cardinality(h.succ[t]) <= 1

\* A TOTP code is accepted at most once while its secret is enrolled, the
\* confirming code included, however many logins present it at the same time.
\* A login that read a secret which was then replaced is not counted: the
\* statement that records its step does not look at the secret.
SecondFactorOnce == ~h.twice

=============================================================================
