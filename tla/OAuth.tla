------------------------------- MODULE OAuth -------------------------------
(***************************************************************************)
(* The OAuth server: pushed requests, codes and grants, the device         *)
(* sessions a browser carries in its cookie, and passkeys (oauth.c,        *)
(* oauth_routes.c, oauth_account_routes.c, oauth_credentials.c).           *)
(*                                                                         *)
(* Every operation of the store holds the store's mutex, so one operation  *)
(* is one step, except where it commits twice: exchanging a code or a      *)
(* refresh token deletes it in one SQLite transaction and inserts the new  *)
(* grant in another, and the process may die in between.  A request        *)
(* handler makes several such operations and holds nothing between them.   *)
(*                                                                         *)
(* A request that is refused changes nothing but expired rows, which no    *)
(* operation sees, and is left out.  key stands for all that a client      *)
(* proves at the token endpoint: its DPoP key, its PKCE verifier and its   *)
(* redirect URI.  Random values are numbers, drawn in order.  Reading the  *)
(* tokens of one cookie is one step.  A cookie lists its tokens in the     *)
(* order they were drawn, so that a set of numbers stands for the list.    *)
(***************************************************************************)
EXTENDS Integers, FiniteSets

CONSTANTS Requests,    \* request threads of the browser and the clients
          Clients, Keys, Subjects,
          Creds,       \* passkeys the user's authenticators hold
          MaxIds,      \* bound on the random values ever drawn
          MaxCalls,    \* bound on the requests ever made on the threads
          MaxClock,    \* bound on the clock
          ShortLife,   \* lifetime of a pushed request, a code, a challenge
          LongLife,    \* lifetime of a refresh token, a device session
          MaxSessions, \* MB_DEVICE_MAX_SESSIONS
          NoOne        \* nobody holds the store's mutex

ASSUME OAuthAssumption ==
    /\ MaxIds \in Nat /\ MaxCalls \in Nat /\ MaxClock \in Nat
    /\ ShortLife \in Nat \ {0} /\ LongLife \in Nat \ {0}
    /\ MaxSessions \in Nat \ {0} /\ NoOne \notin Requests

VARIABLES db,       \* oauth.sqlite3: its tables
          mutex,    \* who holds the store's mutex across two transactions
          jar,      \* the tokens in the browser's mb_device cookie
          signed,   \* assertions the authenticators made
          request,  \* what each request thread is doing
          clock,
          used,     \* random values drawn
          calls,    \* requests made on the threads
          h         \* history, for the properties only

vars == <<db, mutex, jar, signed, request, clock, used, calls, h>>

Tables == {"par", "code", "refresh", "device", "challenge", "passkey"}

Idle == [pc |-> "idle", subject |-> "", tok |-> 0, client |-> "", key |-> "",
         cookie |-> {}, keep |-> {}, drop |-> {}, count |-> 0]

\* The store as earlier use left it: the browser is signed in to one account,
\* which has registered its passkeys.
Init ==
    /\ \E s \in Subjects :
         db = [t \in Tables |->
                 CASE t = "device" -> {[id |-> 1, subject |-> s, exp |-> LongLife]}
                   [] t = "passkey" -> {[cred |-> c, subject |-> s, count |-> 0] : c \in Creds}
                   [] OTHER -> {}]
    /\ mutex = NoOne /\ jar = {1} /\ signed = {}
    /\ request = [r \in Requests |-> Idle]
    /\ clock = 0 /\ used = 1 /\ calls = 0
    /\ h = [pushed |-> {}, approved |-> {}, spent |-> {}, twice |-> {},
            chains |-> {}, revoked |-> {}, dropped |-> {}]

At(r, pc) == request[r].pc = pc
Call(r) == At(r, "idle") /\ calls < MaxCalls /\ calls' = calls + 1
Return(r) == request' = [request EXCEPT ![r] = Idle]
Free == mutex = NoOne
Fresh == used < MaxIds /\ used' = used + 1
New == used + 1

(***************************************************************************)
(* Statements of the store.                                                *)
(***************************************************************************)

\* prune
prune(d) ==
    [t \in Tables |-> IF t = "passkey" THEN d[t] ELSE {x \in d[t] : x.exp > clock}]

Live(t) == {x \in db[t] : x.exp > clock}
Insert(d, t, row) == [d EXCEPT ![t] = @ \union {row}]
Delete(d, t, rows) == [d EXCEPT ![t] = @ \ rows]

\* What was minted from the single-use value id.
Spend(hist, id) ==
    [hist EXCEPT !.twice = @ \union ({id} \intersect hist.spent),
                 !.spent = @ \union {id}]

(***************************************************************************)
(* Pushed request, approval, grant.                                        *)
(***************************************************************************)

\* metalbear_oauth_create_par
create_par(id, c, k) ==
    Insert(prune(db), "par", [id |-> id, client |-> c, key |-> k, exp |-> clock + ShortLife])

oauth_par ==
    /\ Free /\ Fresh
    /\ \E c \in Clients, k \in Keys :
         /\ db' = create_par(New, c, k)
         /\ h' = [h EXCEPT !.pushed = @ \union {<<New, c, k>>}]
    /\ UNCHANGED <<mutex, jar, signed, request, clock, calls>>

\* read_device_sessions: the tokens of a cookie that are still valid.
read_device_sessions(cookie) ==
    {t \in cookie : \E x \in Live("device") : x.id = t}

SubjectOf(t) == (CHOOSE x \in db["device"] : x.id = t).subject

device_session_authorizes(cookie, s) ==
    \E t \in read_device_sessions(cookie) : SubjectOf(t) = s

\* oauth_authorize, up to the check that the browser is signed in as the
\* account the hint names.
oauth_authorize(r) ==
    /\ Call(r) /\ Free
    /\ \E p \in db["par"], s \in Subjects, c \in Clients :
         /\ device_session_authorizes(jar, s)
         /\ request' = [request EXCEPT ![r].pc = "authorize", ![r].tok = p.id,
                                       ![r].subject = s, ![r].client = c]
         /\ h' = [h EXCEPT !.approved = @ \union {<<p.id, s>>}]
    /\ UNCHANGED <<db, mutex, jar, signed, clock, used>>

\* metalbear_oauth_authorize: one transaction turns the pushed request into
\* a code, or rolls back.
Authorize(r) ==
    /\ At(r, "authorize") /\ Free /\ Return(r)
    /\ LET par == {p \in Live("par") : p.id = request[r].tok /\ p.client = request[r].client}
       IN \/ /\ par # {} /\ Fresh
             /\ LET p == CHOOSE x \in par : TRUE IN
                /\ db' = Insert(Delete(prune(db), "par", par), "code",
                                [id |-> New, client |-> p.client, key |-> p.key,
                                 subject |-> request[r].subject, exp |-> clock + ShortLife])
                /\ h' = Spend(h, p.id)
          \/ db' = prune(db) /\ UNCHANGED <<used, h>>
    /\ UNCHANGED <<mutex, jar, signed, clock, calls>>

\* What a client proves of a code or a refresh token at the token endpoint: its
\* own name, by its assertion, and the key of its DPoP proof.
Proves(row, client, k) == row.client = client /\ row.key = k

\* The DELETE that consumes a code or a refresh token commits on its own; the
\* mutex is kept for the grant that follows, to the client that asked.
Consume(r, t, row, client, root) ==
    /\ db' = Delete(prune(db), t, {row})
    /\ mutex' = r
    /\ request' = [request EXCEPT ![r] = [Idle EXCEPT !.pc = "issue", !.tok = row.id,
                       !.client = client, !.key = row.key, !.subject = row.subject,
                       !.count = root]]

\* exchange_code: a code is good for the client and the key it was bound to;
\* a mismatch leaves it in place.
exchange_codeAnyClient(r) ==
    /\ Call(r) /\ Free
    /\ \E c \in Live("code"), client \in Clients, k \in Keys :
         c.key = k /\ Consume(r, "code", c, client, c.id)
    /\ UNCHANGED <<jar, signed, clock, used, h>>

exchange_code(r) ==
    /\ Call(r) /\ Free
    /\ \E c \in Live("code"), client \in Clients, k \in Keys :
         Proves(c, client, k) /\ Consume(r, "code", c, client, c.id)
    /\ UNCHANGED <<jar, signed, clock, used, h>>

\* metalbear_oauth_refresh
refreshUnlocked(r) ==
    /\ Call(r) /\ Free
    /\ \E x \in Live("refresh"), client \in Clients, k \in Keys :
         /\ Proves(x, client, k)
         /\ db' = Delete(prune(db), "refresh", {x})
         /\ request' = [request EXCEPT ![r] = [Idle EXCEPT !.pc = "issue", !.tok = x.id,
                            !.client = client, !.key = x.key, !.subject = x.subject,
                            !.count = x.root]]
    /\ UNCHANGED <<mutex, jar, signed, clock, used, h>>

refresh(r) ==
    /\ Call(r) /\ Free
    /\ \E x \in Live("refresh"), client \in Clients, k \in Keys :
         Proves(x, client, k) /\ Consume(r, "refresh", x, client, x.root)
    /\ UNCHANGED <<jar, signed, clock, used, h>>

\* oauth_token: one route for both kinds of grant.
oauth_token(r) == exchange_code(r) \/ refresh(r)

\* issue_grant: the access token is only signed; the refresh token is stored.
\* root is the code the chain of refresh tokens began with.
issue_grant(r) ==
    /\ At(r, "issue") /\ Return(r) /\ mutex' = NoOne
    /\ \/ /\ Fresh
          /\ db' = Insert(db, "refresh",
                 [id |-> New, client |-> request[r].client, key |-> request[r].key,
                  subject |-> request[r].subject, exp |-> clock + LongLife,
                  root |-> request[r].count])
          /\ h' = [Spend(h, request[r].tok) EXCEPT !.chains = @ \union
                      {<<request[r].count, request[r].subject, request[r].client>>}]
       \/ UNCHANGED <<db, used, h>>
    /\ UNCHANGED <<jar, signed, clock, calls>>

\* Rows of refresh tokens are deleted on the user's word, which ends chains.
Revoke(rows, roots) ==
    /\ Free /\ roots # {}
    /\ db' = Delete(db, "refresh", rows)
    /\ h' = [h EXCEPT !.revoked = @ \union roots]
    /\ UNCHANGED <<mutex, jar, signed, request, clock, used, calls>>

\* oauth_revoke: one token, whoever presents it.
oauth_revoke == \E x \in db["refresh"] : Revoke({x}, {x.root})

\* metalbear_oauth_grants_revoke: all of a client's tokens for an account.
grants_revoke(s, c) == {x \in db["refresh"] : x.subject = s /\ x.client = c}

\* oauth_revoke_grant, for the caller's account.
oauth_revoke_grant ==
    \E s \in Subjects, c \in Clients :
        Revoke(grants_revoke(s, c),
               {x[1] : x \in {y \in h.chains : y[2] = s /\ y[3] = c}})

(***************************************************************************)
(* Device sessions and the cookie.                                         *)
(***************************************************************************)

\* oauth_signin: the password has been checked (verify_oauth_credential).
oauth_signin(r) ==
    /\ Call(r)
    /\ \E s \in Subjects :
         request' = [request EXCEPT ![r].pc = "read", ![r].subject = s, ![r].cookie = jar]
    /\ UNCHANGED <<db, mutex, jar, signed, clock, used, h>>

\* What finish_device_signin keeps of the cookie: the other accounts' tokens,
\* without the oldest when the cookie is full.
Kept(existing, s) ==
    LET others == {t \in existing : SubjectOf(t) # s}
    IN {t \in others : Cardinality({u \in others : u > t}) < MaxSessions - 1}

\* What it then revokes: the account's own tokens and the evicted one.
DroppedOwn(existing, keep, s) ==
    {t \in existing : SubjectOf(t) = s}

Dropped(existing, keep, s) == existing \ keep

\* finish_device_signin, reading what the cookie still holds.
finish_device_signin(r) ==
    /\ At(r, "read") /\ Free
    /\ LET existing == read_device_sessions(request[r].cookie)
           s == request[r].subject
           keep == Kept(existing, s)
       IN request' = [request EXCEPT ![r].pc = "revoke", ![r].keep = keep,
                                     ![r].drop = Dropped(existing, keep, s),
                                     ![r].tok = 1]
    /\ UNCHANGED <<db, mutex, jar, signed, clock, used, calls, h>>

\* device_session_revoke, one token at a time.
device_session_revoke(r) ==
    /\ At(r, "revoke") /\ Free
    /\ \E t \in request[r].drop :
         /\ db' = Delete(db, "device", {x \in db["device"] : x.id = t})
         /\ request' = [request EXCEPT ![r].drop = @ \ {t}]
    /\ UNCHANGED <<mutex, jar, signed, clock, used, calls, h>>

\* The answer rewrites the cookie.
SetCookie(r, tokens) ==
    /\ jar' = tokens
    /\ h' = [h EXCEPT !.dropped = @ \union (request[r].cookie \ tokens)]

\* device_session_create and the answer; a failed INSERT answers 500 and
\* leaves the browser with the cookie it had.
device_session_create(r) ==
    /\ At(r, "revoke") /\ Free /\ request[r].drop = {} /\ request[r].tok = 1
    /\ Return(r)
    /\ \/ /\ Fresh
          /\ db' = Insert(prune(db), "device", [id |-> New, subject |-> request[r].subject,
                                                exp |-> clock + LongLife])
          /\ SetCookie(r, request[r].keep \union {New})
       \/ db' = prune(db) /\ UNCHANGED <<jar, used, h>>
    /\ UNCHANGED <<mutex, signed, clock, calls>>

\* oauth_signout of every account of the cookie, or of one.
oauth_signout(r) ==
    /\ Call(r) /\ Free /\ jar # {}
    /\ \E only \in Subjects \union {"every"} :
         LET existing == read_device_sessions(jar)
             keep == {t \in existing : only # "every" /\ SubjectOf(t) # only}
         IN request' = [request EXCEPT ![r].pc = "revoke", ![r].cookie = jar,
                            ![r].keep = keep, ![r].drop = Dropped(existing, keep, only)]
    /\ UNCHANGED <<db, mutex, jar, signed, clock, used, h>>

SignoutAnswer(r) ==
    /\ At(r, "revoke") /\ request[r].drop = {} /\ request[r].tok = 0
    /\ Return(r) /\ SetCookie(r, request[r].keep)
    /\ UNCHANGED <<db, mutex, signed, clock, used, calls>>

\* oauth_revoke_device: by the identifier listDevices gave.
oauth_revoke_device ==
    /\ Free
    /\ \E x \in db["device"] : db' = Delete(db, "device", {x})
    /\ UNCHANGED <<mutex, jar, signed, request, clock, used, calls, h>>

(***************************************************************************)
(* Passkeys.                                                               *)
(***************************************************************************)

\* Registering and removing ask first whether the browser is signed in as the
\* account they name.
CheckDevice(r, pc) ==
    /\ Call(r) /\ Free
    /\ \E s \in Subjects :
         /\ device_session_authorizes(jar, s)
         /\ request' = [request EXCEPT ![r].pc = pc, ![r].subject = s]
    /\ UNCHANGED <<db, mutex, jar, signed, clock, used, h>>

passkey_register_options(r) == CheckDevice(r, "create")
passkey_register_verify(r) == CheckDevice(r, "register")
passkey_remove(r) == CheckDevice(r, "remove")

\* metalbear_oauth_passkey_exists
passkey_exists(s) == \E x \in db["passkey"] : x.subject = s

passkey_authenticate_options(r) ==
    /\ Call(r) /\ Free
    /\ \E s \in Subjects :
         /\ passkey_exists(s)
         /\ request' = [request EXCEPT ![r].pc = "get", ![r].subject = s]
    /\ UNCHANGED <<db, mutex, jar, signed, clock, used, h>>

\* passkey_challenge_create, for the ceremony "create" or "get".  The user's
\* authenticator answers a "get" with an assertion that carries its counter.
passkey_challenge_create(r) ==
    /\ request[r].pc \in {"create", "get"} /\ Free /\ Fresh /\ Return(r)
    /\ db' = Insert(prune(db), "challenge",
               [id |-> New, ceremony |-> request[r].pc, subject |-> request[r].subject,
                exp |-> clock + ShortLife])
    /\ IF request[r].pc = "get"
       THEN \E c \in Creds : signed' = signed \union
                {[cred |-> c, challenge |-> New, count |-> Cardinality(signed) + 1]}
       ELSE UNCHANGED signed
    /\ UNCHANGED <<mutex, jar, clock, calls, h>>

\* passkey_challenge_consume: what a challenge of the ceremony may be found in.
Challenge(ceremony) == {x \in Live("challenge") : x.ceremony = ceremony}

\* passkey_register_verify: the challenge is consumed whatever it was issued
\* for, and registers only when that was this account.
register_consume(r) ==
    /\ At(r, "register") /\ Free
    /\ \E x \in Challenge("create") :
         /\ db' = Delete(db, "challenge", {x})
         /\ IF x.subject = request[r].subject
            THEN request' = [request EXCEPT ![r].pc = "add"]
            ELSE Return(r)
    /\ UNCHANGED <<mutex, jar, signed, clock, used, calls, h>>

\* passkey_add: a credential that is registered already is refused.
passkey_add(r) ==
    /\ At(r, "add") /\ Free /\ Return(r)
    /\ \E c \in Creds :
         db' = IF \E x \in db["passkey"] : x.cred = c THEN db
               ELSE Insert(db, "passkey", [cred |-> c, subject |-> request[r].subject,
                                           count |-> 0])
    /\ UNCHANGED <<mutex, jar, signed, clock, used, calls, h>>

\* passkey_authenticate_verify, as far as passkey_lookup; count is the stored
\* counter from here on.
passkey_lookup(r) ==
    /\ Call(r) /\ Free
    /\ \E a \in signed, x \in db["passkey"] :
         /\ x.cred = a.cred
         /\ request' = [request EXCEPT ![r].pc = "assert", ![r].subject = x.subject,
                            ![r].client = a, ![r].count = x.count, ![r].cookie = jar]
    /\ UNCHANGED <<db, mutex, jar, signed, clock, used, h>>

\* An authenticator that never counts is let through; one that does must have
\* counted on.
counter_ok(new, stored) == (new = 0 /\ stored = 0) \/ new > stored

\* passkey_challenge_consume, then the signature and the counter.
authenticate_consumeKeeps(r) ==
    /\ At(r, "assert") /\ Free
    /\ LET a == request[r].client
           row == {x \in Challenge("get") : x.id = a.challenge}
           ok == /\ \E x \in row : x.subject = request[r].subject
                 /\ counter_ok(a.count, request[r].count)
       IN IF ok THEN request' = [request EXCEPT ![r].pc = "touch"] ELSE Return(r)
    /\ UNCHANGED <<db, mutex, jar, signed, clock, used, calls, h>>

authenticate_consume(r) ==
    /\ At(r, "assert") /\ Free
    /\ LET a == request[r].client
           row == {x \in Challenge("get") : x.id = a.challenge}
           ok == /\ \E x \in row : x.subject = request[r].subject
                 /\ counter_ok(a.count, request[r].count)
       IN /\ db' = Delete(db, "challenge", row)
          /\ IF ok THEN request' = [request EXCEPT ![r].pc = "touch"] ELSE Return(r)
    /\ UNCHANGED <<mutex, jar, signed, clock, used, calls, h>>

\* passkey_touch: the counter is written without looking at it again.  Then
\* the browser is signed in as after a password.
passkey_touch(r) ==
    /\ At(r, "touch") /\ Free
    /\ LET a == request[r].client IN
       /\ db' = [db EXCEPT !["passkey"] =
                    {IF x.cred = a.cred THEN [x EXCEPT !.count = a.count] ELSE x : x \in @}]
       /\ h' = Spend(h, a.challenge)
    /\ request' = [request EXCEPT ![r].pc = "read", ![r].client = "", ![r].count = 0]
    /\ UNCHANGED <<mutex, jar, signed, clock, used, calls>>

\* metalbear_oauth_passkey_remove
PasskeyRemove(r) ==
    /\ At(r, "remove") /\ Free /\ Return(r)
    /\ \E c \in Creds :
         db' = Delete(db, "passkey",
                      {x \in db["passkey"] : x.cred = c /\ x.subject = request[r].subject})
    /\ UNCHANGED <<mutex, jar, signed, clock, used, calls, h>>

(***************************************************************************)
(* The environment.                                                        *)
(***************************************************************************)

Tick ==
    /\ clock < MaxClock /\ clock' = clock + 1
    /\ UNCHANGED <<db, mutex, jar, signed, request, used, calls, h>>

\* The process dies and starts again on the same database.
Restart ==
    /\ \E r \in Requests : request[r] # Idle
    /\ request' = [r \in Requests |-> Idle] /\ mutex' = NoOne
    /\ UNCHANGED <<db, jar, signed, clock, used, calls, h>>

Grants(r) == \/ oauth_authorize(r) \/ Authorize(r)
             \/ oauth_token(r) \/ issue_grant(r)
Devices(r) == \/ oauth_signin(r) \/ finish_device_signin(r) \/ device_session_revoke(r)
              \/ device_session_create(r) \/ oauth_signout(r) \/ SignoutAnswer(r)
Passkeys(r) == \/ passkey_register_options(r) \/ passkey_register_verify(r)
               \/ passkey_remove(r) \/ passkey_authenticate_options(r)
               \/ passkey_challenge_create(r) \/ register_consume(r) \/ passkey_add(r)
               \/ passkey_lookup(r) \/ authenticate_consume(r) \/ passkey_touch(r)
               \/ PasskeyRemove(r)

Next == \/ oauth_par \/ oauth_revoke \/ oauth_revoke_grant \/ oauth_revoke_device
        \/ \E r \in Requests : Grants(r) \/ Devices(r) \/ Passkeys(r)
        \/ Tick \/ Restart

Spec == Init /\ [][Next]_vars

(***************************************************************************)
(* Properties.                                                             *)
(***************************************************************************)

\* A pushed request becomes one code, a code one grant, a refresh token one
\* successor and a passkey challenge one sign-in, however requests race,
\* statements fail and the process dies between the DELETE and what follows.
SingleUse == h.twice = {}

\* Every code and every refresh token speaks for an account whose device
\* session the approving browser held, and is bound to the client and the key
\* of the very request that was pushed, through all its rotations.
GrantProvenance ==
    \A x \in db["code"] \union db["refresh"] :
        \E p \in h.pushed : /\ p[2] = x.client /\ p[3] = x.key
                            /\ <<p[1], x.subject>> \in h.approved

\* After oauth/revoke of a token no successor of it exists, and after
\* revokeGrant none of the client's chains for the account goes on, whatever
\* refresh was under way.
RevokedGrantEnds == \A x \in db["refresh"] : x.root \notin h.revoked

\* A token that leaves the browser's cookie, by sign-out, by a second sign-in
\* or because the cookie is full, no longer opens anything.
DroppedIsRevoked == \A x \in Live("device") : x.id \notin h.dropped

=============================================================================
