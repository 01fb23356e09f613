------------------------------- MODULE Access -------------------------------
(***************************************************************************)
(* Who may do what: the authentication of every XRPC request               *)
(* (authenticate_request in server_auth.c), the availability guard of the  *)
(* read handlers (server_guards.c), and the handlers that hand out or take *)
(* away authority: createSession, createAppPassword, getServiceAuth,       *)
(* activateAccount, deactivateAccount and the administrator's              *)
(* updateSubjectStatus.                                                    *)
(*                                                                         *)
(* An account's takedown (registry) and its active flag (its own store)    *)
(* are in two databases and read by separate queries; a request reads them *)
(* one after the other, in an order that depends on the route, while other *)
(* requests change them.  Every read is a step here.  Verifying a token    *)
(* and deciding its scope read nothing that changes, so a request arrives  *)
(* with the first of these reads.                                          *)
(*                                                                         *)
(* Methods are named by their NSID without "com.atproto.".  Access tokens  *)
(* are not stored: each one ever issued stays valid (they expire after two *)
(* hours, and a takedown drops an account's signing key, but not from the  *)
(* open context; module Sessions has both).  Any OAuth grant               *)
(* in Grants may be held for any account (module OAuth has how they come   *)
(* about).                                                                 *)
(*                                                                         *)
(* Left out: rate limits, the moderation service's access to               *)
(* getPreferences, accounts the server does not host, and what the         *)
(* handlers not listed above do.  An account has one record, with a blob.  *)
(***************************************************************************)
EXTENDS Scopes

CONSTANTS Dids,       \* the accounts hosted
          Requests,   \* request threads
          Grants,     \* OAuth grants: each a set of scopes
          MaxCalls,   \* bound on requests ever made
          Pds,        \* this server, as the audience of an rpc: scope
          Appview,    \* the default AppView, likewise
          None

ASSUME AccessAssumption ==
    /\ {Pds, Appview} \subseteq Audiences
    /\ MaxCalls \in Nat

\* The text of a scope has one positional value at most, and its query is of
\* names with a value.
ASSUME GrantsAssumption ==
    \A grant \in Grants : \A p \in grant :
        /\ \A a, b \in p.pos : a = b
        /\ \A q \in p.query : q = <<q[1], q[2]>>

VARIABLES active,   \* accounts that are not deactivated
          down,     \* accounts taken down, in the registry
          withheld, \* accounts with their record, and its blob, taken down
          apps,     \* app passwords
          tokens,   \* session access tokens issued
          minted,   \* service tokens issued
          req,      \* what each request thread is doing
          calls     \* requests made so far

vars == <<active, down, withheld, apps, tokens, minted, req, calls>>

Idle == [pc |-> "idle"]
InFlight(r) == req[r] # Idle
At(r, pc) == req[r].pc = pc
Go(r, pc) == req' = [req EXCEPT ![r].pc = pc]
Refuse(r) == req' = [req EXCEPT ![r] = Idle]
Answer(r, a) == req' = [req EXCEPT ![r].pc = "done", ![r].ans = a]

(***************************************************************************)
(* The tables of routes.                                                   *)
(***************************************************************************)
is_public_route(nsid) == nsid \in
    {"server.describeServer", "_health", "server.createSession",
     "server.createAccount", "server.requestPasswordReset",
     "server.resetPassword", "server.reserveSigningKey",
     "identity.resolveHandle", "identity.resolveDid",
     "identity.resolveIdentity", "identity.refreshIdentity",
     "repo.getRecord", "repo.describeRepo", "repo.listRecords",
     "label.queryLabels", "sync.getLatestCommit", "sync.getBlob",
     "sync.getRepo", "sync.getBlocks", "sync.getRepoStatus",
     "sync.listRepos", "sync.listReposByCollection", "sync.listBlobs",
     "sync.getRecord", "sync.subscribeRepos", "sync.requestCrawl"}

is_admin_route(nsid) == nsid \in
    {"server.createInviteCode", "server.createInviteCodes",
     "admin.getAccountInfo", "admin.getAccountInfos",
     "admin.getSubjectStatus", "admin.updateSubjectStatus",
     "admin.sendEmail", "admin.updateAccountHandle",
     "admin.updateAccountEmail", "admin.updateAccountPassword",
     "admin.enableAccountInvites", "admin.disableAccountInvites",
     "admin.getInviteCodes", "admin.disableInviteCodes",
     "admin.deleteAccount"}

inactive_route_allowed(nsid) == nsid \in
    {"server.getSession", "server.checkAccountStatus",
     "server.activateAccount", "server.deactivateAccount",
     "server.refreshSession", "server.deleteSession"}

oauth_forbidden_route(nsid) == nsid \in
    {"server.createAppPassword", "server.activateAccount",
     "server.deactivateAccount", "server.requestAccountDelete",
     "server.requestEmailUpdate", "server.getAccountInviteCodes"}

PlcOperations == {"identity.requestPlcOperationSignature", "identity.signPlcOperation"}

\* MUTANT of full_access_route: createAppPassword left off the list.
full_access_routeShort(nsid) ==
    \/ nsid \in {"server.activateAccount", "server.deactivateAccount", "repo.importRepo"}
    \/ nsid \in PlcOperations
    \/ nsid \in {"server.requestAccountDelete", "server.requestEmailUpdate",
                 "server.getAccountInviteCodes"}

full_access_route(nsid) ==
    \/ nsid \in {"server.createAppPassword", "server.activateAccount",
                 "server.deactivateAccount", "repo.importRepo"}
    \/ nsid \in PlcOperations
    \/ nsid \in {"server.requestAccountDelete", "server.requestEmailUpdate",
                 "server.getAccountInviteCodes"}

Exports == {"sync.getRepo", "sync.getBlob", "sync.listBlobs"}

takendown_route_allowed(nsid) ==
    nsid \in Exports \union PlcOperations \union
        {"server.deactivateAccount", "moderation.createReport",
         "server.getServiceAuth", "app.bsky.actor.getPreferences"}

Preferences == {"app.bsky.actor.getPreferences", "app.bsky.actor.putPreferences"}

\* Everything under app.bsky., chat.bsky. and tools.ozone. but the
\* preferences, of the methods of this instance.
proxied_appview_rpc_route(nsid) ==
    nsid \in {"app.bsky.feed.getTimeline", "chat.bsky.convo.getLog",
              "tools.ozone.moderation.getEvent"}

protected_service_method(lxm) == lxm \in
    {"admin.sendEmail", "identity.requestPlcOperationSignature",
     "identity.signPlcOperation", "identity.submitPlcOperation",
     "identity.updateHandle", "server.activateAccount",
     "server.confirmEmail", "server.createAppPassword",
     "server.deactivateAccount", "server.getAccountInviteCodes",
     "server.getSession", "server.listAppPasswords",
     "server.requestAccountDelete", "server.requestEmailConfirmation",
     "server.requestEmailUpdate", "server.revokeAppPassword",
     "server.updateEmail"}

privileged_service_method(lxm) ==
    lxm \in {"chat.bsky.convo.getLog", "server.createAccount"}

(***************************************************************************)
(* Session tokens and their scopes.                                        *)
(***************************************************************************)
access_scope_name(scope) ==
    CASE scope = "app"        -> "com.atproto.appPass"
      [] scope = "privileged" -> "com.atproto.appPassPrivileged"
      [] scope = "takendown"  -> "com.atproto.takendown"
      [] OTHER                -> "com.atproto.access"

Scopes == {"full", "app", "privileged", "takendown"}

\* The scope a claim names; None when it names none.
parse_access_scope(claim) ==
    IF \E s \in Scopes : access_scope_name(s) = claim
    THEN CHOOSE s \in Scopes : access_scope_name(s) = claim
    ELSE None

\* What the auth store of account d says of a credential: each account has a
\* key of its own, and the subject must be the account's.
verify_jwt(cred, d) ==
    IF cred.kind = "session" /\ cred.did = d THEN parse_access_scope(cred.claim) ELSE None

(***************************************************************************)
(* What a narrow OAuth grant lets a request do.                            *)
(***************************************************************************)

\* The routes that a permission of a kind of its own decides.
DecidedByScope(set, nsid, arg) ==
    CASE nsid = "repo.uploadBlob"          -> allows_blob(set, arg)
      [] nsid = "repo.importRepo"          -> allows_account(set, "repo", "manage")
      [] nsid \in PlcOperations            -> allows_identity(set, Wildcard)
      [] nsid = "identity.updateHandle"    -> allows_identity(set, "handle")
      [] nsid = "server.getServiceAuth"    -> allows_rpc(set, arg[1], arg[2])
      [] nsid \in Preferences \union {"moderation.createReport"}
                                           -> allows_rpc(set, nsid, Pds)
      [] OTHER                             -> allows_rpc(set, nsid, Appview)

HasOwnScope(nsid) ==
    \/ nsid \in {"repo.uploadBlob", "repo.importRepo", "identity.updateHandle",
                 "server.getServiceAuth", "moderation.createReport"}
    \/ nsid \in PlcOperations \union Preferences
    \/ proxied_appview_rpc_route(nsid)

\* Every other route goes by its collection; a write without one is left to
\* its handler, a read without one is refused.
Writes == [create |-> "repo.createRecord", update |-> "repo.putRecord",
           delete |-> "repo.deleteRecord"]

DecidedByCollection(set, nsid, coll) ==
    IF \E a \in RepoActions : Writes[a] = nsid
    THEN coll = None \/ \A a \in RepoActions : Writes[a] = nsid => allows_repo(set, coll, a)
    ELSE coll # None /\ allows_read(set, coll)

\* A grant without a scope, from before grants had one, is a full one.
oauth_admits(grant, nsid, arg) ==
    LET set == scope_set_parse(grant)
    IN  /\ ~oauth_forbidden_route(nsid)
        /\ \/ grant = {}
           \/ is_full_access(set)
           \/ HasOwnScope(nsid) /\ DecidedByScope(set, nsid, arg)
           \/ ~HasOwnScope(nsid) /\ DecidedByCollection(set, nsid, arg)

refresh_route(nsid) == nsid \in {"server.refreshSession", "server.deleteSession"}

\* The refresh pair is not verified here, and goes on with the full scope.
ScopeOf(cred, nsid) ==
    IF cred.kind = "oauth" \/ refresh_route(nsid) THEN "full" ELSE verify_jwt(cred, cred.did)

\* Whether the token is good for the route, whatever the account's status.
TokenAdmits(cred, nsid, arg) ==
    \/ cred.kind = "oauth" /\ oauth_admits(cred.grant, nsid, arg)
    \/ /\ cred.kind = "session"
       /\ LET scope == ScopeOf(cred, nsid)
          IN  /\ scope # None
              /\ \/ ~full_access_route(nsid)
                 \/ scope = "full"
                 \/ scope = "takendown" /\ takendown_route_allowed(nsid)

(***************************************************************************)
(* The status of an account, and what a request in flight has lived        *)
(* through: seen holds every status of its account since it arrived.       *)
(***************************************************************************)
\* The registry's table of takedowns, one row at most for a subject.
get_takedown(table, subject) == subject \in table
set_takedown(table, subject, applying) ==
    IF applying THEN table \union {subject} ELSE table \ {subject}

account_is_taken_down(d) == get_takedown(down, d)
account_is_active(d) == d \in active

Status(d, act, dwn) ==
    IF d \in dwn THEN "takendown" ELSE IF d \in act THEN "active" ELSE "deactivated"

\* The requests of account d see what its flags become.
Note(threads, d, act, dwn) ==
    [r \in Requests |->
        IF \/ threads[r] = Idle \/ threads[r].did # d
           \/ (d \in act <=> d \in active) /\ (d \in dwn <=> d \in down)
        THEN threads[r]
        ELSE [threads[r] EXCEPT !.seen = @ \union {Status(d, act, dwn)},
                                !.changes = IF @ < 2 THEN @ + 1 ELSE @]]

SetStatus(r, d, act, dwn) ==
    /\ active' = act /\ down' = dwn
    /\ req' = Note([req EXCEPT ![r] = Idle], d, act, dwn)

\* The reads that name one record or blob.
NamesOne == {"repo.getRecord", "sync.getBlob"}

\* hid: the record or blob named has been taken down all the while.
Began(nsid, cred, d, arg, scope, pc) ==
    [pc |-> pc, nsid |-> nsid, cred |-> cred, did |-> d, arg |-> arg,
     scope |-> scope, authed |-> None, ans |-> None,
     seen |-> {Status(d, active, down)}, changes |-> 0,
     hid |-> nsid \in NamesOne /\ d \in withheld]

Call(r) == ~InFlight(r) /\ calls < MaxCalls /\ calls' = calls + 1
stores == <<active, down, withheld, apps, tokens, minted>>

\* Accounts, taken down or not, whose holders signed in with their passwords
\* before that and made an app password of each kind.
Init ==
    /\ active = Dids /\ down \in SUBSET Dids
    /\ withheld = {} /\ minted = {}
    /\ apps = [did : Dids, by : {"account"}, kind : {"privileged", "app"}]
    /\ tokens = [kind : {"session"}, did : Dids, claim : {access_scope_name("full")},
                 origin : {"account"}]
    /\ req = [r \in Requests |-> Idle]
    /\ calls = 0

(***************************************************************************)
(* Arrival.  A request that is refused at once changes nothing and is not  *)
(* a step.                                                                 *)
(***************************************************************************)
Anonymous == [kind |-> "none"]
Admin == [kind |-> "admin"]
OAuthTokens == [kind : {"oauth"}, did : Dids, grant : Grants]

\* The parameters tried with a method: a collection, or what the method takes.
Arguments(nsid) ==
    CASE nsid = "repo.uploadBlob" -> {<<"image", "png">>, <<"text", "html">>}
      [] nsid = "server.getServiceAuth" ->
            {Wildcard, "server.createAccount", "chat.bsky.convo.getLog",
             "identity.signPlcOperation"} \X Audiences
      [] nsid = "server.createAppPassword" -> BOOLEAN
      [] nsid = "admin.updateSubjectStatus" ->
            {"takedown", "lift", "deactivate", "activate", "hide", "show"}
      [] nsid = "admin.getSubjectStatus" -> {"account", "record"}
      [] nsid \in {Writes[a] : a \in RepoActions} \union {"repo.applyWrites"} ->
            Collections \union {None}
      [] OTHER -> {None}

\* A scope of the grant, as it was written, that speaks for the request.
Speaks(p, nsid, arg) ==
    \/ p.type = "static" /\ p.pos = {"atproto"}
    \/ p.type = "repo" /\ p.pos = {Wildcard} /\ p.query = {}
    \/ arg = None /\ nsid \in {Writes[a] : a \in RepoActions}
    \/ /\ p.type = "repo" /\ p.pos \cap {Wildcard, arg} # {}
       /\ \A a \in RepoActions : Writes[a] = nsid =>
             p.query = {} \/ \E v \in Values(p, "action") : v \in Abbreviations[a]
    \/ /\ p.type = "blob" /\ nsid = "repo.uploadBlob"
       /\ \E m \in p.pos \union Values(p, "accept") : m[1] \in {Wildcard, arg[1]}
    \/ p.type = "account" /\ nsid = "repo.importRepo" /\ <<"action", "manage">> \in p.query
    \/ p.type = "identity" /\ nsid \in PlcOperations /\ p.pos = {Wildcard}
    \/ p.type = "identity" /\ nsid = "identity.updateHandle"
    \/ /\ p.type = "rpc" /\ HasOwnScope(nsid)
       /\ LET lxm == IF nsid = "server.getServiceAuth" THEN arg[1] ELSE nsid
          IN  {Wildcard, lxm} \cap (p.pos \union Values(p, "lxm")) # {}

\* MUTANT of taken_down_refused: the narrow scope passes on every route.
taken_down_refusedShort(d, scope, nsid) == account_is_taken_down(d) /\ scope # "takendown"

\* A taken-down account is left with its narrow scope, on the routes that are
\* open to it.
taken_down_refused(d, scope, nsid) ==
    account_is_taken_down(d) /\ (scope # "takendown" \/ ~takendown_route_allowed(nsid))

\* What is left of a credential and of the parameters once they are checked.
\* said is for the properties: some scope of the grant speaks for the request.
Presented(cred, nsid, arg) ==
    IF cred.kind = "session" THEN cred
    ELSE [kind |-> "oauth",
          said |-> cred.grant = {} \/ \E p \in cred.grant : Speaks(p, nsid, arg)]

Kept(nsid, arg) ==
    CASE nsid = "server.getServiceAuth"    -> arg[1]
      [] nsid = "server.createAppPassword" -> arg
      [] OTHER                             -> None

authenticate_token(r) ==
    /\ Call(r)
    /\ \E nsid \in Methods : \E cred \in tokens \union OAuthTokens, arg \in Arguments(nsid) :
          /\ ~is_admin_route(nsid) /\ ~is_public_route(nsid)
          /\ TokenAdmits(cred, nsid, arg)
          /\ ~taken_down_refused(cred.did, ScopeOf(cred, nsid), nsid)
          /\ req' = [req EXCEPT ![r] =
                Began(nsid, Presented(cred, nsid, arg), cred.did, Kept(nsid, arg),
                      ScopeOf(cred, nsid), "inactive")]
    /\ UNCHANGED stores

admin_authenticated(cred) == cred = Admin

authenticate_admin(r) ==
    /\ Call(r)
    /\ \E nsid \in {m \in Methods : is_admin_route(m)} :
       \E cred \in {Anonymous, Admin}, d \in Dids, arg \in Arguments(nsid) :
          /\ admin_authenticated(cred)
          /\ req' = [req EXCEPT ![r] = Began(nsid, cred, d, arg, None, "handler")]
    /\ UNCHANGED stores

\* The reads anybody may make.  A token offered with an export is looked at;
\* the com.atproto.repo reads look at the account's status first.
RepoReads == {"repo.getRecord", "repo.describeRepo", "repo.listRecords"}
SyncReads == Exports \union {"sync.getBlocks", "sync.getRecord", "sync.getLatestCommit"}

\* An export of a taken-down account by its own holder.
own_session(nsid, cred, d) ==
    nsid \in Exports /\ account_is_taken_down(d) /\ verify_jwt(cred, d) = "takendown"

authenticate_public(r) ==
    /\ Call(r)
    /\ \E nsid \in Methods \cap (RepoReads \union SyncReads \union
                                {"sync.getRepoStatus", "sync.listRepos"}) :
       \E d \in Dids, cred \in {Anonymous} \union (IF nsid \in Exports THEN tokens ELSE {}) :
          /\ is_public_route(nsid)
          /\ req' = [req EXCEPT ![r] =
                [Began(nsid, Anonymous, d, None, None,
                       IF nsid \in RepoReads /\ ~account_is_active(d)
                       THEN "public_takedown" ELSE "handler")
                    EXCEPT !.authed = IF own_session(nsid, cred, d) THEN d ELSE None]]
    /\ UNCHANGED stores

\* A login whose password is the account's, or an app password of it.
valid_login(d, kind) == kind = "account" \/ \E a \in apps : a.did = d /\ a.kind = kind

\* The takedown decides the scope before the credential does.
LoginScope(d, kind) ==
    IF account_is_taken_down(d) THEN "takendown" ELSE IF kind = "account" THEN "full" ELSE kind

create_session(r) ==
    /\ Call(r)
    /\ \E d \in Dids, kind \in {"account", "privileged", "app"}, allowTakendown \in BOOLEAN :
          /\ valid_login(d, kind)
          /\ account_is_taken_down(d) => allowTakendown
          /\ req' = [req EXCEPT ![r] =
                Began("server.createSession", [kind |-> "password", of |-> kind], d,
                      None, LoginScope(d, kind), "issue")]
    /\ UNCHANGED stores

(***************************************************************************)
(* The second reads of authenticate_request.                               *)
(***************************************************************************)

\* com.atproto.repo reads: only a deactivation is answered here, and only
\* when the account is not taken down as well.
\* MUTANT of public_takedown: any account that is not active is answered.
public_takedownUnread(r) ==
    /\ At(r, "public_takedown")
    /\ Answer(r, "RepoDeactivated")
    /\ UNCHANGED <<stores, calls>>

public_takedown(r) ==
    /\ At(r, "public_takedown")
    /\ IF account_is_taken_down(req[r].did) THEN Go(r, "handler") ELSE Answer(r, "RepoDeactivated")
    /\ UNCHANGED <<stores, calls>>

inactive_gate(r) ==
    /\ At(r, "inactive")
    /\ IF ~account_is_active(req[r].did) /\ ~inactive_route_allowed(req[r].nsid)
       THEN Refuse(r)
       ELSE req' = [req EXCEPT ![r].pc = "handler", ![r].authed = req[r].did]
    /\ UNCHANGED <<stores, calls>>

(***************************************************************************)
(* The handlers.                                                           *)
(***************************************************************************)
Handles(r, nsid) == At(r, "handler") /\ req[r].nsid = nsid

\* The account a handler acts on: the one authenticated, or else the one named.
request_account_did(r) == IF req[r].authed # None THEN req[r].authed ELSE req[r].did

\* assert_repo_available, for the handlers of the public reads: the account
\* itself passes; then the takedown is read, then the active flag.  The reads
\* that name one record or blob go on to ask whether that is taken down.
Available(r) == IF req[r].nsid \in NamesOne THEN Go(r, "subject") ELSE Answer(r, "served")

assert_repo_available(r) ==
    /\ IF req[r].authed = request_account_did(r) THEN Available(r)
       ELSE IF account_is_taken_down(request_account_did(r)) THEN Answer(r, "RepoTakendown")
       ELSE Go(r, "guard_active")
    /\ UNCHANGED <<stores, calls>>

guard_active(r) ==
    /\ At(r, "guard_active")
    /\ IF account_is_active(request_account_did(r)) THEN Available(r) ELSE Answer(r, "RepoDeactivated")
    /\ UNCHANGED <<stores, calls>>

get_repo(r) == Handles(r, "sync.getRepo") /\ assert_repo_available(r)
get_blocks(r) == Handles(r, "sync.getBlocks") /\ assert_repo_available(r)
list_blobs(r) == Handles(r, "sync.listBlobs") /\ assert_repo_available(r)
get_record(r) == Handles(r, "sync.getRecord") /\ assert_repo_available(r)
get_blob(r) == Handles(r, "sync.getBlob") /\ assert_repo_available(r)

\* The reads of the repository layer reach the guard through resolve_repo.
metalbear_repo_access_guard(r) == assert_repo_available(r)
h_get_record(r) == Handles(r, "repo.getRecord") /\ metalbear_repo_access_guard(r)
h_list_records(r) == Handles(r, "repo.listRecords") /\ metalbear_repo_access_guard(r)
h_describe_repo(r) == Handles(r, "repo.describeRepo") /\ metalbear_repo_access_guard(r)
h_get_latest_commit(r) == Handles(r, "sync.getLatestCommit") /\ metalbear_repo_access_guard(r)

\* A record or a blob that is taken down reads as absent.
subject_takedown(r) ==
    /\ At(r, "subject")
    /\ Answer(r, IF get_takedown(withheld, request_account_did(r)) THEN "NotFound" ELSE "served")
    /\ UNCHANGED <<stores, calls>>

\* What is said of an account's status: read in the same order as the guard.
account_status_string(r) ==
    /\ IF account_is_taken_down(request_account_did(r)) THEN Answer(r, "takendown")
       ELSE Go(r, "status_active")
    /\ UNCHANGED <<stores, calls>>

status_active(r) ==
    /\ At(r, "status_active")
    /\ Answer(r, IF account_is_active(request_account_did(r)) THEN "active" ELSE "deactivated")
    /\ UNCHANGED <<stores, calls>>

\* A listing reads each account's status as it comes to it: here, its row for
\* one of them.
get_repo_status(r) == Handles(r, "sync.getRepoStatus") /\ account_status_string(r)
list_repos(r) == Handles(r, "sync.listRepos") /\ account_status_string(r)
get_session(r) == Handles(r, "server.getSession") /\ account_status_string(r)

\* The administrator asks whether an account, or its record, is taken down.
admin_get_subject_status(r) ==
    /\ Handles(r, "admin.getSubjectStatus")
    /\ Answer(r, IF req[r].arg = "account"
                 THEN IF account_is_taken_down(req[r].did) THEN "takendown" ELSE "standing"
                 ELSE IF get_takedown(withheld, req[r].did) THEN "withheld" ELSE "NotFound")
    /\ UNCHANGED <<stores, calls>>

Answered(r) ==
    /\ At(r, "done")
    /\ Refuse(r)
    /\ UNCHANGED <<stores, calls>>

create_scoped_session(r) ==
    /\ At(r, "issue")
    /\ tokens' = tokens \union
          {[kind |-> "session", did |-> req[r].did,
            claim |-> access_scope_name(req[r].scope), origin |-> req[r].cred.of]}
    /\ Refuse(r)
    /\ UNCHANGED <<active, down, withheld, apps, minted, calls>>

Origin(cred) == IF cred.kind = "session" THEN cred.origin ELSE cred.kind

create_app_password(r) ==
    /\ Handles(r, "server.createAppPassword")
    /\ apps' = apps \union {[did |-> req[r].did, by |-> Origin(req[r].cred),
                             kind |-> IF req[r].arg THEN "privileged" ELSE "app"]}
    /\ Refuse(r)
    /\ UNCHANGED <<active, down, withheld, tokens, minted, calls>>

deactivate_account(r) ==
    /\ Handles(r, "server.deactivateAccount")
    /\ SetStatus(r, request_account_did(r), active \ {request_account_did(r)}, down)
    /\ UNCHANGED <<withheld, apps, tokens, minted, calls>>

activate_account(r) ==
    /\ Handles(r, "server.activateAccount")
    /\ SetStatus(r, request_account_did(r), active \union {request_account_did(r)}, down)
    /\ UNCHANGED <<withheld, apps, tokens, minted, calls>>

\* The administrator changes an account's status: here one flag at a time, a
\* request with both being two.
update_subject_status(r) ==
    /\ Handles(r, "admin.updateSubjectStatus") /\ req[r].arg \notin {"hide", "show"}
    /\ LET d == req[r].did
       IN  SetStatus(r, d,
             CASE req[r].arg = "deactivate" -> active \ {d}
               [] req[r].arg = "activate"   -> active \union {d}
               [] OTHER                     -> active,
             IF req[r].arg \in {"takedown", "lift"}
             THEN set_takedown(down, d, req[r].arg = "takedown") ELSE down)
    /\ UNCHANGED <<withheld, apps, tokens, minted, calls>>

\* The administrator takes down an account's record and blob, or lifts that.
update_record_status(r) ==
    /\ Handles(r, "admin.updateSubjectStatus") /\ req[r].arg \in {"hide", "show"}
    /\ LET d == req[r].did
       IN  /\ withheld' = set_takedown(withheld, d, req[r].arg = "hide")
           /\ req' = [q \in Requests |->
                 IF q = r THEN Idle
                 ELSE IF req[q] = Idle \/ req[q].did # d THEN req[q]
                 ELSE [req[q] EXCEPT !.hid = @ /\ d \in withheld']]
    /\ UNCHANGED <<active, down, apps, tokens, minted, calls>>

\* getServiceAuth verifies the bearer token again, in the store of the
\* account: an OAuth token is refused here.
get_service_auth(r) ==
    /\ Handles(r, "server.getServiceAuth")
    /\ LET lxm   == req[r].arg
           scope == verify_jwt(req[r].cred, req[r].did)
       IN  minted' =
             IF \/ protected_service_method(lxm)
                \/ scope = None
                \/ scope = "takendown" /\ lxm # "server.createAccount"
                \/ scope = "app" /\ privileged_service_method(lxm)
             THEN minted
             ELSE minted \union {[lxm |-> lxm, scope |-> scope,
                                  origin |-> Origin(req[r].cred)]}
    /\ Refuse(r)
    /\ UNCHANGED <<active, down, withheld, apps, tokens, calls>>

\* Every other handler: what it does is in the other modules.
OtherHandler(r) ==
    /\ At(r, "handler")
    /\ req[r].nsid \notin RepoReads \union SyncReads \union
          {"sync.getRepoStatus", "sync.listRepos", "server.getSession",
           "admin.getSubjectStatus", "server.createAppPassword",
           "server.deactivateAccount", "server.activateAccount",
           "admin.updateSubjectStatus", "server.getServiceAuth"}
    /\ Refuse(r)
    /\ UNCHANGED <<stores, calls>>

Next ==
    \E r \in Requests :
        \/ authenticate_token(r) \/ authenticate_admin(r) \/ authenticate_public(r)
        \/ create_session(r) \/ create_scoped_session(r)
        \/ public_takedown(r) \/ inactive_gate(r)
        \/ get_repo(r) \/ get_blocks(r) \/ list_blobs(r) \/ get_record(r) \/ get_blob(r)
        \/ h_get_record(r) \/ h_list_records(r) \/ h_describe_repo(r)
        \/ h_get_latest_commit(r) \/ guard_active(r) \/ subject_takedown(r)
        \/ get_repo_status(r) \/ list_repos(r) \/ get_session(r)
        \/ admin_get_subject_status(r) \/ status_active(r) \/ Answered(r)
        \/ create_app_password(r) \/ deactivate_account(r) \/ activate_account(r)
        \/ update_subject_status(r) \/ update_record_status(r) \/ get_service_auth(r) \/ OtherHandler(r)

Spec == Init /\ [][Next]_vars

(***************************************************************************)
(* Properties.                                                             *)
(***************************************************************************)

\* A request whose account has had one status ever since it arrived is held
\* to it, whatever other requests do meanwhile: while taken down only a
\* session made for that reaches a handler, and only on the routes left to
\* it; a login gets no other session; and while deactivated only the routes
\* that lead back are served.
StatusHolds ==
    \A r \in Requests : InFlight(r) =>
        /\ req[r].seen = {"takendown"} =>
              /\ At(r, "issue") => req[r].scope = "takendown"
              /\ At(r, "handler") /\ req[r].cred.kind \in {"session", "oauth"}
                    /\ ~is_public_route(req[r].nsid) =>
                    /\ req[r].scope = "takendown"
                    /\ takendown_route_allowed(req[r].nsid)
        /\ /\ req[r].seen = {"deactivated"} /\ At(r, "handler")
           /\ req[r].cred.kind \in {"session", "oauth"} /\ ~is_public_route(req[r].nsid)
           => inactive_route_allowed(req[r].nsid)

\* What an answer to a read says of an account was so while the request ran
\* (unless its flags changed twice during it): a moderation is not reported
\* as the holder's own choice, nor the reverse, and nothing of an account
\* that was unavailable throughout is served to anyone but its holder, nor a
\* record or blob by its name while that was taken down.
AnswersTrue ==
    \A r \in Requests : At(r, "done") /\ req[r].changes < 2 =>
        CASE req[r].ans \in {"RepoDeactivated", "deactivated"} -> "deactivated" \in req[r].seen
          [] req[r].ans \in {"RepoTakendown", "takendown"}     -> "takendown" \in req[r].seen
          [] req[r].ans = "active"                             -> "active" \in req[r].seen
          [] req[r].ans = "standing"                           -> req[r].seen # {"takendown"}
          [] req[r].ans = "served" ->
                /\ "active" \in req[r].seen \/ req[r].authed = req[r].did
                /\ ~req[r].hid
          [] OTHER -> TRUE

\* Authority does not grow.  App passwords are made with the account's own
\* password only, however many logins, status changes and requests lie in
\* between; a service token is never for a protected method, and with an app
\* password for a privileged one only to leave a server that has taken the
\* account down; an app password or an OAuth grant reaches the routes that
\* need full access only with a taken-down session or by a permission that
\* names them; and what a narrow grant lets through, some scope of it says.
WithinAuthority ==
    /\ \A a \in apps : a.by = "account"
    /\ \A t \in minted :
          /\ ~protected_service_method(t.lxm) /\ t.origin # "oauth"
          /\ t.origin = "app" /\ privileged_service_method(t.lxm) =>
                t.scope = "takendown" /\ t.lxm = "server.createAccount"
    /\ \A r \in Requests : At(r, "handler") =>
          /\ req[r].cred.kind = "session" /\ full_access_route(req[r].nsid) =>
                \/ req[r].cred.origin = "account"
                \/ req[r].scope = "takendown" /\ takendown_route_allowed(req[r].nsid)
          /\ req[r].cred.kind = "oauth" =>
                ~oauth_forbidden_route(req[r].nsid) /\ req[r].cred.said
=============================================================================
