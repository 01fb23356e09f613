------------------------------- MODULE Lifecycle -------------------------------
(***************************************************************************)
(* An account's life on the host, and what the firehose says of it: the    *)
(* handlers of src/account/account_routes.c, src/session/session_routes.c  *)
(* and src/admin/admin_routes.c that create, deactivate, activate, take    *)
(* down and delete an account, and the reconciliation that a starting      *)
(* server runs (src/server.c).  Composes the account's own store, the      *)
(* registry, the moderation state and the firehose log (EventLog).         *)
(*                                                                         *)
(* No lock spans two calls of a handler: a request is the list of the calls*)
(* it has still to make, each one durable when it returns, and the process *)
(* may die between any two.                                                *)
(***************************************************************************)
EXTENDS EventLog, Sequences

CONSTANTS
    Identities,        \* DIDs this host will mint, one for each account it creates
    MaxRequests  \* bound: requests in a behaviour

ASSUME LifecycleAssumption == MaxRequests \in Nat

VARIABLES
    state,       \* "down", "starting" or "up"
    todo,        \* accounts whose status the starting server has to reconcile,
    repos,       \* and those whose repository it has to
    minted,      \* DIDs minted so far
    registered,  \* accounts with a row in the registry
    active,      \* the flag in each account's own store
    takedown,    \* accounts with a takedown in the registry
    head,        \* the revision of each account's repository, 0 for none
    rows, nseq,  \* the firehose log and the last sequence number
    user,        \* per account: the calls that the holder's request has to make
    admin,       \* and those of an administrator's
    writer,      \* and those of a request that writes a record
    requests,    \* how many there have been
    \* history, read by no action
    overlap,     \* accounts on which user and admin requests overlapped
    raced,       \* accounts one of whose writes overlapped another request
    halfway,     \* accounts whose deletion a crash interrupted
    deleted      \* accounts whose deletion returned

hostVars == <<state, todo, repos>>
dataVars == <<minted, registered, active, takedown, head>>
logVars  == <<rows, nseq>>
reqVars  == <<user, admin, writer, requests>>
histVars == <<overlap, raced, halfway, deleted>>
vars     == <<hostVars, dataVars, logVars, reqVars, histVars>>

Init ==
    /\ state = "down" /\ todo = {} /\ repos = {}
    /\ minted = {} /\ registered = {} /\ takedown = {}
    /\ active = [d \in Identities |-> TRUE] /\ head = [d \in Identities |-> 0]
    /\ rows = {} /\ nseq = 0
    /\ user = [d \in Identities |-> <<>>] /\ admin = [d \in Identities |-> <<>>]
    /\ writer = [d \in Identities |-> <<>>] /\ requests = 0
    /\ overlap = {} /\ raced = {} /\ halfway = {} /\ deleted = {}

-----------------------------------------------------------------------------
(* The log.                                                                *)

Statuses == {"active", "deactivated", "takendown", "deleted"}

Appended(did, kind, status) ==
    /\ nseq' = nseq + 1
    /\ rows' = rows \cup {[seq |-> nseq + 1, did |-> did, kind |-> kind,
                           status |-> status, rev |-> head[did]]}

\* Mutant: the newest #account event of any account.
NewestOfHost(did, kinds) ==
    {r \in rows : r.kind \in kinds
        /\ \A q \in rows : q.kind \in kinds => q.seq <= r.seq}

\* The scan for an account's newest event of the given kinds, as a set.
Newest(did, kinds) ==
    {r \in OfAccount(rows, did) : r.kind \in kinds
        /\ \A q \in OfAccount(rows, did) : q.kind \in kinds => q.seq <= r.seq}

\* account_status_string: a takedown outranks a deactivation.
account_status_string(did) ==
    IF did \in takedown THEN "takendown"
    ELSE IF active[did] THEN "active" ELSE "deactivated"

-----------------------------------------------------------------------------
(* One call of a request.                                                  *)

SetFlag(did, value) ==
    /\ active' = [active EXCEPT ![did] = value]
    /\ UNCHANGED <<minted, registered, takedown, head, logVars>>

\* append_event; the callers go on when it fails, which is left out here.
Announce(did, kind, status) ==
    /\ Appended(did, kind, status)
    /\ UNCHANGED dataVars

Skip == UNCHANGED <<dataVars, logVars>>

Call(step, did) ==
    \/ step \in {"activate", "tryActivate"} /\ SetFlag(did, TRUE)
    \/ step \in {"deactivate", "tryDeactivate"} /\ SetFlag(did, FALSE)
       \* an administrator's change and announcement need the account to
       \* resolve: a deleted one does only while its context is in the cache
    \/ step \in {"tryActivate", "tryDeactivate", "#status"} /\ did \notin registered /\ Skip
    \/ /\ step \in {"register", "unregister"}
       /\ registered' = IF step = "register" THEN registered \cup {did}
                                             ELSE registered \ {did}
       /\ UNCHANGED <<minted, active, takedown, head, logVars>>
    \/ /\ step \in {"takedown", "lift"}
       /\ takedown' = IF step = "takedown" THEN takedown \cup {did}
                                           ELSE takedown \ {did}
       /\ UNCHANGED <<minted, registered, active, head, logVars>>
    \/ step = "#identity" /\ Announce(did, "identity", "active")
    \/ step = "#active" /\ Announce(did, "account", "active")
    \/ step = "#deactivated" /\ Announce(did, "account", "deactivated")
    \/ step = "#deleted" /\ Announce(did, "account", "deleted")
    \/ step = "#status" /\ Announce(did, "account", account_status_string(did))
       \* skipped for a repository without a commit
    \/ step = "#sync" /\ head[did] = 0 /\ Skip
    \/ step = "#sync" /\ head[did] # 0 /\ Announce(did, "sync", "active")
    \/ /\ step = "purge"
       /\ rows' = rows \ Superseded(rows, did)
       /\ UNCHANGED <<dataVars, nseq>>
    \/ step = "rmtree" /\ Skip
    \/ /\ step = "commit"
       /\ head' = [head EXCEPT ![did] = @ + 1]
       /\ UNCHANGED <<minted, registered, active, takedown, logVars>>
    \/ step = "#commit" /\ Announce(did, "commit", "active")

-----------------------------------------------------------------------------
(* Requests, as lists of calls.                                            *)

\* metalbear_sequencer_account_activation
account_activation_calls == <<"#identity", "#active", "#sync">>

create_account_calls == <<"register">> \o account_activation_calls

deactivate_account_calls == <<"deactivate", "#deactivated">>

activate_account_calls == <<"activate">> \o account_activation_calls

delete_account_calls == <<"deactivate", "unregister", "lift", "#deleted", "purge">>

admin_delete_account_calls == <<"#deleted", "purge", "unregister", "lift", "rmtree">>

\* updateSubjectStatus on an account: a takedown, a deactivation, or both, then
\* the status; a takedown with an activation is refused.
update_subject_status ==
    {<<"takedown", "#status">>, <<"lift", "#status">>,
     <<"tryDeactivate", "#status">>, <<"tryActivate", "#status">>,
     <<"takedown", "tryDeactivate", "#status">>,
     <<"lift", "tryDeactivate", "#status">>, <<"lift", "tryActivate", "#status">>}

write_record == <<"commit", "#commit">>

Received ==
    /\ state = "up" /\ requests < MaxRequests
    /\ requests' = requests + 1

LastCall(list) == IF list = <<>> THEN "none" ELSE list[Len(list)]

\* The accounts that context_for_did resolves: an account that an administrator is
\* deleting does, through the cache, until its files are gone.
Resolves ==
    registered \cup {d \in minted : LastCall(admin[d]) = "rmtree"}

\* A request of the holder, or of somebody who signs up.  The guards are those of
\* authenticate() and of the handler: a session of the takendown scope reaches
\* deactivateAccount, and deleteAccount asks for the password and a mailed token
\* instead of a session.
UserRequest(did) ==
    /\ Received /\ user[did] = <<>>
    /\ \/ /\ did \notin minted
          /\ minted' = minted \cup {did}
          /\ user' = [user EXCEPT ![did] = create_account_calls]
       \/ /\ did \in Resolves
          /\ \E list \in {deactivate_account_calls, activate_account_calls, delete_account_calls} :
                /\ list = activate_account_calls => did \notin takedown
                /\ user' = [user EXCEPT ![did] = list]
          /\ UNCHANGED minted
    /\ overlap' = IF admin[did] # <<>> THEN overlap \cup {did} ELSE overlap
    /\ raced' = IF writer[did] # <<>> THEN raced \cup {did} ELSE raced
    /\ UNCHANGED <<hostVars, registered, active, takedown, head, logVars, admin,
                   writer, halfway, deleted>>

\* Moderation names any DID; a deletion of one not in the registry does nothing.
AdminRequest(did) ==
    /\ Received /\ admin[did] = <<>> /\ did \in minted
    /\ \E list \in update_subject_status \cup {admin_delete_account_calls} :
         /\ list = admin_delete_account_calls => did \in registered
         /\ admin' = [admin EXCEPT ![did] = list]
    /\ overlap' = IF user[did] # <<>> THEN overlap \cup {did} ELSE overlap
    /\ raced' = IF writer[did] # <<>> THEN raced \cup {did} ELSE raced
    /\ UNCHANGED <<hostVars, dataVars, logVars, user, writer, halfway, deleted>>

\* createRecord and its like, past authenticate().
WriteRequest(did) ==
    /\ Received /\ writer[did] = <<>>
    /\ did \in Resolves \ takedown /\ active[did]
    /\ writer' = [writer EXCEPT ![did] = write_record]
    /\ raced' = IF user[did] # <<>> \/ admin[did] # <<>> THEN raced \cup {did} ELSE raced
    /\ UNCHANGED <<hostVars, dataVars, logVars, user, admin, overlap, halfway, deleted>>

UserStep(did) ==
    /\ user[did] # <<>>
    /\ Call(Head(user[did]), did)
    /\ user' = [user EXCEPT ![did] = Tail(@)]
    /\ deleted' = IF user[did] = <<"purge">> THEN deleted \cup {did} ELSE deleted
    /\ UNCHANGED <<hostVars, admin, writer, requests, overlap, raced, halfway>>

AdminStep(did) ==
    /\ admin[did] # <<>>
    /\ Call(Head(admin[did]), did)
    /\ admin' = [admin EXCEPT ![did] = Tail(@)]
    /\ deleted' = IF admin[did] = <<"rmtree">> THEN deleted \cup {did} ELSE deleted
    /\ UNCHANGED <<hostVars, user, writer, requests, overlap, raced, halfway>>

WriteStep(did) ==
    /\ writer[did] # <<>>
    /\ Call(Head(writer[did]), did)
    /\ writer' = [writer EXCEPT ![did] = Tail(@)]
    /\ UNCHANGED <<hostVars, user, admin, requests, histVars>>

-----------------------------------------------------------------------------
(* The process.                                                            *)

Start ==
    /\ state = "down"
    /\ state' = "starting" /\ todo' = registered /\ repos' = registered
    /\ UNCHANGED <<dataVars, logVars, reqVars, histVars>>

\* metalbear_sequencer_reconcile_account: silent when the account's newest
\* #account event agrees with its flag.
reconcile_account(did) ==
    LET agrees == \E r \in Newest(did, {"account"}) :
                     (r.status = "active") <=> active[did]
    IN /\ state = "starting" /\ did \in todo
       /\ todo' = todo \ {did}
       /\ \/ agrees /\ UNCHANGED logVars
          \/ ~agrees /\ Appended(did, "account",
                                 IF active[did] THEN "active" ELSE "deactivated")
       /\ UNCHANGED <<state, repos, dataVars, reqVars, histVars>>

\* metalbear_sequencer_reconcile_repo: silent when there is no commit, or when the
\* repository's newest event is its head's.
reconcile_repo(did) ==
    LET agrees == \/ head[did] = 0
                  \/ \E r \in Newest(did, {"commit", "sync"}) : r.rev = head[did]
    IN /\ state = "starting" /\ did \in repos \ todo
       /\ repos' = repos \ {did}
       /\ \/ agrees /\ UNCHANGED logVars
          \/ ~agrees /\ Appended(did, "sync", "active")
       /\ UNCHANGED <<state, todo, dataVars, reqVars, histVars>>

\* The routes are registered.
Serve ==
    /\ state = "starting" /\ todo = {} /\ repos = {}
    /\ state' = "up"
    /\ overlap' = overlap \ registered
    /\ UNCHANGED <<todo, repos, dataVars, logVars, reqVars, raced, halfway, deleted>>

Interrupted ==
    {d \in Identities : LastCall(user[d]) = "purge" \/ LastCall(admin[d]) = "rmtree"}

Crash ==
    /\ state # "down"
    /\ state' = "down" /\ todo' = {} /\ repos' = {}
    /\ user' = [d \in Identities |-> <<>>] /\ admin' = [d \in Identities |-> <<>>]
    /\ writer' = [d \in Identities |-> <<>>]
    /\ halfway' = halfway \cup Interrupted
    /\ UNCHANGED <<dataVars, logVars, requests, overlap, raced, deleted>>

Next ==
    \/ Start \/ Serve \/ Crash
    \/ \E did \in Identities :
        \/ UserRequest(did) \/ AdminRequest(did) \/ WriteRequest(did)
        \/ UserStep(did) \/ AdminStep(did) \/ WriteStep(did)
        \/ reconcile_account(did) \/ reconcile_repo(did)

Spec == Init /\ [][Next]_vars

-----------------------------------------------------------------------------
(* Properties.                                                             *)

\* The values the variables range over; no request runs without its process.
TypeOK ==
    /\ state \in {"down", "starting", "up"}
    /\ todo \subseteq repos /\ repos \subseteq registered
    /\ registered \subseteq minted /\ minted \subseteq Identities
    /\ takedown \subseteq Identities
    /\ active \in [Identities -> BOOLEAN] /\ head \in [Identities -> Nat]
    /\ rows \subseteq [seq : 1..nseq, did : Identities, status : Statuses, rev : Nat,
                       kind : {"identity", "account", "sync", "commit"}]
    /\ state # "up" => \A d \in Identities :
          user[d] = <<>> /\ admin[d] = <<>> /\ writer[d] = <<>>

\* Whenever no request on it is in progress, an account that is not taken down is
\* announced on the firehose as what it is, active or not: a crash at any point
\* of its creation, its activation or its deactivation is made good by the next
\* start.  Two requests that overlap may leave it otherwise until then.
StatusAnnounced ==
    \A d \in registered \ (takedown \cup overlap) :
        state = "up" /\ user[d] = <<>> /\ admin[d] = <<>> =>
            \E r \in Newest(d, {"account"}) : (r.status = "active") <=> active[d]

\* When the deletion of an account returns, the account is represented in the log
\* by the one row that announces the deletion, whatever it published and
\* whatever happened to it before, unless another request on it overlapped or a
\* crash had cut an earlier deletion short.
DeletionLeavesOneRow ==
    [][\A d \in deleted' \ (deleted \cup overlap \cup raced \cup halfway) :
        \E r \in rows' : OfAccount(rows', d) = {r} /\ r.status = "deleted"]_vars

-----------------------------------------------------------------------------
(* What the repository says of accounts and the code does not do.          *)

\* sequencer.c, of purge_account: the account's most recent event is the `deleted`
\* #account announcement the caller has just sequenced.  A write that was
\* authenticated before the deletion may announce its commit between the two,
\* and the purge then removes the announcement.
PurgeKeepsAnnouncement ==
    \A d \in deleted \ (overlap \cup halfway) :
        \E r \in OfAccount(rows, d) : r.status = "deleted"

\* README.md: a takedown outranks a deactivation.  The reconciliation of a
\* starting server passes on the account's own flag alone, and announces a
\* taken-down account as active.
TakedownStaysAnnounced ==
    \A d \in registered \cap takedown :
        state = "up" /\ user[d] = <<>> /\ admin[d] = <<>> /\ d \notin overlap =>
            \A r \in Newest(d, {"account"}) : r.status # "active"
=============================================================================
