------------------------------ MODULE Accounts ------------------------------
(***************************************************************************)
(* Who is hosted here and under which name: sign-up against the account    *)
(* registry and its invite codes (account_routes.c, account_registry.cpp), *)
(* handle changes by the holder and by an administrator                    *)
(* (identity_routes.c, admin_routes.c), deletion, and the three places     *)
(* outside the host that repeat a handle: the PLC directory, the firehose  *)
(* and the zone with its _atproto TXT records (handle_dns.c).              *)
(*                                                                         *)
(* Every registry call holds the registry's mutex and is one step; so is   *)
(* each call to the directory and each request to the DNS provider.        *)
(* Between those steps requests interleave, and a handler goes on with the *)
(* handle, the record or the account it read earlier.                      *)
(***************************************************************************)
EXTENDS Naturals, FiniteSets

CONSTANTS
    Requests,   \* request threads
    Dids,       \* identities
    PlcDids,    \* the did:plc ones among them
    Residents,  \* the accounts the host starts with
    Handles,    \* handles
    Codes,      \* invite codes
    Uses,       \* useCount of every invite code
    MaxEvents,  \* bound: handler calls and failures, together
    None

Parameters ==
    /\ PlcDids \subseteq Dids /\ Residents \subseteq Dids
    /\ Uses \in Nat \ {0} /\ MaxEvents \in Nat
    /\ None \notin Dids \cup Handles \cup Codes \cup (Nat \X Dids)

ASSUME AccountsAssumption == Parameters

VARIABLES
    registry,   \* accounts table: the handle of each registered DID
    repo,       \* meta.handle of each account's repository
    ctx,        \* handle of the account's open context
    plc,        \* alsoKnownAs at the PLC directory
    announced,  \* handle of the account's last #identity event
    invites,    \* invite_code and invite_code_use
    zone,       \* TXT records: an id of the provider's, a name, a DID
    provider,   \* "records" (cloudflare, digitalocean) or "rrset" (desec, rfc2136)
    req,        \* what each request is doing
    calls, faults,
    admitted,   \* history: the invite code each account came in with
    blurred     \* history: DIDs and handles two requests or a fault met on

stores == <<registry, repo, ctx, plc, announced>>
accountsVars == <<stores, invites, zone, provider, req, calls, faults,
          admitted, blurred>>

Idle == [at |-> "idle", kind |-> None, did |-> None, handle |-> None,
         old |-> None, rec |-> None, code |-> None, call |-> 0, names |-> {}]

AccountsInit ==
    /\ registry \in [Dids -> Handles \cup {None}]
    /\ \A d \in Dids : registry[d] # None <=> d \in Residents
    /\ \A d, e \in Residents : d # e => registry[d] # registry[e]
    /\ repo = registry /\ ctx = registry /\ announced = registry
    /\ plc = [d \in Dids |-> IF d \in PlcDids THEN registry[d] ELSE None]
    /\ invites = [c \in Codes |->
                    [made |-> FALSE, left |-> 0, used |-> 0, disabled |-> FALSE]]
    /\ zone = {[id |-> <<0, d>>, name |-> registry[d], did |-> d] : d \in Residents}
    /\ provider \in {"records", "rrset"}
    /\ req = [r \in Requests |-> Idle]
    /\ calls = 0 /\ faults = 0
    /\ admitted = [d \in Dids |-> None]
    /\ blurred = {}

(***************************************************************************)
(* The registry.                                                           *)
(***************************************************************************)
find_by_handle(h) == {d \in Dids : registry[d] = h}

\* handle is UNIQUE: a row cannot take a handle another row has.
TakenByOther(d, h) == find_by_handle(h) \ {d} # {}

\* The row of a new code; its count of uses is kept beside it.
create_invite_codes == [made |-> TRUE, left |-> Uses, used |-> 0, disabled |-> FALSE]

\* createInviteCode and createInviteCodes draw a code and insert its row.
create_invite_code(c) ==
    /\ ~invites[c].made
    /\ calls + faults < MaxEvents /\ calls' = calls + 1
    /\ invites' = [invites EXCEPT ![c] = create_invite_codes]
    /\ UNCHANGED <<stores, zone, provider, req, faults, admitted,
                   blurred>>

\* UPDATE invite_code SET disabled, by code or by the account it is for.
disable_invite_codes(row) == [row EXCEPT !.disabled = TRUE]

admin_disable_invite_codes(c) ==
    /\ invites[c].made /\ ~invites[c].disabled
    /\ calls + faults < MaxEvents /\ calls' = calls + 1
    /\ invites' = [invites EXCEPT ![c] = disable_invite_codes(@)]
    /\ UNCHANGED <<stores, zone, provider, req, faults, admitted,
                   blurred>>

\* Mutant: a code keeps letting sign-ups in.
UsableDespiteUse(row) == row.made /\ ~row.disabled

\* The code's row lets one more sign-up in.
Usable(row) == row.made /\ ~row.disabled /\ row.left > 0

\* SELECT, UPDATE ... WHERE uses_remaining > 0 and INSERT of the use, under
\* one lock.
consume_invite_code(c) ==
    /\ Usable(invites[c])
    /\ invites' = [invites EXCEPT
         ![c].left = IF invites[c].left > 0 THEN @ - 1 ELSE @,
         ![c].used = @ + 1]

(***************************************************************************)
(* Requests.  A request that is refused before it changes anything is left *)
(* out.                                                                    *)
(***************************************************************************)
Active == {r \in Requests : req[r].at # "idle"}

\* The identities and names on which q meets a request that is under way.
Met(q) ==
    LET same == {s \in Active : req[s].did = q.did}
        near == {s \in Active : req[s].names \cap q.names # {}}
    IN  (IF same = {} THEN {} ELSE {q.did})
        \cup UNION {req[s].names \cup q.names : s \in same \cup near}

\* A call enters its handler.  Renaming an account to the handle it has
\* blurs that handle: update_handle then retracts what it published.
Enter(r, kind, at, d, h, c, old) ==
    LET q == [at |-> at, kind |-> kind, did |-> d, handle |-> h, old |-> old,
              rec |-> None, code |-> c, call |-> calls + 1,
              names |-> {h, registry[d], ctx[d]} \ {None}]
    IN  /\ req[r].at = "idle" /\ calls + faults < MaxEvents
        /\ calls' = calls + 1
        /\ req' = [req EXCEPT ![r] = q]
        /\ blurred' = blurred \cup Met(q)
             \cup (IF kind = "rename" /\ ctx[d] = h THEN {h} ELSE {})

Goto(r, at) == req' = [req EXCEPT ![r].at = at]
Finish(r) == req' = [req EXCEPT ![r] = Idle]

\* A failure: what it leaves behind for this account is not promised.
Fault(r) ==
    /\ calls + faults < MaxEvents
    /\ faults' = faults + 1
    /\ blurred' = blurred \cup {req[r].did} \cup req[r].names
    /\ UNCHANGED <<calls, provider, invites, admitted>>

NoFault == UNCHANGED <<calls, faults, blurred, provider, invites, admitted>>

(***************************************************************************)
(* createAccount.  The invite is used before the handle, the address and   *)
(* the domain are looked at, and is not given back.                        *)
(***************************************************************************)
create_account(r, d, h, c) ==
    /\ repo[d] = None /\ plc[d] = None
    /\ \A s \in Active : req[s].did # d
    /\ consume_invite_code(c)
    /\ Enter(r, "signup", "check", d, h, c, None)
    /\ UNCHANGED <<stores, zone, provider, faults, admitted>>

\* Handle taken, address taken, foreign domain, label too short or long.
SignupRefused(r) ==
    /\ req[r].at = "check"
    /\ Finish(r)
    /\ NoFault /\ UNCHANGED <<stores, zone>>

SignupChecked(r) ==
    /\ req[r].at = "check"
    /\ find_by_handle(req[r].handle) = {}
    /\ Goto(r, "mint")
    /\ NoFault /\ UNCHANGED <<stores, zone>>

\* mint_plc_did submits a genesis operation claiming the handle; a did:key
\* account has no document elsewhere.
mint_plc_did(r) ==
    /\ req[r].at = "mint"
    /\ Goto(r, "open")
    /\ LET d == req[r].did
           h == req[r].handle
       IN  IF d \in PlcDids
           THEN plc' = [plc EXCEPT ![d] = h]
           ELSE UNCHANGED plc
    /\ NoFault /\ UNCHANGED <<registry, repo, ctx, announced, zone>>

\* The account's stores are made; the repository records the handle.
context_open(r) ==
    /\ req[r].at = "open"
    /\ Goto(r, "register")
    /\ repo' = [repo EXCEPT ![req[r].did] = req[r].handle]
    /\ NoFault /\ UNCHANGED <<registry, ctx, plc, announced, zone>>

\* Minting or provisioning fails: whatever was made so far stays.
ProvisionFails(r) ==
    /\ req[r].at \in {"mint", "open"}
    /\ Finish(r) /\ Fault(r)
    /\ UNCHANGED <<stores, zone>>

\* INSERT INTO accounts.
registry_add(d, h) == registry' = [registry EXCEPT ![d] = h]

\* A handle taken meanwhile refuses the row and leaves the stores and the
\* minted DID behind.
add_with_email(r) ==
    LET d == req[r].did
        h == req[r].handle
    IN  /\ req[r].at = "register"
        /\ IF TakenByOther(d, h)
           THEN Finish(r) /\ UNCHANGED <<registry, ctx, admitted>>
           ELSE /\ registry_add(d, h)
                /\ ctx' = [ctx EXCEPT ![d] = h]
                /\ admitted' = [admitted EXCEPT ![d] = req[r].code]
                /\ Goto(r, "activate")
        /\ UNCHANGED <<repo, plc, announced, zone, invites, calls,
                       faults, blurred, provider>>

\* metalbear_sequencer_account_activation; a failure is only logged.
account_activation(r) ==
    /\ req[r].at = "activate"
    /\ Goto(r, "publish")
    /\ \/ announced' = [announced EXCEPT ![req[r].did] = req[r].handle] /\ NoFault
       \/ UNCHANGED announced /\ Fault(r)
    /\ UNCHANGED <<registry, repo, ctx, plc, zone>>

(***************************************************************************)
(* Handle changes.                                                         *)
(***************************************************************************)
update_handle(r, d, h) ==
    /\ registry[d] # None
    /\ ~TakenByOther(d, h)
    /\ Enter(r, "rename", "plc", d, h, None, None)
    /\ UNCHANGED <<stores, invites, zone, provider, faults, admitted>>

admin_update_account_handle(r, d, h) ==
    /\ registry[d] # None
    /\ ~TakenByOther(d, h)
    /\ Enter(r, "admin_rename", "plc", d, h, None, None)
    /\ UNCHANGED <<stores, invites, zone, provider, faults, admitted>>

\* Where a handle change goes once the directory has answered.
AfterPlc(r) == IF req[r].kind = "rename" THEN "repo" ELSE "registry"

plc_update_handle(r) ==
    LET d == req[r].did
        h == req[r].handle
    IN  /\ req[r].at = "plc"
        /\ Goto(r, AfterPlc(r))
        /\ IF d \in PlcDids
           THEN plc' = [plc EXCEPT ![d] = h]
           ELSE UNCHANGED plc
        /\ NoFault /\ UNCHANGED <<registry, repo, ctx, announced, zone>>

\* The directory refuses, or takes the operation and its answer is lost.
PlcFails(r) ==
    LET d == req[r].did
        h == req[r].handle
    IN  /\ req[r].at = "plc" /\ d \in PlcDids
        /\ Finish(r) /\ Fault(r)
        /\ \/ UNCHANGED plc
           \/ plc' = [plc EXCEPT ![d] = h]
        /\ UNCHANGED <<registry, repo, ctx, announced, zone>>

\* The holder submits an operation of their own, already signed.  Its keys and
\* its endpoint are looked at, the names it claims are not, and nothing is
\* announced: from here on what the document claims is the holder's affair.
submit_plc_operation(d, h) ==
    /\ registry[d] # None /\ d \in PlcDids
    /\ calls + faults < MaxEvents /\ calls' = calls + 1
    /\ plc' = [plc EXCEPT ![d] = h]
    /\ blurred' = blurred \cup {d}
    /\ UNCHANGED <<registry, repo, ctx, announced, invites, zone, provider, req,
                   faults, admitted>>

\* UPDATE meta SET handle, in the account's repository.
repo_set_handle(d, h) == [repo EXCEPT ![d] = h]

\* update_handle copies the context's handle and writes the repository's.
set_handle(r) ==
    LET d == req[r].did
    IN  /\ req[r].at = "repo"
        /\ \/ /\ repo' = repo_set_handle(d, req[r].handle)
              /\ req' = [req EXCEPT ![r].at = "registry", ![r].old = ctx[d]]
              /\ NoFault
           \/ UNCHANGED repo /\ Finish(r) /\ Fault(r)
        /\ UNCHANGED <<registry, ctx, plc, announced, zone>>

\* Mutant: the repository keeps the handle that was refused.
RestoredNot(r) == repo

\* What a refused UPDATE leaves in the repository: update_handle puts the
\* old handle back, the admin route has written nothing yet.
Restored(r) ==
    IF req[r].kind = "rename"
    THEN repo_set_handle(req[r].did, req[r].old)
    ELSE repo

\* UPDATE accounts SET handle; no row is no error.
registry_update_handle(r) ==
    LET d == req[r].did
        h == req[r].handle
    IN  /\ req[r].at = "registry"
        /\ IF TakenByOther(d, h)
           THEN Finish(r) /\ repo' = Restored(r) /\ UNCHANGED registry
           ELSE /\ registry' = IF registry[d] = None THEN registry
                               ELSE [registry EXCEPT ![d] = h]
                /\ Goto(r, IF req[r].kind = "rename" THEN "publish" ELSE "context")
                /\ UNCHANGED repo
        /\ NoFault /\ UNCHANGED <<ctx, plc, announced, zone>>

\* The admin route brings the open context and the repository along.
SetContext(r) ==
    LET d == req[r].did
    IN  /\ req[r].at = "context"
        /\ req' = [req EXCEPT ![r].at = "publish", ![r].old = ctx[d]]
        /\ repo' = repo_set_handle(d, req[r].handle)
        /\ ctx' = [ctx EXCEPT ![d] = req[r].handle]
        /\ NoFault /\ UNCHANGED <<registry, plc, announced, zone>>

\* The #identity event; update_handle then moves its context's handle.
sequencer_identity(r) ==
    LET d == req[r].did
    IN  /\ req[r].at = "announce"
        /\ \/ announced' = [announced EXCEPT ![d] = req[r].handle] /\ NoFault
           \/ UNCHANGED announced /\ Fault(r)
        /\ ctx' = IF req[r].kind = "rename"
                  THEN [ctx EXCEPT ![d] = req[r].handle]
                  ELSE ctx
        /\ Finish(r)
        /\ UNCHANGED <<registry, repo, plc, zone>>

(***************************************************************************)
(* Deletion.  The holder's removes the row before it tells the firehose;   *)
(* the administrator's, after.  Sessions, takedowns and the data directory *)
(* go too (Lifecycle, Sessions); the identity does not come back here.     *)
(***************************************************************************)
delete_account(r, d) ==
    /\ registry[d] # None
    /\ Enter(r, "delete", "remove", d, None, None, None)
    /\ UNCHANGED <<stores, invites, zone, provider, faults, admitted>>

\* find_by_did: the handle to retract is the registry's of now.
admin_delete_account(r, d) ==
    /\ registry[d] # None
    /\ Enter(r, "admin_delete", "goodbye", d, None, None, registry[d])
    /\ UNCHANGED <<stores, invites, zone, provider, faults, admitted>>

registry_remove(r) ==
    /\ req[r].at = "remove"
    /\ registry' = [registry EXCEPT ![req[r].did] = None]
    /\ Goto(r, IF req[r].kind = "delete" THEN "goodbye" ELSE "retract")
    /\ NoFault /\ UNCHANGED <<repo, ctx, plc, announced, zone>>

\* The account's deletion is announced and its other events are dropped;
\* the holder's route then takes the handle of the context.
AnnounceDeletion(r) ==
    LET d == req[r].did
    IN  /\ req[r].at = "goodbye"
        /\ announced' = [announced EXCEPT ![d] = None]
        /\ IF req[r].kind = "delete"
           THEN req' = [req EXCEPT ![r].at = "retract", ![r].old = ctx[d]]
           ELSE Goto(r, "remove")
        /\ NoFault /\ UNCHANGED <<registry, repo, ctx, plc, zone>>

(***************************************************************************)
(* The zone.  Publishing and retracting look the name up and then write,   *)
(* two requests to the provider.                                           *)
(***************************************************************************)
At(h) == {z \in zone : z.name = h}

\* The id of the first record the provider lists at the name.
RecordId(h) == {z.id : z \in At(h)}

\* An RRset has no id of its own; its first record stands for it.
RRset(h) == {z.id : z \in At(h)}

lookup(h) ==
    IF At(h) = {} THEN {None}
    ELSE IF provider = "rrset" THEN RRset(h) ELSE RecordId(h)

DidOf(id) == (CHOOSE z \in zone : z.id = id).did

\* Mutant: a rename by an administrator forgets the old name.
AfterPublishForgets(r) ==
    CASE req[r].kind = "signup" -> "idle"
      [] req[r].kind = "admin_rename" -> "announce"
      [] OTHER -> "retract"

\* A sign-up is over; the admin route retracts a name that changed.
AfterPublish(r) ==
    CASE req[r].kind = "signup" -> "idle"
      [] req[r].kind = "admin_rename" /\ req[r].old \in {None, req[r].handle}
           -> "announce"
      [] OTHER -> "retract"

AfterRetract(r) ==
    IF req[r].kind \in {"rename", "admin_rename"} THEN "announce" ELSE "idle"

\* The request goes on at `at`, or is over.
Proceed(r, at) == IF at = "idle" THEN Finish(r) ELSE Goto(r, at)

handle_dns_publish(r) ==
    /\ req[r].at = "publish"
    /\ \E id \in lookup(req[r].handle) :
         IF id # None /\ DidOf(id) = req[r].did
         THEN Proceed(r, AfterPublish(r))
         ELSE req' = [req EXCEPT ![r].at = "write", ![r].rec = id]
    /\ NoFault /\ UNCHANGED <<stores, zone>>

\* Providers with records of their own add one, or change the one they
\* found, which fails when it is gone.
WriteRecord(rec, new) ==
    LET found == {z \in zone : z.id = rec}
    IN  IF rec = None THEN zone \cup {new}
        ELSE (zone \ found) \cup {[z EXCEPT !.did = new.did] : z \in found}

\* The others replace whatever the name had.
ReplaceRRset(new) == (zone \ At(new.name)) \cup {new}

EraseRecord(rec) == {z \in zone : z.id # rec}

EraseRRset(h) == zone \ At(h)

Published(r) ==
    LET new == [id |-> <<req[r].call, req[r].did>>, name |-> req[r].handle,
                did |-> req[r].did]
    IN  IF provider = "rrset" THEN ReplaceRRset(new) ELSE WriteRecord(req[r].rec, new)

PublishWrite(r) ==
    /\ req[r].at = "write"
    /\ zone' = Published(r)
    /\ Proceed(r, AfterPublish(r))
    /\ NoFault /\ UNCHANGED <<stores>>

handle_dns_retract(r) ==
    /\ req[r].at = "retract"
    /\ \E id \in lookup(req[r].old) :
         IF id = None
         THEN Proceed(r, AfterRetract(r))
         ELSE req' = [req EXCEPT ![r].at = "erase", ![r].rec = id]
    /\ NoFault /\ UNCHANGED <<stores, zone>>

RetractWrite(r) ==
    /\ req[r].at = "erase"
    /\ zone' = IF provider = "rrset" THEN EraseRRset(req[r].old)
               ELSE EraseRecord(req[r].rec)
    /\ Proceed(r, AfterRetract(r))
    /\ NoFault /\ UNCHANGED <<stores>>

\* A provider that does not answer: logged, and the handler goes on.
DnsFails(r) ==
    /\ req[r].at \in {"publish", "write", "retract", "erase"}
    /\ Proceed(r, IF req[r].at \in {"publish", "write"} THEN AfterPublish(r)
                  ELSE AfterRetract(r))
    /\ Fault(r)
    /\ UNCHANGED <<stores, zone>>

\* The host dies and comes back: requests are gone, contexts are opened with
\* the registry's handle.
Restart ==
    /\ Active # {} /\ calls + faults < MaxEvents
    /\ faults' = faults + 1
    /\ req' = [r \in Requests |-> Idle]
    /\ ctx' = [d \in Dids |-> registry[d]]
    /\ blurred' = blurred \cup {req[r].did : r \in Active}
                    \cup UNION {req[r].names : r \in Active}
    /\ UNCHANGED <<registry, repo, plc, announced, invites, zone, provider,
                   calls, admitted>>

AccountsNext ==
    \/ \E c \in Codes : create_invite_code(c) \/ admin_disable_invite_codes(c)
    \/ \E d \in Dids, h \in Handles : submit_plc_operation(d, h)
    \/ \E r \in Requests, d \in Dids :
         \/ \E h \in Handles, c \in Codes : create_account(r, d, h, c)
         \/ \E h \in Handles :
              update_handle(r, d, h) \/ admin_update_account_handle(r, d, h)
         \/ delete_account(r, d) \/ admin_delete_account(r, d)
    \/ \E r \in Requests :
         \/ SignupRefused(r) \/ SignupChecked(r) \/ mint_plc_did(r)
         \/ context_open(r) \/ ProvisionFails(r) \/ add_with_email(r)
         \/ account_activation(r)
         \/ plc_update_handle(r) \/ PlcFails(r) \/ set_handle(r)
         \/ registry_update_handle(r) \/ SetContext(r) \/ sequencer_identity(r)
         \/ registry_remove(r) \/ AnnounceDeletion(r)
         \/ handle_dns_publish(r) \/ PublishWrite(r)
         \/ handle_dns_retract(r) \/ RetractWrite(r) \/ DnsFails(r)
    \/ Restart

AccountsSpec == AccountsInit /\ [][AccountsNext]_accountsVars

(***************************************************************************)
(* Properties.                                                             *)
(***************************************************************************)
AtRest(d) == \A r \in Active : req[r].did # d

\* An invite code lets in as many accounts as it was made for, however
\* sign-ups race and fail: every use is taken from the allowance, and every
\* account that came in with the code has a use of its own.
InvitesAccounted ==
    \A c \in Codes :
        /\ invites[c].made => invites[c].left + invites[c].used = Uses
        /\ Cardinality({d \in Dids : admitted[d] = c}) <= invites[c].used

\* The registry, the repository and the open context give an account one
\* handle once its requests are over, also when a rename lost the handle to
\* another account half way through.  Two requests on one account, and
\* failures, are excepted: the code does not order the first and does not
\* repair the second.
LocalAgree ==
    \A d \in Dids : registry[d] # None /\ AtRest(d) /\ d \notin blurred =>
        repo[d] = registry[d] /\ ctx[d] = registry[d]

\* A handle resolves both ways: the DID document claims it, the last
\* #identity event names it, and the zone has exactly one record for it, of
\* this account; a name nobody has is not in the zone.  Names two requests
\* were working on at once are excepted, and so is an account renamed to
\* the handle it had.
ResolvesBack ==
    /\ \A d \in Dids :
         registry[d] # None /\ AtRest(d) /\ {d, registry[d]} \cap blurred = {} =>
            /\ d \in PlcDids => plc[d] = registry[d]
            /\ announced[d] = registry[d]
            /\ Cardinality(At(registry[d])) = 1
            /\ \A z \in At(registry[d]) : z.did = d
    /\ Active = {} =>
         \A z \in zone : z.name \notin blurred => registry[z.did] = z.name
=============================================================================
