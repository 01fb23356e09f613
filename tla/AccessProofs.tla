---------------------------- MODULE AccessProofs ----------------------------
(***************************************************************************)
(* What holds of request authentication for any number of accounts and     *)
(* requests, any methods and any OAuth grants.                             *)
(*                                                                         *)
(* A request reads an account's two flags one after the other while other  *)
(* requests change them.  The invariant says, at each point between the    *)
(* two reads, what the first one still guarantees: as long as no flag of   *)
(* the account changed, that it still holds, and after one change, that    *)
(* the status that makes the coming answer true has been seen (Truth).     *)
(* What a token was checked for stays true because tokens are never        *)
(* altered, and each was issued for a scope no wider than the credential   *)
(* it was issued for (TokenInv).  That a narrow grant speaks for whatever  *)
(* it lets through is a fact about the parser and the decisions made from  *)
(* its result (AdmittedIsSaid).                                            *)
(***************************************************************************)
EXTENDS Access, TLAPS

\* A token names one of the scopes: the full one only after a login with the
\* account's password, and after one with an app password its own, or what a
\* takedown leaves.
TokenInv(t) ==
    /\ t.kind = "session" /\ t.origin \in {"account", "privileged", "app"}
    /\ \E s \in Scopes : /\ t.claim = access_scope_name(s)
                         /\ s = "full" => t.origin = "account"
                         /\ t.origin = "app" => s \in {"app", "takendown"}

HasFields(q) ==
    q \in [pc : {q.pc}, nsid : {q.nsid}, cred : {q.cred}, did : {q.did}, arg : {q.arg},
           scope : {q.scope}, authed : {q.authed}, ans : {q.ans}, seen : {q.seen},
           changes : {q.changes}, hid : {q.hid}]

\* A request in flight has all its fields, knows the account's status, and has
\* marked as hidden only what is.
Shape(q, act, dwn, wh) ==
    /\ HasFields(q)
    /\ q.pc # "idle" /\ q.changes \in 0..2
    /\ q.authed \in {None, q.did}
    /\ Status(q.did, act, dwn) \in q.seen
    /\ q.hid => q.nsid \in NamesOne /\ q.did \in wh

ByToken(q) == q.cred.kind \in {"session", "oauth"}

\* What a request was let in with.
Authority(q, toks) ==
    /\ q.pc = "issue" =>
        /\ q.cred.kind = "password" /\ q.cred.of \in {"account", "privileged", "app"}
        /\ q.scope \in Scopes
        /\ q.scope = "full" => q.cred.of = "account"
        /\ q.cred.of = "app" => q.scope \in {"app", "takendown"}
    /\ q.pc = "inactive" => ByToken(q)
    /\ q.pc = "public_takedown" => q.cred.kind = "none" /\ is_public_route(q.nsid)
    /\ q.pc \in {"inactive", "handler"} =>
        /\ q.cred.kind \in {"session", "oauth", "admin", "none"}
        /\ q.cred.kind = "admin" => is_admin_route(q.nsid)
        /\ q.cred.kind = "none" => is_public_route(q.nsid)
        /\ q.cred.kind = "session" =>
             /\ q.cred \in toks
             /\ full_access_route(q.nsid) =>
                  \/ q.cred.origin = "account"
                  \/ q.scope = "takendown" /\ takendown_route_allowed(q.nsid)
        /\ q.cred.kind = "oauth" => ~oauth_forbidden_route(q.nsid) /\ q.cred.said

\* What the one status an account has had holds a request to.
Held(q) ==
    /\ q.seen = {"takendown"} =>
        /\ q.pc = "issue" => q.scope = "takendown"
        /\ q.pc \in {"inactive", "handler"} /\ ByToken(q) =>
             q.scope = "takendown" /\ takendown_route_allowed(q.nsid)
    /\ q.seen = {"deactivated"} /\ q.pc = "handler" /\ ByToken(q) =>
        inactive_route_allowed(q.nsid)

\* What has been seen, whatever the second of the two reads will say.
Truth(q, act, dwn) ==
    q.changes < 2 =>
        /\ q.pc = "public_takedown" =>
             /\ q.changes = 0 => q.did \notin act
             /\ q.did \notin dwn => "deactivated" \in q.seen
        /\ q.pc \in {"guard_active", "status_active"} =>
             /\ q.changes = 0 => q.did \notin dwn
             /\ q.did \notin act => "deactivated" \in q.seen
             /\ q.did \in act => "active" \in q.seen
        /\ q.pc = "subject" => "active" \in q.seen \/ q.authed = q.did
        /\ q.pc = "done" =>
             /\ q.ans \in {"RepoDeactivated", "deactivated"} => "deactivated" \in q.seen
             /\ q.ans \in {"RepoTakendown", "takendown"} => "takendown" \in q.seen
             /\ q.ans = "active" => "active" \in q.seen
             /\ q.ans = "standing" => q.seen # {"takendown"}
             /\ q.ans = "served" => ("active" \in q.seen \/ q.authed = q.did) /\ ~q.hid

Sound(q, act, dwn, wh, toks) ==
    Shape(q, act, dwn, wh) /\ Authority(q, toks) /\ Held(q) /\ Truth(q, act, dwn)

AccessInv ==
    /\ req = [r \in Requests |-> req[r]]
    /\ \A t \in tokens : TokenInv(t)
    /\ \A a \in apps : a.by = "account"
    /\ \A t \in minted :
          /\ ~protected_service_method(t.lxm) /\ t.origin # "oauth"
          /\ t.origin = "app" /\ privileged_service_method(t.lxm) =>
                t.scope = "takendown" /\ t.lxm = "server.createAccount"
    /\ \A r \in Requests : req[r] = Idle \/ Sound(req[r], active, down, withheld, tokens)

-----------------------------------------------------------------------------
(* What is read from a scope is of its kind, and says no more than it.     *)

LEMMA ParsedKind ==
    ASSUME NEW p, NEW m \in permission_parse(p)
    PROVE  /\ m.type = "static"   => p.type = "static" /\ m.value \in p.pos
           /\ m.type = "repo"     => p.type = "repo" /\ m \in repo_permission(p)
           /\ m.type = "blob"     => p.type = "blob" /\ m \in blob_permission(p)
           /\ m.type = "identity" => p.type = "identity" /\ m \in identity_permission(p)
           /\ m.type = "account"  => p.type = "account" /\ m \in account_permission(p)
           /\ m.type = "rpc"      => p.type = "rpc" /\ m \in rpc_permission(p)
<1>1. CASE p.type = "static"
  <2>1. m \in {[type |-> "static", value |-> s] : s \in p.pos \cap StaticScopes}
    BY <1>1 DEF permission_parse
  <2> QED
    BY <1>1, <2>1
<1>2. CASE p.type = "repo"
  <2>1. m \in repo_permission(p)
    BY <1>2 DEF permission_parse
  <2>2. m.type = "repo"
    BY <2>1 DEF repo_permission
  <2> QED
    BY <1>2, <2>1, <2>2
<1>3. CASE p.type = "blob"
  <2>1. m \in blob_permission(p)
    BY <1>3 DEF permission_parse
  <2>2. m.type = "blob"
    BY <2>1 DEF blob_permission
  <2> QED
    BY <1>3, <2>1, <2>2
<1>4. CASE p.type = "identity"
  <2>1. m \in identity_permission(p)
    BY <1>4 DEF permission_parse
  <2>2. m.type = "identity"
    BY <2>1 DEF identity_permission
  <2> QED
    BY <1>4, <2>1, <2>2
<1>5. CASE p.type = "account"
  <2>1. m \in account_permission(p)
    BY <1>5 DEF permission_parse
  <2>2. m.type = "account"
    BY <2>1 DEF account_permission
  <2> QED
    BY <1>5, <2>1, <2>2
<1>6. CASE p.type = "rpc"
  <2>1. m \in rpc_permission(p)
    BY <1>6 DEF permission_parse
  <2>2. m.type = "rpc"
    BY <2>1 DEF rpc_permission
  <2> QED
    BY <1>6, <2>1, <2>2
<1>7. CASE p.type = "include"
  <2>1. m \in {[type |-> "include"]}
    BY <1>7 DEF permission_parse
  <2> QED
    BY <2>1
<1>8. CASE p.type \notin {"static", "repo", "blob", "identity", "account", "rpc", "include"}
  BY <1>8 DEF permission_parse
<1> QED
  BY <1>1, <1>2, <1>3, <1>4, <1>5, <1>6, <1>7, <1>8

\* What a narrow grant lets through, some scope of it says.
LEMMA AdmittedIsSaid ==
    ASSUME NEW grant \in Grants, NEW nsid, NEW arg, oauth_admits(grant, nsid, arg)
    PROVE  grant = {} \/ \E p \in grant : Speaks(p, nsid, arg)
<1> DEFINE set == scope_set_parse(grant)
           Said == \E p \in grant : Speaks(p, nsid, arg)
<1>0. \A p \in grant : /\ \A a, b \in p.pos : a = b
                       /\ \A q \in p.query : q = <<q[1], q[2]>>
  BY GrantsAssumption
<1>1. \A m \in set : \E p \in grant : m \in permission_parse(p)
  BY DEF scope_set_parse
<1> HIDE DEF set
\* A permission on collections, wherever it comes from.
<1>2. ASSUME NEW m \in OfType(set, "repo"), m.collection \in {Wildcard, arg},
             \A a \in RepoActions : Writes[a] = nsid => a \in m.actions
      PROVE  Said
  <2>1. PICK p \in grant : m \in permission_parse(p)
    BY <1>1 DEF OfType
  <2>2. p.type = "repo" /\ m \in repo_permission(p)
    BY <2>1, ParsedKind DEF OfType
  <2>3. /\ m.collection \in p.pos
        /\ m.actions = IF p.query = {} THEN RepoActions
                       ELSE {a \in RepoActions : Values(p, "action") \cap Abbreviations[a] # {}}
    <3>1. PICK c \in p.pos : m =
            [type |-> "repo", collection |-> c,
             actions |-> IF p.query = {} THEN RepoActions
                         ELSE {a \in RepoActions : Values(p, "action") \cap Abbreviations[a] # {}}]
      BY <2>2 DEF repo_permission
    <3> QED
      BY <3>1
  <2>4. \A a \in RepoActions : Writes[a] = nsid =>
           p.query = {} \/ \E v \in Values(p, "action") : v \in Abbreviations[a]
    BY <1>2, <2>3
  <2> QED
    BY <1>2, <2>2, <2>3, <2>4 DEF Speaks
<1>3. ASSUME is_full_access(set) PROVE Said
  <2>1. CASE \E m \in OfType(set, "static") : m.value = "atproto"
    <3>1. PICK m \in OfType(set, "static") : m.value = "atproto"
      BY <2>1
    <3>2. PICK p \in grant : m \in permission_parse(p)
      BY <1>1 DEF OfType
    <3>3. p.type = "static" /\ "atproto" \in p.pos
      BY <3>1, <3>2, ParsedKind DEF OfType
    <3>4. p.pos = {"atproto"}
      BY <1>0, <3>3
    <3> QED
      BY <3>3, <3>4 DEF Speaks
  <2>2. CASE \E m \in OfType(set, "repo") : m.collection = Wildcard /\ m.actions = RepoActions
    BY <1>2, <2>2
  <2> QED
    BY <1>3, <2>1, <2>2 DEF is_full_access
<1>4. ASSUME NEW lxm, NEW aud, allows_rpc(set, lxm, aud), HasOwnScope(nsid),
             lxm = IF nsid = "server.getServiceAuth" THEN arg[1] ELSE nsid
      PROVE  Said
  <2>1. CASE is_full_access(set)
    BY <1>3, <2>1
  <2>2. CASE \E m \in OfType(set, "rpc") : {Wildcard, lxm} \cap m.lxm # {}
    <3>1. PICK m \in OfType(set, "rpc") : {Wildcard, lxm} \cap m.lxm # {}
      BY <2>2
    <3>2. PICK p \in grant : m \in permission_parse(p)
      BY <1>1 DEF OfType
    <3>3. p.type = "rpc" /\ m \in rpc_permission(p)
      BY <3>1, <3>2, ParsedKind DEF OfType
    <3>4. m.lxm \subseteq p.pos \union Values(p, "lxm")
      BY <3>3 DEF rpc_permission, extract_multi
    <3> QED
      BY <1>4, <3>1, <3>3, <3>4 DEF Speaks
  <2> QED
    BY <1>4, <2>1, <2>2 DEF allows_rpc
<1>5. ASSUME HasOwnScope(nsid), DecidedByScope(set, nsid, arg) PROVE Said
  <2>1. CASE nsid = "repo.uploadBlob"
    <3>1. allows_blob(set, arg)
      BY <1>5, <2>1 DEF DecidedByScope, PlcOperations, Preferences
    <3>2. CASE \E m \in OfType(set, "blob") :
                  m.accept \cap {AnyMime, <<arg[1], Wildcard>>, arg} # {}
      <4>1. PICK m \in OfType(set, "blob") :
                  m.accept \cap {AnyMime, <<arg[1], Wildcard>>, arg} # {}
        BY <3>2
      <4>2. PICK p \in grant : m \in permission_parse(p)
        BY <1>1 DEF OfType
      <4>3. p.type = "blob" /\ m \in blob_permission(p)
        BY <4>1, <4>2, ParsedKind DEF OfType
      <4>4. m.accept \subseteq p.pos \union Values(p, "accept")
        BY <4>3 DEF blob_permission, extract_multi
      <4>5. PICK x \in m.accept : x \in {AnyMime, <<arg[1], Wildcard>>, arg}
        BY <4>1
      <4>6. x[1] \in {Wildcard, arg[1]}
        BY <4>5 DEF AnyMime
      <4> QED
        BY <2>1, <4>3, <4>4, <4>6 DEF Speaks
    <3> QED
      BY <1>3, <3>1, <3>2 DEF allows_blob
  <2>2. CASE nsid = "repo.importRepo"
    <3>1. allows_account(set, "repo", "manage")
      BY <1>5, <2>2 DEF DecidedByScope, PlcOperations, Preferences
    <3>2. CASE \E m \in OfType(set, "account") : "manage" \in m.actions
      <4>1. PICK m \in OfType(set, "account") : "manage" \in m.actions
        BY <3>2
      <4>2. PICK p \in grant : m \in permission_parse(p)
        BY <1>1 DEF OfType
      <4>3. p.type = "account" /\ m \in account_permission(p)
        BY <4>1, <4>2, ParsedKind DEF OfType
      <4>4. m.actions = IF p.query = {} THEN {"read"} ELSE Values(p, "action")
        BY <4>3 DEF account_permission
      <4>5. "manage" \in Values(p, "action")
        BY <4>1, <4>4
      <4>6. PICK q \in p.query : q[1] = "action" /\ q[2] = "manage"
        BY <4>5 DEF Values
      <4>7. <<"action", "manage">> \in p.query
        BY <1>0, <4>6
      <4> QED
        BY <2>2, <4>3, <4>7 DEF Speaks
    <3> QED
      BY <1>3, <3>1, <3>2 DEF allows_account
  <2>3. CASE nsid \in PlcOperations
    <3>1. allows_identity(set, Wildcard)
      BY <1>5, <2>3 DEF DecidedByScope, PlcOperations, Preferences
    <3>2. CASE \E m \in OfType(set, "identity") : m.attr = Wildcard
      <4>1. PICK m \in OfType(set, "identity") : m.attr = Wildcard
        BY <3>2
      <4>2. PICK p \in grant : m \in permission_parse(p)
        BY <1>1 DEF OfType
      <4>3. p.type = "identity" /\ m \in identity_permission(p)
        BY <4>1, <4>2, ParsedKind DEF OfType
      <4>4. Wildcard \in p.pos
        BY <4>1, <4>3 DEF identity_permission
      <4>5. p.pos = {Wildcard}
        BY <1>0, <4>4
      <4> QED
        BY <2>3, <4>3, <4>5 DEF Speaks
    <3> QED
      BY <1>3, <3>1, <3>2 DEF allows_identity
  <2>4. CASE nsid = "identity.updateHandle"
    <3>1. allows_identity(set, "handle")
      BY <1>5, <2>4 DEF DecidedByScope, PlcOperations, Preferences
    <3>2. CASE OfType(set, "identity") # {}
      <4>1. PICK m \in OfType(set, "identity") : TRUE
        BY <3>2
      <4>2. PICK p \in grant : m \in permission_parse(p)
        BY <1>1 DEF OfType
      <4>3. p.type = "identity"
        BY <4>1, <4>2, ParsedKind DEF OfType
      <4> QED
        BY <2>4, <4>3 DEF Speaks
    <3> QED
      BY <1>3, <3>1, <3>2 DEF allows_identity
  <2>5. CASE nsid = "server.getServiceAuth"
    <3>1. allows_rpc(set, arg[1], arg[2])
      BY <1>5, <2>5 DEF DecidedByScope, PlcOperations, Preferences
    <3> QED
      BY <1>4, <1>5, <2>5, <3>1
  <2>6. CASE nsid \in Preferences \union {"moderation.createReport"} \/ proxied_appview_rpc_route(nsid)
    <3>1. nsid # "server.getServiceAuth" /\ (allows_rpc(set, nsid, Pds) \/ allows_rpc(set, nsid, Appview))
      BY <1>5, <2>6 DEF DecidedByScope, PlcOperations, Preferences, proxied_appview_rpc_route
    <3> QED
      BY <1>4, <1>5, <3>1
  <2> QED
    BY <1>5, <2>1, <2>2, <2>3, <2>4, <2>5, <2>6 DEF HasOwnScope
<1>6. ASSUME DecidedByCollection(set, nsid, arg), grant # {} PROVE Said
  <2>1. CASE \E a \in RepoActions : Writes[a] = nsid
    <3>1. CASE arg = None
      <4>1. nsid \in {Writes[a] : a \in RepoActions}
        BY <2>1
      <4> QED
        BY <1>6, <3>1, <4>1 DEF Speaks
    <3>2. CASE arg # None
      <4>1. PICK a \in RepoActions : Writes[a] = nsid
        BY <2>1
      <4>2. \A b \in RepoActions : Writes[b] = nsid => b = a
        BY <4>1 DEF Writes, RepoActions
      <4>3. allows_repo(set, arg, a)
        BY <1>6, <2>1, <3>2, <4>1 DEF DecidedByCollection
      <4>4. CASE is_full_access(set)
        BY <1>3, <4>4
      <4>5. CASE \E m \in OfType(set, "repo") : m.collection \in {Wildcard, arg} /\ a \in m.actions
        BY <1>2, <4>2, <4>5
      <4> QED
        BY <4>3, <4>4, <4>5 DEF allows_repo
    <3> QED
      BY <3>1, <3>2
  <2>2. CASE ~\E a \in RepoActions : Writes[a] = nsid
    <3>1. allows_read(set, arg)
      BY <1>6, <2>2 DEF DecidedByCollection
    <3> QED
      BY <1>2, <1>3, <2>2, <3>1 DEF allows_read
  <2> QED
    BY <2>1, <2>2
<1> QED
  BY <1>3, <1>5, <1>6 DEF oauth_admits, set

-----------------------------------------------------------------------------
(* Session tokens.                                                         *)

LEMMA ScopeRead == \A s \in Scopes : parse_access_scope(access_scope_name(s)) = s
<1> SUFFICES ASSUME NEW s \in Scopes
             PROVE  parse_access_scope(access_scope_name(s)) = s
  OBVIOUS
<1>1. \A t \in Scopes : access_scope_name(t) = access_scope_name(s) => t = s
  BY DEF Scopes, access_scope_name
<1>2. (CHOOSE t \in Scopes : access_scope_name(t) = access_scope_name(s)) = s
  BY <1>1
<1> QED
  BY <1>2 DEF parse_access_scope

\* The full scope is read from a token of a login with the account's password
\* only, and an app password's token reads as one or as a taken-down session's.
LEMMA TokenRead ==
    ASSUME NEW t, TokenInv(t)
    PROVE  LET scope == parse_access_scope(t.claim)
           IN  /\ scope \in Scopes
               /\ scope = "full" => t.origin = "account"
               /\ t.origin = "app" => scope \in {"app", "takendown"}
BY ScopeRead DEF TokenInv

-----------------------------------------------------------------------------
(* One request among others.                                               *)

\* The fields of a request after each of the updates the steps make.
LEMMA Fields ==
    ASSUME NEW q, HasFields(q), NEW x, NEW y
    PROVE  /\ LET n == [q EXCEPT !.pc = x]
              IN  /\ HasFields(n) /\ n.pc = x /\ n.nsid = q.nsid /\ n.cred = q.cred
                  /\ n.did = q.did /\ n.scope = q.scope /\ n.authed = q.authed
                  /\ n.seen = q.seen /\ n.changes = q.changes /\ n.hid = q.hid
           /\ LET n == [q EXCEPT !.pc = x, !.ans = y]
              IN  /\ HasFields(n) /\ n.pc = x /\ n.ans = y /\ n.nsid = q.nsid
                  /\ n.did = q.did /\ n.authed = q.authed
                  /\ n.seen = q.seen /\ n.changes = q.changes /\ n.hid = q.hid
           /\ LET n == [q EXCEPT !.pc = x, !.authed = y]
              IN  /\ HasFields(n) /\ n.pc = x /\ n.authed = y /\ n.nsid = q.nsid
                  /\ n.cred = q.cred /\ n.did = q.did /\ n.scope = q.scope
                  /\ n.seen = q.seen /\ n.changes = q.changes /\ n.hid = q.hid
           /\ LET n == [q EXCEPT !.seen = x, !.changes = y]
              IN  /\ HasFields(n) /\ n.pc = q.pc /\ n.nsid = q.nsid /\ n.cred = q.cred
                  /\ n.did = q.did /\ n.scope = q.scope /\ n.authed = q.authed
                  /\ n.ans = q.ans /\ n.hid = q.hid
                  /\ n.seen = x /\ n.changes = y
           /\ LET n == [q EXCEPT !.hid = x]
              IN  /\ HasFields(n) /\ n.pc = q.pc /\ n.nsid = q.nsid /\ n.cred = q.cred
                  /\ n.did = q.did /\ n.scope = q.scope /\ n.authed = q.authed
                  /\ n.ans = q.ans /\ n.hid = x
                  /\ n.seen = q.seen /\ n.changes = q.changes
BY DEF HasFields

\* A request, as a change of the flags of account d leaves it.
Unmoved(q, d, act, dwn) ==
    \/ q.did # d
    \/ (d \in act <=> d \in active) /\ (d \in dwn <=> d \in down)

Moved(q, d, act, dwn) ==
    [q EXCEPT !.seen = q.seen \union {Status(d, act, dwn)},
              !.changes = IF q.changes < 2 THEN q.changes + 1 ELSE q.changes]

Noted(q, d, act, dwn) ==
    IF q = Idle \/ Unmoved(q, d, act, dwn) THEN q ELSE Moved(q, d, act, dwn)

\* A request that lives through a change of one flag of an account.
LEMMA StatusChange ==
    ASSUME NEW q, NEW d, NEW act, NEW dwn, Sound(q, active, down, withheld, tokens),
           \A x : x # d => (x \in act <=> x \in active) /\ (x \in dwn <=> x \in down),
           act = active \/ dwn = down
    PROVE  /\ Unmoved(q, d, act, dwn) => Sound(q, act, dwn, withheld, tokens)
           /\ ~Unmoved(q, d, act, dwn) => Sound(Moved(q, d, act, dwn), act, dwn, withheld, tokens)
<1>1. CASE Unmoved(q, d, act, dwn)
  <2>1. (q.did \in act <=> q.did \in active) /\ (q.did \in dwn <=> q.did \in down)
    BY <1>1 DEF Unmoved
  <2>2. Status(q.did, act, dwn) = Status(q.did, active, down)
    BY <2>1 DEF Status
  <2>3. Sound(q, act, dwn, withheld, tokens)
    BY <2>1, <2>2 DEF Sound, Shape, Truth
  <2> QED
    BY <1>1, <2>3
<1>2. CASE ~Unmoved(q, d, act, dwn)
  <2>0. q.did = d /\ ~((d \in act <=> d \in active) /\ (d \in dwn <=> d \in down))
    BY <1>2 DEF Unmoved
  <2> DEFINE status == Status(d, act, dwn)
             seen == q.seen \union {status}
             changes == IF q.changes < 2 THEN q.changes + 1 ELSE q.changes
             n == [q EXCEPT !.seen = seen, !.changes = changes]
  <2>1. /\ HasFields(n) /\ n.pc = q.pc /\ n.nsid = q.nsid /\ n.cred = q.cred
        /\ n.did = q.did /\ n.scope = q.scope /\ n.authed = q.authed
        /\ n.ans = q.ans /\ n.hid = q.hid /\ n.seen = seen /\ n.changes = changes
    <3>1. HasFields(q)
      BY DEF Sound, Shape
    <3> HIDE DEF seen, changes
    <3> QED
      BY <3>1 DEF HasFields
  <2> HIDE DEF n
  <2>2. q.changes \in 0..2 /\ changes \in 0..2 /\ changes # 0
        /\ (changes < 2 => q.changes = 0)
    BY DEF Sound, Shape
  <2> HIDE DEF changes
  <2>3. Shape(n, act, dwn, withheld)
    BY <2>0, <2>1, <2>2 DEF Sound, Shape
  <2>4. Authority(n, tokens)
    BY <2>1 DEF Sound, Authority, ByToken
  <2>5. Status(d, active, down) \in q.seen
    BY <2>0 DEF Sound, Shape
  <2>6. \A one : seen = {one} => q.seen = {one}
    BY <2>5
  <2>7. Held(n)
    BY <2>1, <2>6 DEF Sound, Held, ByToken
  <2>8. ASSUME changes < 2 PROVE Truth(n, act, dwn)
    <3>1. q.changes = 0 /\ q.changes < 2
      BY <2>2, <2>8
    <3>2. status \in seen /\ q.seen \subseteq seen
      OBVIOUS
    <3> HIDE DEF seen
    <3>3. q.pc = "public_takedown" => (d \notin dwn => "deactivated" \in seen)
      BY <2>0, <2>5, <3>1, <3>2 DEF Sound, Truth, Status
    <3>4. q.pc \in {"guard_active", "status_active"} =>
            /\ d \notin act => "deactivated" \in seen
            /\ d \in act => "active" \in seen
      BY <2>0, <2>5, <3>1, <3>2 DEF Sound, Truth, Status
    <3>5. q.pc = "subject" => "active" \in seen \/ q.authed = q.did
      BY <3>1, <3>2 DEF Sound, Truth
    <3>6. q.pc = "done" =>
             /\ q.ans \in {"RepoDeactivated", "deactivated"} => "deactivated" \in seen
             /\ q.ans \in {"RepoTakendown", "takendown"} => "takendown" \in seen
             /\ q.ans = "active" => "active" \in seen
             /\ q.ans = "standing" => seen # {"takendown"}
             /\ q.ans = "served" => ("active" \in seen \/ q.authed = q.did) /\ ~q.hid
      BY <2>6, <3>1, <3>2 DEF Sound, Truth, seen
    <3> QED
      BY <2>0, <2>1, <2>2, <3>3, <3>4, <3>5, <3>6 DEF Truth
  <2>9. Truth(n, act, dwn)
    BY <2>1, <2>8 DEF Truth
  <2>10. Sound(n, act, dwn, withheld, tokens)
    BY <2>3, <2>4, <2>7, <2>9 DEF Sound
  <2> QED
    BY <1>2, <2>10 DEF n, changes, Moved
<1> QED
  BY <1>1, <1>2

LEMMA StatusStep ==
    ASSUME AccessInv, NEW r \in Requests, NEW d, NEW act, NEW dwn, SetStatus(r, d, act, dwn),
           UNCHANGED <<withheld, apps, tokens, minted>>,
           \A x : x # d => (x \in act <=> x \in active) /\ (x \in dwn <=> x \in down),
           act = active \/ dwn = down
    PROVE  AccessInv'
<1> DEFINE threads == [req EXCEPT ![r] = Idle]
<1>1. active' = act /\ down' = dwn /\ req' = [s \in Requests |-> Noted(threads[s], d, act, dwn)]
  <2>1. req' = Note(threads, d, act, dwn)
    BY DEF SetStatus
  <2>2. \A q : (q = Idle \/ Unmoved(q, d, act, dwn)) <=>
               \/ q = Idle \/ q.did # d
               \/ (d \in act <=> d \in active) /\ (d \in dwn <=> d \in down)
    BY Zenon DEF Unmoved
  <2> HIDE DEF threads
  <2> QED
    BY <2>1, <2>2, Zenon DEF SetStatus, Note, Noted, Moved, Unmoved
<1>2. \A s \in Requests : threads[s] = Idle \/ threads[s] = req[s]
  BY DEF AccessInv
<1>3. \A q : Sound(q, active, down, withheld, tokens) /\ q # Idle =>
             Sound(Noted(q, d, act, dwn), act, dwn, withheld, tokens)
  BY StatusChange DEF Noted
<1>4. Noted(Idle, d, act, dwn) = Idle
  BY DEF Noted
<1>5. \A s \in Requests : req[s] = Idle \/ Sound(req[s], active, down, withheld, tokens)
  BY DEF AccessInv
<1> HIDE DEF threads
<1>6. \A s \in Requests : req'[s] = Idle \/ Sound(req'[s], act, dwn, withheld, tokens)
  BY <1>1, <1>2, <1>3, <1>4, <1>5
<1>7. req' = [s \in Requests |-> req'[s]]
  BY <1>1
<1> QED
  BY <1>1, <1>6, <1>7 DEF AccessInv

-----------------------------------------------------------------------------
(* The steps.                                                              *)

LEMMA InitAccessInv == Init => AccessInv
<1> SUFFICES ASSUME Init PROVE AccessInv
  OBVIOUS
<1>1. \A t \in tokens : TokenInv(t)
  BY DEF Init, TokenInv, Scopes
<1>2. \A a \in apps : a.by = "account"
  BY DEF Init
<1> QED
  BY <1>1, <1>2 DEF Init, AccessInv

\* A step of one request that leaves the accounts' flags alone.
LEMMA OwnStep ==
    ASSUME AccessInv, NEW r \in Requests, NEW q, req' = [req EXCEPT ![r] = q],
           q = Idle \/ Sound(q, active, down, withheld, tokens'),
           UNCHANGED <<active, down, withheld>>,
           tokens \subseteq tokens', \A t \in tokens' : TokenInv(t),
           \A a \in apps' : a.by = "account",
           \A t \in minted' :
              /\ ~protected_service_method(t.lxm) /\ t.origin # "oauth"
              /\ t.origin = "app" /\ privileged_service_method(t.lxm) =>
                    t.scope = "takendown" /\ t.lxm = "server.createAccount"
    PROVE  AccessInv'
<1>1. \A s \in Requests : req'[s] = IF s = r THEN q ELSE req[s]
  BY DEF AccessInv
<1>2. req' = [s \in Requests |-> req'[s]]
  BY DEF AccessInv
<1>3. \A x : Sound(x, active, down, withheld, tokens) => Sound(x, active, down, withheld, tokens')
  BY DEF Sound, Authority
<1>4. \A s \in Requests : req'[s] = Idle \/ Sound(req'[s], active, down, withheld, tokens')
  BY <1>1, <1>3 DEF AccessInv
<1> QED
  BY <1>2, <1>4 DEF AccessInv

\* The same for a step that changes no table at all.
LEMMA QuietStep ==
    ASSUME AccessInv, NEW r \in Requests, NEW q, req' = [req EXCEPT ![r] = q],
           q = Idle \/ Sound(q, active, down, withheld, tokens), UNCHANGED stores
    PROVE  AccessInv'
<1>1. /\ \A t \in tokens : TokenInv(t)
      /\ \A a \in apps : a.by = "account"
      /\ \A t \in minted :
          /\ ~protected_service_method(t.lxm) /\ t.origin # "oauth"
          /\ t.origin = "app" /\ privileged_service_method(t.lxm) =>
                t.scope = "takendown" /\ t.lxm = "server.createAccount"
  BY DEF AccessInv
<1> QED
  BY <1>1, OwnStep DEF stores

\* A request as it arrives has its shape.
LEMMA BeganShape ==
    \A nsid, cred, d, arg, scope, pc : pc # "idle" =>
        /\ Shape(Began(nsid, cred, d, arg, scope, pc), active, down, withheld)
        /\ Began(nsid, cred, d, arg, scope, pc).pc = pc
        /\ Began(nsid, cred, d, arg, scope, pc).nsid = nsid
        /\ Began(nsid, cred, d, arg, scope, pc).cred = cred
        /\ Began(nsid, cred, d, arg, scope, pc).did = d
        /\ Began(nsid, cred, d, arg, scope, pc).scope = scope
        /\ Began(nsid, cred, d, arg, scope, pc).seen = {Status(d, active, down)}
        /\ Began(nsid, cred, d, arg, scope, pc).changes = 0
<1> SUFFICES ASSUME NEW nsid, NEW cred, NEW d, NEW arg, NEW scope, NEW pc, pc # "idle"
             PROVE  LET b == Began(nsid, cred, d, arg, scope, pc)
                    IN  /\ Shape(b, active, down, withheld)
                        /\ b.pc = pc /\ b.nsid = nsid /\ b.cred = cred /\ b.did = d
                        /\ b.scope = scope /\ b.seen = {Status(d, active, down)}
                        /\ b.changes = 0
  OBVIOUS
<1> DEFINE b == Began(nsid, cred, d, arg, scope, pc)
<1>1. /\ HasFields(b) /\ b.pc = pc /\ b.nsid = nsid /\ b.cred = cred /\ b.did = d
      /\ b.scope = scope /\ b.seen = {Status(d, active, down)} /\ b.changes = 0 /\ b.authed = None
  BY DEF Began, HasFields
<1>2. b.hid => nsid \in NamesOne /\ d \in withheld
  BY DEF Began
<1> HIDE DEF b
<1>3. Shape(b, active, down, withheld)
  BY <1>1, <1>2 DEF Shape
<1> QED
  BY <1>1, <1>3 DEF b

\* The arrivals.
LEMMA TokenArrives ==
    ASSUME AccessInv, NEW r \in Requests, authenticate_token(r)
    PROVE  AccessInv'
<1>0. PICK nsid \in Methods :
         \E cred \in tokens \union OAuthTokens, arg \in Arguments(nsid) :
            /\ TokenAdmits(cred, nsid, arg)
            /\ ~taken_down_refused(cred.did, ScopeOf(cred, nsid), nsid)
            /\ req' = [req EXCEPT ![r] =
                  Began(nsid, Presented(cred, nsid, arg), cred.did, Kept(nsid, arg),
                        ScopeOf(cred, nsid), "inactive")]
  BY DEF authenticate_token
<1>1. PICK cred \in tokens \union OAuthTokens, arg \in Arguments(nsid) :
         /\ TokenAdmits(cred, nsid, arg)
         /\ ~taken_down_refused(cred.did, ScopeOf(cred, nsid), nsid)
         /\ req' = [req EXCEPT ![r] =
               Began(nsid, Presented(cred, nsid, arg), cred.did, Kept(nsid, arg),
                     ScopeOf(cred, nsid), "inactive")]
  BY <1>0
<1> DEFINE scope == ScopeOf(cred, nsid)
           c == Presented(cred, nsid, arg)
           q == Began(nsid, c, cred.did, Kept(nsid, arg), scope, "inactive")
<1>2. /\ Shape(q, active, down, withheld) /\ q.pc = "inactive" /\ q.nsid = nsid
      /\ q.cred = c /\ q.did = cred.did /\ q.scope = scope
      /\ q.seen = {Status(cred.did, active, down)} /\ q.changes = 0
  BY BeganShape
<1> HIDE DEF q
<1>3. Held(q)
  <2>1. q.seen = {"takendown"} => cred.did \in down
    BY <1>2 DEF Status
  <2> QED
    BY <1>1, <1>2, <2>1 DEF Held, taken_down_refused, account_is_taken_down, get_takedown
<1>4. Truth(q, active, down)
  BY <1>2 DEF Truth
<1>5. CASE cred \in tokens
  <2>1. TokenInv(cred) /\ cred.kind = "session" /\ c = cred
    BY <1>5 DEF AccessInv, TokenInv, Presented
  <2>2. full_access_route(nsid) =>
          cred.origin = "account" \/ (scope = "takendown" /\ takendown_route_allowed(nsid))
    <3>1. full_access_route(nsid) => ~refresh_route(nsid)
      BY DEF full_access_route, refresh_route, PlcOperations
    <3>2. ~refresh_route(nsid) => scope = parse_access_scope(cred.claim)
      BY <2>1 DEF ScopeOf, verify_jwt
    <3>3. full_access_route(nsid) =>
            scope = "full" \/ (scope = "takendown" /\ takendown_route_allowed(nsid))
      BY <1>1, <2>1 DEF TokenAdmits
    <3> HIDE DEF scope
    <3> QED
      BY <2>1, <3>1, <3>2, <3>3, TokenRead
  <2>3. Authority(q, tokens)
    BY <1>2, <1>5, <2>1, <2>2 DEF Authority, ByToken
  <2>4. Sound(q, active, down, withheld, tokens)
    BY <1>2, <1>3, <1>4, <2>3 DEF Sound
  <2> QED
    BY <1>1, <2>4, QuietStep DEF authenticate_token, q
<1>6. CASE cred \in OAuthTokens
  <2>1. cred.kind = "oauth" /\ cred.grant \in Grants
    BY <1>6 DEF OAuthTokens
  <2>2. oauth_admits(cred.grant, nsid, arg)
    BY <1>1, <2>1 DEF TokenAdmits
  <2>3. ~oauth_forbidden_route(nsid)
    BY <2>2 DEF oauth_admits
  <2>4. cred.grant = {} \/ \E p \in cred.grant : Speaks(p, nsid, arg)
    BY <2>1, <2>2, AdmittedIsSaid
  <2>5. c.kind = "oauth" /\ c.said
    BY <2>1, <2>4 DEF Presented
  <2>6. Authority(q, tokens)
    BY <1>2, <2>3, <2>5 DEF Authority, ByToken
  <2>7. Sound(q, active, down, withheld, tokens)
    BY <1>2, <1>3, <1>4, <2>6 DEF Sound
  <2> QED
    BY <1>1, <2>7, QuietStep DEF authenticate_token, q
<1> QED
  BY <1>5, <1>6

LEMMA OthersArrive ==
    ASSUME AccessInv, NEW r \in Requests,
           authenticate_admin(r) \/ authenticate_public(r) \/ create_session(r)
    PROVE  AccessInv'
<1>1. CASE authenticate_admin(r)
  <2>1. PICK nsid, cred, d, arg :
          /\ is_admin_route(nsid)
          /\ admin_authenticated(cred)
          /\ req' = [req EXCEPT ![r] = Began(nsid, cred, d, arg, None, "handler")]
    BY <1>1 DEF authenticate_admin
  <2> DEFINE q == Began(nsid, cred, d, arg, None, "handler")
  <2>2. /\ Shape(q, active, down, withheld) /\ q.pc = "handler" /\ q.nsid = nsid
        /\ q.cred = cred
    BY BeganShape
  <2> HIDE DEF q
  <2>3. cred.kind = "admin" /\ is_admin_route(nsid)
    BY <2>1 DEF admin_authenticated, Admin
  <2>4. Sound(q, active, down, withheld, tokens)
    BY <2>2, <2>3 DEF Sound, Authority, Held, Truth, ByToken
  <2> QED
    BY <1>1, <2>1, <2>4, QuietStep DEF authenticate_admin, q
<1>2. CASE authenticate_public(r)
  <2> DEFINE pc(nsid, d) == IF nsid \in RepoReads /\ ~account_is_active(d)
                            THEN "public_takedown" ELSE "handler"
             a(nsid, cred, d) == IF own_session(nsid, cred, d) THEN d ELSE None
  <2>1. PICK nsid, d, cred :
          /\ is_public_route(nsid)
          /\ req' = [req EXCEPT ![r] =
               [Began(nsid, Anonymous, d, None, None, pc(nsid, d))
                  EXCEPT !.authed = a(nsid, cred, d)]]
    BY <1>2 DEF authenticate_public
  <2> DEFINE b == Began(nsid, Anonymous, d, None, None, pc(nsid, d))
             q == [b EXCEPT !.authed = a(nsid, cred, d)]
  <2>2. pc(nsid, d) # "idle" /\ a(nsid, cred, d) \in {None, d}
    OBVIOUS
  <2>3. /\ Shape(q, active, down, withheld) /\ q.pc = pc(nsid, d) /\ q.nsid = nsid
        /\ q.cred = Anonymous /\ q.did = d /\ q.seen = {Status(d, active, down)} /\ q.changes = 0
    <3> HIDE DEF pc, a
    <3>1. /\ Shape(b, active, down, withheld) /\ b.pc = pc(nsid, d) /\ b.nsid = nsid
          /\ b.cred = Anonymous /\ b.did = d /\ b.seen = {Status(d, active, down)}
          /\ b.changes = 0
      BY <2>2, BeganShape
    <3> HIDE DEF b
    <3>2. /\ HasFields(q) /\ q.pc = b.pc /\ q.nsid = b.nsid /\ q.cred = b.cred /\ q.did = b.did
          /\ q.seen = b.seen /\ q.changes = b.changes /\ q.authed = a(nsid, cred, d)
          /\ q.hid = b.hid
      BY <3>1 DEF HasFields, Shape
    <3> HIDE DEF q
    <3> QED
      BY <2>2, <3>1, <3>2 DEF Shape
  <2> HIDE DEF q
  <2>4. q.cred.kind = "none"
    BY <2>3 DEF Anonymous
  <2>5. q.pc = "public_takedown" => d \notin active /\ (d \notin down => "deactivated" \in q.seen)
    BY <2>3 DEF account_is_active, Status
  <2>6. q.pc \in {"public_takedown", "handler"}
    BY <2>3
  <2>7. Sound(q, active, down, withheld, tokens)
    BY <2>1, <2>3, <2>4, <2>5, <2>6 DEF Sound, Authority, Held, Truth, ByToken
  <2> QED
    BY <1>2, <2>1, <2>7, QuietStep DEF authenticate_public, q
<1>3. CASE create_session(r)
  <2>1. PICK d \in Dids, kind \in {"account", "privileged", "app"} :
          req' = [req EXCEPT ![r] =
             Began("server.createSession", [kind |-> "password", of |-> kind], d,
                   None, LoginScope(d, kind), "issue")]
    BY <1>3 DEF create_session
  <2> DEFINE c == [kind |-> "password", of |-> kind]
             scope == LoginScope(d, kind)
             q == Began("server.createSession", c, d, None, scope, "issue")
  <2>2. /\ Shape(q, active, down, withheld) /\ q.pc = "issue" /\ q.cred = c /\ q.did = d
        /\ q.scope = scope /\ q.seen = {Status(d, active, down)}
    BY BeganShape
  <2> HIDE DEF q
  <2>3. /\ scope \in Scopes /\ (scope = "full" => kind = "account")
        /\ (kind = "app" => scope \in {"app", "takendown"})
        /\ (d \in down => scope = "takendown")
    BY DEF LoginScope, Scopes, account_is_taken_down, get_takedown
  <2>4. q.seen = {"takendown"} => d \in down
    BY <2>2 DEF Status
  <2>5. Sound(q, active, down, withheld, tokens)
    BY <2>2, <2>3, <2>4 DEF Sound, Authority, Held, Truth
  <2> QED
    BY <1>3, <2>1, <2>5, QuietStep DEF create_session, q
<1> QED
  BY <1>1, <1>2, <1>3

\* A request that only moves on keeps its authority where that still counts.
LEMMA GoSound ==
    ASSUME NEW q, Sound(q, active, down, withheld, tokens),
           NEW pc, pc \in {"handler", "guard_active", "status_active", "subject"},
           NEW n, n = [q EXCEPT !.pc = pc],
           pc = "handler" => q.pc = "public_takedown",
           pc \in {"guard_active", "status_active"} => q.did \notin down,
           pc = "subject" /\ q.changes < 2 => "active" \in q.seen \/ q.authed = q.did
    PROVE  Sound(n, active, down, withheld, tokens)
<1>1. /\ HasFields(n) /\ n.pc = pc /\ n.nsid = q.nsid /\ n.cred = q.cred
      /\ n.did = q.did /\ n.scope = q.scope /\ n.authed = q.authed
      /\ n.seen = q.seen /\ n.changes = q.changes /\ n.hid = q.hid
  <2>1. HasFields(q)
    BY DEF Sound, Shape
  <2> QED
    BY <2>1 DEF HasFields
<1>2. Shape(n, active, down, withheld)
  BY <1>1 DEF Sound, Shape
<1>3. Authority(n, tokens)
  BY <1>1 DEF Sound, Authority
<1>4. Held(n)
  BY <1>1 DEF Sound, Authority, Held, ByToken
<1>5. Truth(n, active, down)
  <2>1. Status(q.did, active, down) \in q.seen
    BY DEF Sound, Shape
  <2> QED
    BY <1>1, <2>1 DEF Truth, Status
<1> QED
  BY <1>2, <1>3, <1>4, <1>5 DEF Sound

\* An answer that is true when it is given.
LEMMA AnswerSound ==
    ASSUME NEW q, Sound(q, active, down, withheld, tokens), NEW ans,
           NEW n, n = [q EXCEPT !.pc = "done", !.ans = ans],
           q.changes < 2 =>
             /\ ans \in {"RepoDeactivated", "deactivated"} => "deactivated" \in q.seen
             /\ ans \in {"RepoTakendown", "takendown"} => "takendown" \in q.seen
             /\ ans = "active" => "active" \in q.seen
             /\ ans = "standing" => q.seen # {"takendown"}
             /\ ans = "served" => ("active" \in q.seen \/ q.authed = q.did) /\ ~q.hid
    PROVE  Sound(n, active, down, withheld, tokens)
<1>1. /\ HasFields(n) /\ n.pc = "done" /\ n.ans = ans /\ n.nsid = q.nsid
      /\ n.did = q.did /\ n.authed = q.authed
      /\ n.seen = q.seen /\ n.changes = q.changes /\ n.hid = q.hid
  <2>1. HasFields(q)
    BY DEF Sound, Shape
  <2> QED
    BY <2>1 DEF HasFields
<1>2. Shape(n, active, down, withheld)
  BY <1>1 DEF Sound, Shape
<1>3. Authority(n, tokens) /\ Held(n)
  BY <1>1 DEF Authority, Held
<1>4. Truth(n, active, down)
  BY <1>1 DEF Truth
<1> QED
  BY <1>2, <1>3, <1>4 DEF Sound

\* The reads of the two flags, and what is answered from them.
LEMMA ReadStep ==
    ASSUME AccessInv, NEW r \in Requests, req[r] # Idle, UNCHANGED stores,
           \/ public_takedown(r) \/ assert_repo_available(r) \/ guard_active(r)
           \/ subject_takedown(r) \/ account_status_string(r) \/ status_active(r)
           \/ admin_get_subject_status(r)
    PROVE  AccessInv'
<1> DEFINE q == req[r]
           Said(ans) == q.changes < 2 =>
             /\ ans \in {"RepoDeactivated", "deactivated"} => "deactivated" \in q.seen
             /\ ans \in {"RepoTakendown", "takendown"} => "takendown" \in q.seen
             /\ ans = "active" => "active" \in q.seen
             /\ ans = "standing" => q.seen # {"takendown"}
             /\ ans = "served" => ("active" \in q.seen \/ q.authed = q.did) /\ ~q.hid
           Served == q.changes < 2 => "active" \in q.seen \/ q.authed = q.did
<1>0. Sound(q, active, down, withheld, tokens) /\ request_account_did(r) = q.did
  BY DEF AccessInv, Sound, Shape, request_account_did
<1>1. ASSUME NEW ans, Answer(r, ans), Said(ans) PROVE AccessInv'
  <2> DEFINE n == [q EXCEPT !.pc = "done", !.ans = ans]
  <2>1. req' = [req EXCEPT ![r] = n]
    BY <1>1 DEF Answer
  <2>2. Sound(n, active, down, withheld, tokens)
    BY <1>0, <1>1, AnswerSound
  <2> HIDE DEF n
  <2> QED
    BY <2>1, <2>2, QuietStep
<1>2. ASSUME NEW pc \in {"handler", "guard_active", "status_active", "subject"}, Go(r, pc),
             pc = "handler" => q.pc = "public_takedown",
             pc \in {"guard_active", "status_active"} => q.did \notin down,
             pc = "subject" => Served
      PROVE  AccessInv'
  <2> DEFINE n == [q EXCEPT !.pc = pc]
  <2>1. req' = [req EXCEPT ![r] = n]
    BY <1>2 DEF Go
  <2>2. Sound(n, active, down, withheld, tokens)
    BY <1>0, <1>2, GoSound
  <2> HIDE DEF n
  <2> QED
    BY <2>1, <2>2, QuietStep
<1>3. /\ Status(q.did, active, down) \in q.seen /\ Truth(q, active, down)
      /\ q.hid => q.nsid \in NamesOne /\ q.did \in withheld
  BY <1>0 DEF Sound, Shape
<1>4. ASSUME Available(r), Served PROVE AccessInv'
  <2>1. CASE q.nsid \in NamesOne
    BY <1>2, <1>4, <2>1 DEF Available
  <2>2. CASE q.nsid \notin NamesOne
    <3>1. Said("served")
      BY <1>3, <1>4, <2>2
    <3> HIDE DEF Said
    <3> QED
      BY <1>1, <1>4, <2>2, <3>1 DEF Available
  <2> QED
    BY <2>1, <2>2
<1>5. q.did \in down => Said("RepoTakendown") /\ Said("takendown")
  BY <1>3 DEF Status
<1>6. CASE public_takedown(r)
  <2>1. q.did \notin down => Said("RepoDeactivated")
    BY <1>3, <1>6 DEF Truth, public_takedown, At
  <2> HIDE DEF Said
  <2> QED
    BY <1>1, <1>2, <1>6, <2>1 DEF public_takedown, At, account_is_taken_down, get_takedown
<1>7. CASE assert_repo_available(r)
  <2> HIDE DEF Said
  <2>1. q.authed = q.did => Served
    OBVIOUS
  <2> QED
    BY <1>0, <1>1, <1>2, <1>4, <1>5, <1>7, <2>1
    DEF assert_repo_available, account_is_taken_down, get_takedown
<1>8. CASE guard_active(r)
  <2>1. (q.did \in active => Served) /\ (q.did \notin active => Said("RepoDeactivated"))
    BY <1>3, <1>8 DEF Truth, guard_active, At
  <2> HIDE DEF Said, Served
  <2> QED
    BY <1>0, <1>1, <1>4, <1>8, <2>1 DEF guard_active, account_is_active
<1>9. CASE subject_takedown(r)
  <2>1. (q.did \notin withheld => Said("served")) /\ Said("NotFound")
    BY <1>3, <1>9 DEF Truth, subject_takedown, At
  <2> HIDE DEF Said
  <2> QED
    BY <1>0, <1>1, <1>9, <2>1 DEF subject_takedown, get_takedown
<1>10. CASE account_status_string(r)
  <2> HIDE DEF Said
  <2> QED
    BY <1>0, <1>1, <1>2, <1>5, <1>10 DEF account_status_string, account_is_taken_down, get_takedown
<1>11. CASE status_active(r)
  <2>1. (q.did \in active => Said("active")) /\ (q.did \notin active => Said("deactivated"))
    BY <1>3, <1>11 DEF Truth, status_active, At
  <2> HIDE DEF Said
  <2> QED
    BY <1>0, <1>1, <1>11, <2>1 DEF status_active, account_is_active
<1>12. CASE admin_get_subject_status(r)
  <2>1. /\ q.did \notin down => Said("standing")
        /\ Said("withheld") /\ Said("NotFound")
    BY <1>3 DEF Status
  <2> HIDE DEF Said
  <2> QED
    BY <1>1, <1>5, <1>12, <2>1 DEF admin_get_subject_status, account_is_taken_down, get_takedown
<1> QED
  BY <1>6, <1>7, <1>8, <1>9, <1>10, <1>11, <1>12

\* The gate for deactivated accounts, and the handlers that issue something.
LEMMA GateStep ==
    ASSUME AccessInv, NEW r \in Requests, inactive_gate(r)
    PROVE  AccessInv'
<1> DEFINE q == req[r]
           n == [q EXCEPT !.pc = "handler", !.authed = q.did]
<1>1. q.pc = "inactive" /\ UNCHANGED stores
  BY DEF inactive_gate, At
<1>2. Sound(q, active, down, withheld, tokens)
  BY <1>1 DEF AccessInv, Idle
<1>3. CASE req' = [req EXCEPT ![r] = Idle]
  BY <1>1, <1>3, QuietStep
<1>4. CASE /\ req' = [req EXCEPT ![r] = n]
           /\ account_is_active(q.did) \/ inactive_route_allowed(q.nsid)
  <2>1. /\ HasFields(n) /\ n.pc = "handler" /\ n.authed = q.did /\ n.nsid = q.nsid
        /\ n.cred = q.cred /\ n.did = q.did /\ n.scope = q.scope
        /\ n.seen = q.seen /\ n.changes = q.changes /\ n.hid = q.hid
    <3>1. HasFields(q)
      BY <1>2 DEF Sound, Shape
    <3> QED
      BY <3>1 DEF HasFields
  <2> HIDE DEF n
  <2>2. Shape(n, active, down, withheld)
    BY <1>2, <2>1 DEF Sound, Shape
  <2>3. Authority(n, tokens)
    BY <1>1, <1>2, <2>1 DEF Sound, Authority, ByToken
  <2>4. q.seen = {"deactivated"} => q.did \notin active
    BY <1>2 DEF Sound, Shape, Status
  <2>5. Held(n)
    BY <1>1, <1>2, <1>4, <2>1, <2>4 DEF Sound, Held, ByToken, account_is_active
  <2>6. Truth(n, active, down)
    BY <2>1 DEF Truth
  <2>7. Sound(n, active, down, withheld, tokens)
    BY <2>2, <2>3, <2>5, <2>6 DEF Sound
  <2> QED
    BY <1>1, <1>4, <2>7, QuietStep
<1>5. \/ req' = [req EXCEPT ![r] = Idle]
      \/ /\ req' = [req EXCEPT ![r] = n]
         /\ account_is_active(q.did) \/ inactive_route_allowed(q.nsid)
  <2>1. CASE ~account_is_active(q.did) /\ ~inactive_route_allowed(q.nsid)
    BY <2>1 DEF inactive_gate, Refuse
  <2>2. CASE ~(~account_is_active(q.did) /\ ~inactive_route_allowed(q.nsid))
    <3>1. req' = [req EXCEPT ![r].pc = "handler", ![r].authed = req[r].did]
      BY <2>2 DEF inactive_gate
    <3>2. req' = [req EXCEPT ![r] = n]
      BY <3>1 DEF AccessInv
    <3> QED
      BY <2>2, <3>2
  <2> QED
    BY <2>1, <2>2
<1> QED
  BY <1>3, <1>4, <1>5

LEMMA IssueStep ==
    ASSUME AccessInv, NEW r \in Requests,
           create_scoped_session(r) \/ create_app_password(r) \/ get_service_auth(r)
    PROVE  AccessInv'
<1> DEFINE q == req[r]
<1>0. /\ \A t \in tokens : TokenInv(t)
      /\ \A a \in apps : a.by = "account"
      /\ \A t \in minted :
          /\ ~protected_service_method(t.lxm) /\ t.origin # "oauth"
          /\ t.origin = "app" /\ privileged_service_method(t.lxm) =>
                t.scope = "takendown" /\ t.lxm = "server.createAccount"
  BY DEF AccessInv
<1>1. req' = [req EXCEPT ![r] = Idle] /\ UNCHANGED <<active, down, withheld>>
  BY DEF create_scoped_session, create_app_password, get_service_auth, Refuse
<1>2. Sound(q, active, down, withheld, tokens)
  BY DEF AccessInv, create_scoped_session, create_app_password, get_service_auth,
         Handles, At, Idle
<1>3. CASE create_scoped_session(r)
  <2> DEFINE t == [kind |-> "session", did |-> q.did,
                   claim |-> access_scope_name(q.scope), origin |-> q.cred.of]
  <2>1. tokens' = tokens \union {t} /\ UNCHANGED <<apps, minted>> /\ q.pc = "issue"
    BY <1>3 DEF create_scoped_session, At
  <2>2. TokenInv(t)
    BY <1>2, <2>1 DEF TokenInv, Sound, Authority
  <2> QED
    BY <1>0, <1>1, <2>1, <2>2, OwnStep
<1>4. CASE create_app_password(r)
  <2>1. q.pc = "handler" /\ q.nsid = "server.createAppPassword"
    BY <1>4 DEF create_app_password, Handles, At
  <2>2. q.cred.kind = "session" /\ q.cred.origin = "account"
    BY <1>2, <2>1 DEF Sound, Authority, full_access_route, takendown_route_allowed, is_admin_route,
       is_public_route, oauth_forbidden_route, Exports, PlcOperations
  <2>3. Origin(q.cred) = "account"
    BY <2>2 DEF Origin
  <2>4. \A a \in apps' : a.by = "account"
    BY <1>0, <1>4, <2>3 DEF create_app_password
  <2>5. UNCHANGED <<tokens, minted>>
    BY <1>4 DEF create_app_password
  <2> QED
    BY <1>0, <1>1, <2>4, <2>5, OwnStep
<1>5. CASE get_service_auth(r)
  <2> DEFINE lxm == q.arg
             scope == verify_jwt(q.cred, q.did)
             t == [lxm |-> lxm, scope |-> scope, origin |-> Origin(q.cred)]
             Refused == \/ protected_service_method(lxm)
                        \/ scope = None
                        \/ scope = "takendown" /\ lxm # "server.createAccount"
                        \/ scope = "app" /\ privileged_service_method(lxm)
  <2>1. q.pc = "handler" /\ UNCHANGED <<tokens, apps>>
        /\ (Refused => minted' = minted) /\ (~Refused => minted' = minted \union {t})
    BY <1>5 DEF get_service_auth, Handles, At
  <2>2. ASSUME ~Refused
        PROVE  /\ ~protected_service_method(t.lxm) /\ t.origin # "oauth"
               /\ t.origin = "app" /\ privileged_service_method(t.lxm) =>
                     t.scope = "takendown" /\ t.lxm = "server.createAccount"
    <3>1. q.cred.kind = "session" /\ scope = parse_access_scope(q.cred.claim)
      BY <2>2 DEF verify_jwt
    <3>2. TokenInv(q.cred)
      BY <1>0, <1>2, <2>1, <3>1 DEF Sound, Authority
    <3>3. /\ scope = "full" => q.cred.origin = "account"
          /\ q.cred.origin = "app" => scope \in {"app", "takendown"}
      BY <3>1, <3>2, TokenRead
    <3>4. q.cred.origin # "oauth"
      BY <3>2 DEF TokenInv
    <3> QED
      BY <2>2, <3>1, <3>3, <3>4 DEF Origin
  <2>3. \A m \in minted' :
          /\ ~protected_service_method(m.lxm) /\ m.origin # "oauth"
          /\ m.origin = "app" /\ privileged_service_method(m.lxm) =>
                m.scope = "takendown" /\ m.lxm = "server.createAccount"
    <3> HIDE DEF t, Refused
    <3> QED
      BY <1>0, <2>1, <2>2
  <2> QED
    BY <1>0, <1>1, <2>1, <2>3, OwnStep
<1> QED
  BY <1>3, <1>4, <1>5

\* The record's own takedown: a request that has it marked loses the mark when
\* the takedown is lifted.
LEMMA RecordStep ==
    ASSUME AccessInv, NEW r \in Requests, update_record_status(r)
    PROVE  AccessInv'
<1> DEFINE d == req[r].did
           After(s) == IF s = r THEN Idle
                       ELSE IF req[s] = Idle \/ req[s].did # d THEN req[s]
                       ELSE [req[s] EXCEPT !.hid = req[s].hid /\ d \in withheld']
<1>1. /\ withheld' = set_takedown(withheld, d, req[r].arg = "hide")
      /\ req' = [s \in Requests |-> After(s)]
      /\ UNCHANGED <<active, down, apps, tokens, minted>>
  BY DEF update_record_status
<1>2. \A x : x # d => (x \in withheld' <=> x \in withheld)
  BY <1>1 DEF set_takedown
<1>3. ASSUME NEW s \in Requests
      PROVE  After(s) = Idle \/ Sound(After(s), active, down, withheld', tokens)
  <2> DEFINE q == req[s]
             hid == q.hid /\ d \in withheld'
             n == [q EXCEPT !.hid = hid]
  <2>1. CASE s = r \/ q = Idle
    BY <2>1
  <2>2. CASE s # r /\ q # Idle /\ q.did # d
    <3>1. Sound(q, active, down, withheld, tokens)
      BY <2>2 DEF AccessInv
    <3>2. Sound(q, active, down, withheld', tokens)
      BY <1>2, <2>2, <3>1 DEF Sound, Shape
    <3> QED
      BY <2>2, <3>2
  <2>3. CASE s # r /\ q # Idle /\ q.did = d
    <3>1. Sound(q, active, down, withheld, tokens)
      BY <2>3 DEF AccessInv
    <3>2. (hid => q.hid) /\ (hid => d \in withheld')
      OBVIOUS
    <3>3. /\ HasFields(n) /\ n.pc = q.pc /\ n.nsid = q.nsid /\ n.cred = q.cred
          /\ n.did = q.did /\ n.scope = q.scope /\ n.authed = q.authed
          /\ n.ans = q.ans /\ n.hid = hid
          /\ n.seen = q.seen /\ n.changes = q.changes
      <4>1. HasFields(q)
        BY <3>1 DEF Sound, Shape
      <4> HIDE DEF hid
      <4> QED
        BY <4>1 DEF HasFields
    <3> HIDE DEF n, hid
    <3>4. Shape(n, active, down, withheld')
      BY <2>3, <3>1, <3>2, <3>3 DEF Sound, Shape
    <3>5. Authority(n, tokens)
      BY <3>1, <3>3 DEF Sound, Authority, ByToken
    <3>6. Held(n)
      BY <3>1, <3>3 DEF Sound, Held, ByToken
    <3>7. Truth(n, active, down)
      BY <3>1, <3>2, <3>3 DEF Sound, Truth
    <3>8. Sound(n, active, down, withheld', tokens)
      BY <3>4, <3>5, <3>6, <3>7 DEF Sound
    <3> QED
      BY <2>3, <3>8 DEF n, hid
  <2> QED
    BY <2>1, <2>2, <2>3
<1> HIDE DEF After
<1>4. /\ req' = [s \in Requests |-> req'[s]]
      /\ \A s \in Requests : req'[s] = Idle \/ Sound(req'[s], active, down, withheld', tokens)
  BY <1>1, <1>3
<1> QED
  BY <1>1, <1>4 DEF AccessInv

LEMMA AccessStep == AccessInv /\ [Next]_vars => AccessInv'
<1> SUFFICES ASSUME AccessInv, [Next]_vars PROVE AccessInv'
  OBVIOUS
<1>1. ASSUME NEW r \in Requests, authenticate_token(r) PROVE AccessInv'
  BY <1>1, TokenArrives
<1>2. ASSUME NEW r \in Requests,
             authenticate_admin(r) \/ authenticate_public(r) \/ create_session(r)
      PROVE  AccessInv'
  BY <1>2, OthersArrive
<1>3. ASSUME NEW r \in Requests,
             create_scoped_session(r) \/ create_app_password(r) \/ get_service_auth(r)
      PROVE  AccessInv'
  BY <1>3, IssueStep
<1>4. ASSUME NEW r \in Requests, inactive_gate(r) PROVE AccessInv'
  BY <1>4, GateStep
<1>5. ASSUME NEW r \in Requests,
             \/ get_repo(r) \/ get_blocks(r) \/ list_blobs(r) \/ get_record(r) \/ get_blob(r)
             \/ h_get_record(r) \/ h_list_records(r) \/ h_describe_repo(r)
             \/ h_get_latest_commit(r)
      PROVE  AccessInv'
  <2>1. At(r, "handler") /\ assert_repo_available(r)
    BY <1>5 DEF get_repo, get_blocks, list_blobs, get_record, get_blob, h_get_record,
       h_list_records, h_describe_repo, h_get_latest_commit, metalbear_repo_access_guard, Handles
  <2>2. req[r] # Idle /\ UNCHANGED stores
    BY <2>1 DEF At, Idle, assert_repo_available
  <2> QED
    BY <2>1, <2>2, ReadStep
<1>6. ASSUME NEW r \in Requests, get_repo_status(r) \/ list_repos(r) \/ get_session(r)
      PROVE  AccessInv'
  <2>1. At(r, "handler") /\ account_status_string(r)
    BY <1>6 DEF get_repo_status, list_repos, get_session, Handles
  <2>2. req[r] # Idle /\ UNCHANGED stores
    BY <2>1 DEF At, Idle, account_status_string
  <2> QED
    BY <2>1, <2>2, ReadStep
<1>7. ASSUME NEW r \in Requests,
             \/ public_takedown(r) \/ guard_active(r) \/ subject_takedown(r) \/ status_active(r)
             \/ admin_get_subject_status(r)
      PROVE  AccessInv'
  <2>1. req[r] # Idle /\ UNCHANGED stores
    BY <1>7 DEF public_takedown, guard_active, subject_takedown, status_active,
       admin_get_subject_status, Handles, At, Idle
  <2> QED
    BY <1>7, <2>1, ReadStep
<1>8. ASSUME NEW r \in Requests, Answered(r) \/ OtherHandler(r) PROVE AccessInv'
  <2>1. req' = [req EXCEPT ![r] = Idle] /\ UNCHANGED stores
    BY <1>8 DEF Answered, OtherHandler, Refuse
  <2> QED
    BY <2>1, QuietStep
<1>9. ASSUME NEW r \in Requests, deactivate_account(r) \/ activate_account(r) PROVE AccessInv'
  <2> DEFINE d == request_account_did(r)
  <2>1. CASE deactivate_account(r)
    <3>1. SetStatus(r, d, active \ {d}, down) /\ UNCHANGED <<withheld, apps, tokens, minted>>
      BY <2>1 DEF deactivate_account
    <3> HIDE DEF d
    <3> QED
      BY <3>1, StatusStep
  <2>2. CASE activate_account(r)
    <3>1. SetStatus(r, d, active \union {d}, down) /\ UNCHANGED <<withheld, apps, tokens, minted>>
      BY <2>2 DEF activate_account
    <3> HIDE DEF d
    <3> QED
      BY <3>1, StatusStep
  <2> QED
    BY <1>9, <2>1, <2>2
<1>10. ASSUME NEW r \in Requests, update_subject_status(r) PROVE AccessInv'
  <2> DEFINE d == req[r].did
             act == CASE req[r].arg = "deactivate" -> active \ {d}
                      [] req[r].arg = "activate"   -> active \union {d}
                      [] OTHER                     -> active
             dwn == IF req[r].arg \in {"takedown", "lift"}
                    THEN set_takedown(down, d, req[r].arg = "takedown") ELSE down
  <2>1. SetStatus(r, d, act, dwn) /\ UNCHANGED <<withheld, apps, tokens, minted>>
    BY <1>10 DEF update_subject_status
  <2>2. /\ \A x : x # d => (x \in act <=> x \in active) /\ (x \in dwn <=> x \in down)
        /\ act = active \/ dwn = down
    BY DEF set_takedown
  <2> HIDE DEF act, dwn, d
  <2> QED
    BY <2>1, <2>2, StatusStep
<1>11. ASSUME NEW r \in Requests, update_record_status(r) PROVE AccessInv'
  BY <1>11, RecordStep
<1>12. CASE UNCHANGED vars
  BY <1>12 DEF vars, AccessInv
<1> QED
  BY <1>1, <1>2, <1>3, <1>4, <1>5, <1>6, <1>7, <1>8, <1>9, <1>10, <1>11, <1>12 DEF Next

-----------------------------------------------------------------------------
(* The theorems.                                                           *)

LEMMA AccessInvariance == Spec => []AccessInv
BY InitAccessInv, AccessStep, PTL DEF Spec

\* A request whose account has had one status ever since the request arrived is
\* held to it, however the flags of other accounts and the steps of other
\* requests lie between its reads.
THEOREM StatusIsEnforced == Spec => []StatusHolds
<1>1. AccessInv => StatusHolds
  BY DEF AccessInv, StatusHolds, Sound, Held, ByToken, InFlight, At
<1> QED
  BY <1>1, AccessInvariance, PTL

\* Every answer about an account was true at some moment while the request ran,
\* unless the account's flags changed twice meanwhile.
THEOREM AnswersAreTrue == Spec => []AnswersTrue
<1>1. ASSUME AccessInv PROVE AnswersTrue
  <2>1. ASSUME NEW r \in Requests, At(r, "done"), req[r].changes < 2
        PROVE  CASE req[r].ans \in {"RepoDeactivated", "deactivated"} -> "deactivated" \in req[r].seen
                 [] req[r].ans \in {"RepoTakendown", "takendown"}     -> "takendown" \in req[r].seen
                 [] req[r].ans = "active"                             -> "active" \in req[r].seen
                 [] req[r].ans = "standing"                           -> req[r].seen # {"takendown"}
                 [] req[r].ans = "served" ->
                       /\ "active" \in req[r].seen \/ req[r].authed = req[r].did
                       /\ ~req[r].hid
                 [] OTHER -> TRUE
    <3>1. Truth(req[r], active, down)
      BY <1>1, <2>1 DEF AccessInv, Sound, At, Idle
    <3> QED
      BY <2>1, <3>1 DEF Truth, At
  <2> QED
    BY <2>1 DEF AnswersTrue
<1> QED
  BY <1>1, AccessInvariance, PTL

\* Authority does not grow, for whatever grants are held and whatever logins,
\* status changes and requests lie in between.
THEOREM AuthorityDoesNotGrow == Spec => []WithinAuthority
<1>1. AccessInv => WithinAuthority
  BY DEF AccessInv, WithinAuthority, Sound, Authority, At, Idle
<1> QED
  BY <1>1, AccessInvariance, PTL
=============================================================================
