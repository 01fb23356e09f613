------------------------------- MODULE Scopes -------------------------------
(***************************************************************************)
(* The permissions an OAuth grant carries: how a scope string is read      *)
(* (mb_scope_permission_parse, mb_scope_set_parse) and what the resulting  *)
(* set allows (mb_scope_set_allows_...), both of oauth_scope.c.            *)
(*                                                                         *)
(* A scope such as "rpc:a?aud=b&lxm=c" is the record                       *)
(*     [type |-> "rpc", pos |-> {"a"}, query |-> {<<"aud", "b">>, ...}]    *)
(* of its type, its positional value (at most one) and its named values.   *)
(* A parser returns the set of permissions the text yields: one, or none   *)
(* where the code returns NULL.  A media type is a pair <<type, subtype>>. *)
(*                                                                         *)
(* Left out: abbreviated type names (strncmp with the length given accepts *)
(* "r:" for "repo:"), a query that is present but empty, allocation        *)
(* failures, and mb_scope_normalize, which the server never calls.         *)
(***************************************************************************)
EXTENDS Naturals, FiniteSets

CONSTANTS Collections,   \* record collections, by their NSIDs
          Methods,       \* XRPC methods, by their NSIDs
          Audiences      \* service identifiers an rpc: scope may name

Wildcard == "*"
AnyMime == <<Wildcard, Wildcard>>
RepoActions == {"create", "update", "delete"}

\* The values a query gives to a key (query_parse; the order is immaterial).
Values(p, key) == {q[2] : q \in {x \in p.query : x[1] = key}}

query_keys_allowed(p, keys) == \A q \in p.query : q[1] \in keys

\* A value may be positional or named, never both.
extract_multi(p, key) ==
    IF p.pos # {} /\ Values(p, key) # {} THEN {} ELSE p.pos \union Values(p, key)

is_valid_nsid(s) == s \in Collections \union Methods
is_valid_lxm(s) == s = Wildcard \/ is_valid_nsid(s)
is_valid_aud(s) == s = Wildcard \/ s \in Audiences
is_identity_attr(s) == s \in {"handle", Wildcard}
is_account_attr(s) == s \in {"email", "repo", "status"}
\* A wildcard is the whole subtype, or both parts.
is_valid_accept(m) == m = AnyMime \/ m[1] # Wildcard

(***************************************************************************)
(* Reading one permission.                                                 *)
(***************************************************************************)

\* An action is compared over the length given, so that any prefix of its
\* name stands for it, and the empty one for the first.
Abbreviations == [create |-> {"", "c", "create"}, update |-> {"u", "update"},
                  delete |-> {"d", "delete"}]

\* Actions that are no action, and other parameters, are skipped.
repo_permission(p) ==
    {[type |-> "repo", collection |-> c,
      actions |-> IF p.query = {} THEN RepoActions
                  ELSE {a \in RepoActions :
                            Values(p, "action") \cap Abbreviations[a] # {}}] :
        c \in {s \in p.pos : s = Wildcard \/ is_valid_nsid(s)}}

blob_permission(p) ==
    LET accept == extract_multi(p, "accept")
    IN  IF /\ query_keys_allowed(p, {"accept"})
           /\ accept # {} /\ \A m \in accept : is_valid_accept(m)
        THEN {[type |-> "blob", accept |-> accept]}
        ELSE {}

identity_permission(p) ==
    {[type |-> "identity", attr |-> a] :
        a \in {s \in p.pos : is_identity_attr(s) /\ p.query = {}}}

account_permission(p) ==
    {[type |-> "account", attr |-> a,
      actions |-> IF p.query = {} THEN {"read"} ELSE Values(p, "action")] :
        a \in {s \in p.pos : /\ is_account_attr(s)
                             /\ query_keys_allowed(p, {"action"})
                             /\ Values(p, "action") \subseteq {"read", "manage"}}}

\* Exactly one audience; every method on every audience is refused.
rpc_permission(p) ==
    LET lxm == extract_multi(p, "lxm")
    IN  {[type |-> "rpc", lxm |-> lxm, aud |-> a] :
            a \in {s \in Values(p, "aud") :
                      /\ query_keys_allowed(p, {"lxm", "aud"})
                      /\ lxm # {} /\ \A l \in lxm : is_valid_lxm(l)
                      /\ Cardinality(Values(p, "aud")) = 1
                      /\ is_valid_aud(s)
                      /\ ~(Wildcard \in lxm /\ s = Wildcard)}}

StaticScopes == {"atproto", "transition:email", "transition:generic",
                 "transition:chat.bsky"}

permission_parse(p) ==
    CASE p.type = "static"   -> {[type |-> "static", value |-> s] :
                                    s \in p.pos \cap StaticScopes}
      [] p.type = "repo"     -> repo_permission(p)
      [] p.type = "blob"     -> blob_permission(p)
      [] p.type = "identity" -> identity_permission(p)
      [] p.type = "account"  -> account_permission(p)
      [] p.type = "rpc"      -> rpc_permission(p)
      [] p.type = "include"  -> {[type |-> "include"]}
      [] OTHER               -> {}

\* Scopes that do not parse are ignored.
scope_set_parse(grant) == UNION {permission_parse(p) : p \in grant}

(***************************************************************************)
(* What a set of permissions allows.                                       *)
(***************************************************************************)
OfType(set, t) == {p \in set : p.type = t}

is_full_access(set) ==
    \/ \E p \in OfType(set, "static") : p.value = "atproto"
    \/ \E p \in OfType(set, "repo") : p.collection = Wildcard /\ p.actions = RepoActions

allows_repo(set, collection, action) ==
    \/ is_full_access(set)
    \/ \E p \in OfType(set, "repo") :
          p.collection \in {Wildcard, collection} /\ action \in p.actions

\* Any permission on a collection lets its holder read it.
allows_read(set, collection) ==
    is_full_access(set) \/ \E p \in OfType(set, "repo") : p.collection \in {Wildcard, collection}

allows_identity(set, attr) ==
    is_full_access(set) \/ \E p \in OfType(set, "identity") : p.attr \in {Wildcard, attr}

allows_account(set, attr, action) ==
    \/ is_full_access(set)
    \/ \E p \in OfType(set, "account") :
          p.attr = attr /\ {"manage", action} \cap p.actions # {}

allows_blob(set, mime) ==
    \/ is_full_access(set)
    \/ \E p \in OfType(set, "blob") :
          p.accept \cap {AnyMime, <<mime[1], Wildcard>>, mime} # {}

allows_rpc(set, lxm, aud) ==
    \/ is_full_access(set)
    \/ \E p \in OfType(set, "rpc") :
          p.aud \in {Wildcard, aud} /\ {Wildcard, lxm} \cap p.lxm # {}
=============================================================================
