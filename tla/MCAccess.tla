------------------------------ MODULE MCAccess ------------------------------
\* Request authentication, instantiated for TLC.
EXTENDS Access, TLC

CONSTANTS r1, r2, d1, d2

Scope(type, pos, query) == [type |-> type, pos |-> pos, query |-> query]

\* Grants of every kind: without a scope, full in either way, narrow ones,
\* and ones with a scope that does not parse.
MCGrants ==
    {{},
     {Scope("static", {"atproto"}, {})},
     {Scope("repo", {"*"}, {}), Scope("static", {"transition:email"}, {})},
     {Scope("repo", {"app.post"}, {<<"action", "c">>, <<"action", "update">>}),
      Scope("repo", {"*"}, {<<"action", "delete">>}), Scope("repo", {"bad name"}, {}),
      Scope("include", {"x"}, {})},
     {Scope("blob", {<<"image", "*">>}, {}), Scope("identity", {"handle"}, {}),
      Scope("account", {"repo"}, {})},
     {Scope("blob", {<<"*", "png">>}, {}), Scope("identity", {"*"}, {}),
      Scope("account", {"repo"}, {<<"action", "manage">>})},
     {Scope("rpc", {"*"}, {<<"aud", "pds">>}), Scope("rpc", {"*"}, {<<"aud", "*">>}),
      Scope("identity", {"*"}, {<<"attr", "handle">>})},
     {Scope("rpc", {}, {<<"lxm", "app.bsky.feed.getTimeline">>, <<"aud", "appview">>}),
      Scope("rpc", {"repo.createRecord"}, {<<"lxm", "*">>, <<"aud", "pds">>})}}

\* Request threads and accounts are interchangeable.
Interchangeable == Permutations(Requests) \cup Permutations(Dids)
=============================================================================
