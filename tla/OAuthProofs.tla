----------------------------- MODULE OAuthProofs -----------------------------
(***************************************************************************)
(* What holds of the OAuth server for any number of request threads,       *)
(* clients, keys, accounts and passkeys: single-use values are used once,  *)
(* a grant comes from a request that was pushed and approved, a revoked    *)
(* chain of refresh tokens has no successor, and a token that left the     *)
(* browser's cookie is revoked.                                            *)
(*                                                                         *)
(* A single-use value is a row, or is carried by the one request that has  *)
(* deleted the row and not yet written what it is exchanged for (IdInv).   *)
(* The chain of refresh tokens that began with a code is at one place at a *)
(* time: the code, a token or the request that carries it (RootInv); that  *)
(* request keeps the store's mutex, which is why a revocation, which takes *)
(* the mutex, finds the chain's token.  What a row is bound to is handed   *)
(* on unchanged (ProvInv).                                                 *)
(***************************************************************************)
EXTENDS OAuth, TLAPS

OneUse == {"par", "code", "refresh", "challenge"}

\* A request between the deletion of a single-use value and what follows.
Carries(q) == q.pc \in {"issue", "touch"}
Carried(q) == IF q.pc = "issue" THEN q.tok ELSE q.client.challenge

HasFields(q) ==
    q \in [pc : {q.pc}, subject : {q.subject}, tok : {q.tok}, client : {q.client},
           key : {q.key}, cookie : {q.cookie}, keep : {q.keep}, drop : {q.drop},
           count : {q.count}]

Shape ==
    /\ used \in Nat
    /\ db = [t \in Tables |-> db[t]]
    /\ h \in [pushed : {h.pushed}, approved : {h.approved}, spent : {h.spent},
              twice : {h.twice}, chains : {h.chains}, revoked : {h.revoked},
              dropped : {h.dropped}]
    /\ request = [r \in Requests |-> request[r]]
    /\ \A r \in Requests : HasFields(request[r])

IdInv ==
    /\ h.twice = {} /\ h.spent \subseteq 1..used
    /\ \A t \in OneUse : \A x \in db[t] : x.id \in (1..used) \ h.spent
    /\ \A t, u \in OneUse : \A x \in db[t], y \in db[u] : x.id = y.id => t = u /\ x = y
    /\ \A r \in Requests : Carries(request[r]) =>
        /\ Carried(request[r]) \in (1..used) \ h.spent
        /\ \A t \in OneUse : \A x \in db[t] : x.id # Carried(request[r])
    /\ \A r, s \in Requests :
        (Carries(request[r]) /\ Carries(request[s])
           /\ Carried(request[r]) = Carried(request[s])) => r = s

RootInv ==
    /\ h.revoked \subseteq 1..used
    /\ \A x \in db["refresh"] :
        /\ x.root \in (1..used) \ h.revoked
        /\ \A y \in db["refresh"] : x.root = y.root => x = y
        /\ \A c \in db["code"] : c.id # x.root
    /\ \A c \in db["code"] : c.id \notin h.revoked
    /\ \A ch \in h.chains :
        /\ ch[1] \in 1..used
        /\ \A x \in db["refresh"] : x.root = ch[1] => x.subject = ch[2] /\ x.client = ch[3]
        /\ \A c \in db["code"] : c.id # ch[1]
    /\ \A r \in Requests : At(r, "issue") =>
        /\ mutex = r
        /\ request[r].count \in (1..used) \ h.revoked
        /\ \A x \in db["refresh"] : x.root # request[r].count
        /\ \A c \in db["code"] : c.id # request[r].count
        /\ \A ch \in h.chains : ch[1] = request[r].count =>
             request[r].subject = ch[2] /\ request[r].client = ch[3]

\* Some request was pushed and approved that x speaks for.
Approved(x) ==
    \E p \in h.pushed : /\ p[2] = x.client /\ p[3] = x.key
                        /\ <<p[1], x.subject>> \in h.approved

ProvInv ==
    /\ \A x \in db["par"] : <<x.id, x.client, x.key>> \in h.pushed
    /\ \A x \in db["code"] \union db["refresh"] : Approved(x)
    /\ \A r \in Requests :
        /\ At(r, "authorize") => <<request[r].tok, request[r].subject>> \in h.approved
        /\ At(r, "issue") => Approved(request[r])

OAuthInv == Shape /\ IdInv /\ RootInv /\ ProvInv

-----------------------------------------------------------------------------
(* The statements of the store.                                            *)

IsDb(d) == d = [t \in Tables |-> d[t]]

LEMMA PruneRows ==
    ASSUME IsDb(db)
    PROVE  IsDb(prune(db)) /\ \A t \in OneUse : prune(db)[t] \subseteq db[t]
BY DEF IsDb, prune, OneUse, Tables

LEMMA InsertRows ==
    ASSUME NEW d, IsDb(d), NEW t \in Tables, NEW row
    PROVE  /\ IsDb(Insert(d, t, row))
           /\ Insert(d, t, row)[t] = d[t] \union {row}
           /\ \A u \in Tables : u # t => Insert(d, t, row)[u] = d[u]
BY DEF IsDb, Insert

LEMMA DeleteRows ==
    ASSUME NEW d, IsDb(d), NEW t \in Tables, NEW rows
    PROVE  /\ IsDb(Delete(d, t, rows))
           /\ Delete(d, t, rows)[t] = d[t] \ rows
           /\ \A u \in Tables : u # t => Delete(d, t, rows)[u] = d[u]
BY DEF IsDb, Delete

IsHistory(x) ==
    x \in [pushed : {x.pushed}, approved : {x.approved}, spent : {x.spent},
           twice : {x.twice}, chains : {x.chains}, revoked : {x.revoked},
           dropped : {x.dropped}]

LEMMA SpendOnce ==
    ASSUME NEW x, IsHistory(x), NEW id
    PROVE  /\ IsHistory(Spend(x, id))
           /\ Spend(x, id).twice = x.twice \union ({id} \intersect x.spent)
           /\ Spend(x, id).spent = x.spent \union {id}
           /\ Spend(x, id).pushed = x.pushed /\ Spend(x, id).approved = x.approved
           /\ Spend(x, id).chains = x.chains /\ Spend(x, id).revoked = x.revoked
BY DEF IsHistory, Spend

\* A step that adds no single-use row, spends nothing and revokes nothing, and
\* whose request carries nothing afterwards.
LEMMA QuietStep ==
    ASSUME OAuthInv, Shape', used <= used',
           \A t \in OneUse : db'[t] \subseteq db[t],
           h.pushed \subseteq h'.pushed, h.approved \subseteq h'.approved,
           h'.spent = h.spent, h'.twice = h.twice, h'.chains = h.chains, h'.revoked = h.revoked,
           \A r \in Requests :
              \/ request'[r] = request[r] /\ (At(r, "issue") => mutex' = mutex)
              \/ /\ request'[r].pc \notin {"issue", "touch"}
                 /\ request'[r].pc = "authorize" =>
                      <<request'[r].tok, request'[r].subject>> \in h'.approved
    PROVE  OAuthInv'
<1>1. 1..used \subseteq 1..used'
  BY DEF OAuthInv, Shape
<1>2. \A r \in Requests : Carries(request'[r]) => request'[r] = request[r]
  BY DEF Carries
<1>3. IdInv'
  <2>1. /\ h'.twice = {} /\ h'.spent \subseteq 1..used'
        /\ \A t \in OneUse : \A x \in db'[t] : x.id \in (1..used') \ h'.spent
    BY <1>1 DEF OAuthInv, IdInv
  <2>2. \A t, u \in OneUse : \A x \in db'[t], y \in db'[u] : x.id = y.id => t = u /\ x = y
    BY DEF OAuthInv, IdInv
  <2>3. \A r \in Requests : Carries(request'[r]) =>
          /\ Carried(request'[r]) \in (1..used') \ h'.spent
          /\ \A t \in OneUse : \A x \in db'[t] : x.id # Carried(request'[r])
    BY <1>1, <1>2 DEF OAuthInv, IdInv
  <2>4. \A r, s \in Requests :
          (Carries(request'[r]) /\ Carries(request'[s])
             /\ Carried(request'[r]) = Carried(request'[s])) => r = s
    BY <1>2 DEF OAuthInv, IdInv
  <2> QED
    BY <2>1, <2>2, <2>3, <2>4 DEF IdInv, Carries, Carried
<1>4. RootInv'
  <2>1. "refresh" \in OneUse /\ "code" \in OneUse
    BY DEF OneUse
  <2>2. \A r \in Requests : At(r, "issue")' => request'[r] = request[r] /\ mutex' = mutex
    BY DEF At
  <2> QED
    BY <1>1, <2>1, <2>2 DEF OAuthInv, RootInv, At
<1>5. ProvInv'
  <2>1. "refresh" \in OneUse /\ "code" \in OneUse /\ "par" \in OneUse
    BY DEF OneUse
  <2>2. \A x \in db'["par"] : <<x.id, x.client, x.key>> \in h'.pushed
    BY <2>1 DEF OAuthInv, ProvInv
  <2>3. \A x : Approved(x) =>
          \E p \in h'.pushed : /\ p[2] = x.client /\ p[3] = x.key
                               /\ <<p[1], x.subject>> \in h'.approved
    BY DEF Approved
  <2>4. \A x \in db'["code"] \union db'["refresh"] : Approved(x)'
    <3>1. \A x \in db'["code"] \union db'["refresh"] : Approved(x)
      BY <2>1 DEF OAuthInv, ProvInv
    <3> QED
      BY <2>3, <3>1 DEF Approved
  <2>5. \A r \in Requests :
          /\ At(r, "authorize")' => <<request'[r].tok, request'[r].subject>> \in h'.approved
          /\ At(r, "issue")' => request'[r] = request[r] /\ Approved(request[r])
    BY DEF OAuthInv, ProvInv, At
  <2>6. ASSUME NEW r \in Requests, At(r, "issue")'
        PROVE  Approved(request[r])'
    <3>1. request'[r] = request[r] /\ Approved(request[r])
      BY <2>5, <2>6
    <3>2. \E p \in h'.pushed : /\ p[2] = request[r].client /\ p[3] = request[r].key
                               /\ <<p[1], request[r].subject>> \in h'.approved
      BY <2>3, <3>1
    <3> QED
      BY <3>1, <3>2 DEF Approved
  <2> QED
    BY <2>2, <2>4, <2>5, <2>6 DEF ProvInv
<1> QED
  BY <1>3, <1>4, <1>5 DEF OAuthInv

-----------------------------------------------------------------------------
(* The request threads.                                                    *)

LEMMA IdleFields == HasFields(Idle) /\ Idle.pc = "idle"
BY DEF HasFields, Idle

\* What a step of one thread does to the threads: it moves that one only, and
\* to a state of the same form.
Moves(r, pcs) ==
    /\ request' = [s \in Requests |-> request'[s]]
    /\ \A s \in Requests : s # r => request'[s] = request[s]
    /\ HasFields(request'[r]) /\ request'[r].pc \in pcs

LEMMA ReturnMoves ==
    ASSUME Shape, NEW r \in Requests, Return(r)
    PROVE  Moves(r, {"idle"})
BY IdleFields DEF Shape, Return, Moves

LEMMA QuietMoves ==
    ASSUME Shape, NEW r \in Requests
    PROVE  /\ oauth_signin(r) => Moves(r, {"read"})
           /\ finish_device_signin(r) => Moves(r, {"revoke"})
           /\ device_session_revoke(r) => Moves(r, {"revoke"})
           /\ device_session_create(r) => Moves(r, {"idle"})
           /\ oauth_signout(r) => Moves(r, {"revoke"})
           /\ SignoutAnswer(r) => Moves(r, {"idle"})
           /\ passkey_register_options(r) => Moves(r, {"create"})
           /\ passkey_register_verify(r) => Moves(r, {"register"})
           /\ passkey_remove(r) => Moves(r, {"remove"})
           /\ passkey_authenticate_options(r) => Moves(r, {"get"})
           /\ passkey_challenge_create(r) => Moves(r, {"idle"})
           /\ register_consume(r) => Moves(r, {"add", "idle"})
           /\ passkey_add(r) => Moves(r, {"idle"})
           /\ passkey_lookup(r) => Moves(r, {"assert"})
           /\ PasskeyRemove(r) => Moves(r, {"idle"})
           /\ oauth_authorize(r) => Moves(r, {"authorize"})
           /\ Authorize(r) => Moves(r, {"idle"})
           /\ issue_grant(r) => Moves(r, {"idle"})
           /\ passkey_touch(r) => Moves(r, {"read"})
<1>0. HasFields(request[r]) /\ request = [s \in Requests |-> request[s]]
  BY DEF Shape
<1>1. oauth_signin(r) => Moves(r, {"read"})
  <2> SUFFICES ASSUME NEW s, NEW c, request' = [request EXCEPT ![r].pc = "read", ![r].subject = s,
                                                              ![r].cookie = c]
               PROVE  Moves(r, {"read"})
    BY DEF oauth_signin
  <2> QED
    BY <1>0 DEF Moves, HasFields
<1>2. finish_device_signin(r) => Moves(r, {"revoke"})
  <2> SUFFICES ASSUME NEW k, NEW d, request' = [request EXCEPT ![r].pc = "revoke", ![r].keep = k,
                                                              ![r].drop = d, ![r].tok = 1]
               PROVE  Moves(r, {"revoke"})
    BY DEF finish_device_signin
  <2> QED
    BY <1>0 DEF Moves, HasFields
<1>3. device_session_revoke(r) => Moves(r, {"revoke"})
  <2> SUFFICES ASSUME NEW d, request' = [request EXCEPT ![r].drop = d], At(r, "revoke")
               PROVE  Moves(r, {"revoke"})
    BY DEF device_session_revoke
  <2> QED
    BY <1>0 DEF Moves, HasFields, At
<1>4. device_session_create(r) \/ SignoutAnswer(r) \/ passkey_challenge_create(r) \/ passkey_add(r)
        \/ PasskeyRemove(r) \/ Authorize(r) \/ issue_grant(r) => Moves(r, {"idle"})
  BY ReturnMoves DEF device_session_create, SignoutAnswer, passkey_challenge_create, passkey_add,
     PasskeyRemove, Authorize, issue_grant
<1>5. oauth_signout(r) => Moves(r, {"revoke"})
  <2> SUFFICES ASSUME NEW c, NEW k, NEW d,
                      request' = [request EXCEPT ![r].pc = "revoke", ![r].cookie = c,
                                                 ![r].keep = k, ![r].drop = d]
               PROVE  Moves(r, {"revoke"})
    BY DEF oauth_signout
  <2> QED
    BY <1>0 DEF Moves, HasFields
<1>6. \A pc : CheckDevice(r, pc) => Moves(r, {pc})
  BY <1>0 DEF CheckDevice, Moves, HasFields
<1>7. passkey_authenticate_options(r) => Moves(r, {"get"})
  BY <1>0 DEF passkey_authenticate_options, Moves, HasFields
<1>8. register_consume(r) => Moves(r, {"add", "idle"})
  <2>1. request' = [request EXCEPT ![r].pc = "add"] => Moves(r, {"add", "idle"})
    BY <1>0 DEF Moves, HasFields
  <2>2. Return(r) => Moves(r, {"add", "idle"})
    BY ReturnMoves DEF Moves
  <2> QED
    BY <2>1, <2>2 DEF register_consume
<1>9. passkey_lookup(r) => Moves(r, {"assert"})
  <2>1. \A s, a, n, c : request' = [request EXCEPT ![r].pc = "assert", ![r].subject = s,
                                     ![r].client = a, ![r].count = n, ![r].cookie = c]
           => Moves(r, {"assert"})
    <3> TAKE s, a, n, c
    <3> HAVE request' = [request EXCEPT ![r].pc = "assert", ![r].subject = s,
                                     ![r].client = a, ![r].count = n, ![r].cookie = c]
    <3> QED
      BY <1>0 DEF Moves, HasFields
  <2> HAVE passkey_lookup(r)
  <2>2. PICK a \in signed, x \in db["passkey"] :
           request' = [request EXCEPT ![r].pc = "assert", ![r].subject = x.subject,
                          ![r].client = a, ![r].count = x.count, ![r].cookie = jar]
    BY DEF passkey_lookup
  <2> QED
    BY <2>1, <2>2
<1>10. oauth_authorize(r) => Moves(r, {"authorize"})
  <2>1. \A t, s, c : request' = [request EXCEPT ![r].pc = "authorize", ![r].tok = t,
                                                ![r].subject = s, ![r].client = c]
           => Moves(r, {"authorize"})
    <3> TAKE t, s, c
    <3> HAVE request' = [request EXCEPT ![r].pc = "authorize", ![r].tok = t,
                                        ![r].subject = s, ![r].client = c]
    <3> QED
      BY <1>0 DEF Moves, HasFields
  <2> HAVE oauth_authorize(r)
  <2>2. PICK p \in db["par"], s \in Subjects, c \in Clients :
           request' = [request EXCEPT ![r].pc = "authorize", ![r].tok = p.id,
                                      ![r].subject = s, ![r].client = c]
    BY DEF oauth_authorize
  <2> QED
    BY <2>1, <2>2
<1>11. passkey_touch(r) => Moves(r, {"read"})
  <2> SUFFICES ASSUME request' = [request EXCEPT ![r].pc = "read", ![r].client = "",
                                                 ![r].count = 0]
               PROVE  Moves(r, {"read"})
    BY DEF passkey_touch
  <2> QED
    BY <1>0 DEF Moves, HasFields
<1> QED
  BY <1>1, <1>2, <1>3, <1>4, <1>5, <1>6, <1>7, <1>8, <1>9, <1>10, <1>11
  DEF passkey_register_options, passkey_register_verify, passkey_remove

LEMMA ShapeStep ==
    ASSUME Shape, used' \in {used, used + 1}, IsDb(db'), IsHistory(h'),
           \/ request' = request
           \/ request' = [r \in Requests |-> Idle]
           \/ \E r \in Requests : \E pcs : Moves(r, pcs)
    PROVE  Shape'
<1>1. /\ request' = [r \in Requests |-> request'[r]]
      /\ \A r \in Requests : HasFields(request'[r])
  BY IdleFields DEF Shape, Moves
<1> QED
  BY <1>1 DEF Shape, IsDb, IsHistory, HasFields

\* A step of one thread that is quiet: QuietStep in the form its actions need.
LEMMA QuietThread ==
    ASSUME OAuthInv, NEW r \in Requests, NEW pcs, Moves(r, pcs),
           pcs \intersect {"issue", "touch", "authorize"} = {},
           used' \in {used, used + 1}, IsDb(db'), \A t \in OneUse : db'[t] \subseteq db[t],
           IsHistory(h'), h'.pushed = h.pushed, h'.approved = h.approved, h'.spent = h.spent,
           h'.twice = h.twice, h'.chains = h.chains, h'.revoked = h.revoked,
           mutex' = mutex \/ At(r, "issue")
    PROVE  OAuthInv'
<1>1. Shape'
  BY ShapeStep DEF OAuthInv
<1>2. used <= used'
  BY DEF OAuthInv, Shape
<1>3. ASSUME NEW s \in Requests, s # r
      PROVE  request'[s] = request[s] /\ (At(s, "issue") => mutex' = mutex)
  BY <1>3 DEF Moves, OAuthInv, RootInv
<1>4. /\ request'[r].pc \notin {"issue", "touch"}
      /\ request'[r].pc # "authorize"
  BY DEF Moves
<1> QED
  BY <1>1, <1>2, <1>3, <1>4, QuietStep

LEMMA HistoryIs == ASSUME Shape PROVE IsHistory(h) /\ IsDb(db)
BY DEF Shape, IsHistory, IsDb

LEMMA Shrinks ==
    ASSUME Shape, NEW t \in Tables, NEW rows
    PROVE  /\ IsDb(Delete(db, t, rows)) /\ IsDb(Delete(prune(db), t, rows))
           /\ \A u \in OneUse : /\ Delete(db, t, rows)[u] \subseteq db[u]
                                /\ Delete(prune(db), t, rows)[u] \subseteq db[u]
<1>1. IsDb(db) /\ IsDb(prune(db)) /\ OneUse \subseteq Tables
  BY HistoryIs, PruneRows DEF OneUse, Tables
<1>2. \A u \in Tables : Delete(db, t, rows)[u] \subseteq db[u]
  BY <1>1 DEF Delete, IsDb
<1>3. \A u \in Tables : Delete(prune(db), t, rows)[u] \subseteq prune(db)[u]
  BY <1>1 DEF Delete, IsDb
<1> QED
  BY <1>1, <1>2, <1>3, HistoryIs, PruneRows, DeleteRows

\* The steps of the device sessions.
LEMMA QuietDevices ==
    ASSUME OAuthInv, NEW r \in Requests, Devices(r)
    PROVE  OAuthInv'
<1>0. Shape /\ IsHistory(h) /\ IsDb(db)
  BY HistoryIs DEF OAuthInv
<1>1. CASE oauth_signin(r)
  <2>1. Moves(r, {"read"})
    BY <1>0, <1>1, QuietMoves
  <2> QED
    BY <1>0, <1>1, <2>1, QuietThread DEF oauth_signin
<1>2. CASE finish_device_signin(r)
  <2>1. Moves(r, {"revoke"})
    BY <1>0, <1>2, QuietMoves
  <2>2. UNCHANGED <<db, mutex, used, h>>
    BY <1>2 DEF finish_device_signin
  <2> QED
    BY <1>0, <2>1, <2>2, QuietThread
<1>3. CASE device_session_revoke(r)
  <2>1. Moves(r, {"revoke"})
    BY <1>0, <1>3, QuietMoves
  <2>2. IsDb(db') /\ \A t \in OneUse : db'[t] \subseteq db[t]
    BY <1>0, <1>3, Shrinks DEF device_session_revoke, Tables
  <2>3. UNCHANGED <<mutex, used, h>>
    BY <1>3 DEF device_session_revoke
  <2> QED
    BY <1>0, <2>1, <2>2, <2>3, QuietThread
<1>4. CASE device_session_create(r)
  <2>1. Moves(r, {"idle"})
    BY <1>0, <1>4, QuietMoves
  <2>2. IsDb(prune(db)) /\ \A t \in OneUse : prune(db)[t] \subseteq db[t]
    BY <1>0, PruneRows
  <2>3. \A row : /\ IsDb(Insert(prune(db), "device", row))
                 /\ \A t \in OneUse : Insert(prune(db), "device", row)[t] = prune(db)[t]
    BY <2>2, InsertRows DEF Tables, OneUse
  <2>4. IsDb(db') /\ \A t \in OneUse : db'[t] \subseteq db[t]
    BY <1>4, <2>2, <2>3 DEF device_session_create
  <2>5. mutex' = mutex /\ used' \in {used, used + 1}
    BY <1>4 DEF device_session_create, Fresh
  <2>6. /\ IsHistory(h') /\ h'.pushed = h.pushed /\ h'.approved = h.approved
        /\ h'.spent = h.spent /\ h'.twice = h.twice /\ h'.chains = h.chains
        /\ h'.revoked = h.revoked
    BY <1>0, <1>4 DEF device_session_create, SetCookie, IsHistory
  <2> QED
    BY <1>0, <2>1, <2>4, <2>5, <2>6, QuietThread
<1>5. CASE oauth_signout(r)
  <2>1. Moves(r, {"revoke"})
    BY <1>0, <1>5, QuietMoves
  <2>2. UNCHANGED <<db, mutex, used, h>>
    BY <1>5 DEF oauth_signout
  <2> QED
    BY <1>0, <2>1, <2>2, QuietThread
<1>6. CASE SignoutAnswer(r)
  <2>1. Moves(r, {"idle"})
    BY <1>0, <1>6, QuietMoves
  <2>2. UNCHANGED <<db, mutex, used>>
    BY <1>6 DEF SignoutAnswer
  <2>3. /\ IsHistory(h') /\ h'.pushed = h.pushed /\ h'.approved = h.approved
        /\ h'.spent = h.spent /\ h'.twice = h.twice /\ h'.chains = h.chains
        /\ h'.revoked = h.revoked
    BY <1>0, <1>6 DEF SignoutAnswer, SetCookie, IsHistory
  <2> QED
    BY <1>0, <2>1, <2>2, <2>3, QuietThread
<1> QED
  BY <1>1, <1>2, <1>3, <1>4, <1>5, <1>6 DEF Devices

\* The steps of the passkeys that neither draw nor take a challenge to a
\* sign-in.
LEMMA QuietPasskeys ==
    ASSUME OAuthInv, NEW r \in Requests,
           \/ passkey_register_options(r) \/ passkey_register_verify(r)
           \/ passkey_remove(r) \/ passkey_authenticate_options(r) \/ register_consume(r)
           \/ passkey_add(r) \/ passkey_lookup(r) \/ PasskeyRemove(r)
    PROVE  OAuthInv'
<1>0. Shape /\ IsHistory(h) /\ IsDb(db)
  BY HistoryIs DEF OAuthInv
<1>1. CASE \/ passkey_register_options(r) \/ passkey_register_verify(r)
           \/ passkey_remove(r) \/ passkey_authenticate_options(r) \/ passkey_lookup(r)
  <2>1. \E pcs : Moves(r, pcs) /\ pcs \intersect {"issue", "touch", "authorize"} = {}
    <3>1. \/ Moves(r, {"create"}) \/ Moves(r, {"register"}) \/ Moves(r, {"remove"})
          \/ Moves(r, {"get"}) \/ Moves(r, {"assert"})
      BY <1>0, <1>1, QuietMoves
    <3> QED
      BY <3>1
  <2>2. UNCHANGED <<db, mutex, used, h>>
    BY <1>1 DEF passkey_register_options, passkey_register_verify, passkey_remove, CheckDevice,
       passkey_authenticate_options, passkey_lookup
  <2> QED
    BY <1>0, <2>1, <2>2, QuietThread
<1>2. CASE register_consume(r)
  <2>1. Moves(r, {"add", "idle"})
    BY <1>0, <1>2, QuietMoves
  <2>2. IsDb(db') /\ \A t \in OneUse : db'[t] \subseteq db[t]
    BY <1>0, <1>2, Shrinks DEF register_consume, Tables
  <2>3. UNCHANGED <<mutex, used, h>>
    BY <1>2 DEF register_consume
  <2> QED
    BY <1>0, <2>1, <2>2, <2>3, QuietThread
<1>3. CASE passkey_add(r)
  <2>1. Moves(r, {"idle"})
    BY <1>0, <1>3, QuietMoves
  <2>2. \A row : /\ IsDb(Insert(db, "passkey", row))
                 /\ \A t \in OneUse : Insert(db, "passkey", row)[t] = db[t]
    BY <1>0, InsertRows DEF Tables, OneUse
  <2>3. IsDb(db') /\ \A t \in OneUse : db'[t] \subseteq db[t]
    BY <1>0, <1>3, <2>2 DEF passkey_add
  <2>4. UNCHANGED <<mutex, used, h>>
    BY <1>3 DEF passkey_add
  <2> QED
    BY <1>0, <2>1, <2>3, <2>4, QuietThread
<1>4. CASE PasskeyRemove(r)
  <2>1. Moves(r, {"idle"})
    BY <1>0, <1>4, QuietMoves
  <2>2. IsDb(db') /\ \A t \in OneUse : db'[t] \subseteq db[t]
    BY <1>0, <1>4, Shrinks DEF PasskeyRemove, Tables
  <2>3. UNCHANGED <<mutex, used, h>>
    BY <1>4 DEF PasskeyRemove
  <2> QED
    BY <1>0, <2>1, <2>2, <2>3, QuietThread
<1> QED
  BY <1>1, <1>2, <1>3, <1>4

-----------------------------------------------------------------------------
(* Steps that draw, spend or take a single-use value.                      *)

\* At most one row is new, under the value just drawn; what is spent is
\* in no row and with no request afterwards.
LEMMA IdStep ==
    ASSUME OAuthInv, used' \in {used, used + 1},
           \A t \in OneUse : \A x \in db'[t] :
              x \in db[t] \/ (x.id = used + 1 /\ used' = used + 1),
           \A t, u \in OneUse : \A x \in db'[t], y \in db'[u] :
              x \notin db[t] /\ y \notin db[u] => t = u /\ x = y,
           h'.twice = {}, h'.spent \subseteq 1..used,
           \A t \in OneUse : \A x \in db'[t] : x.id \notin h'.spent,
           \A r \in Requests : Carries(request'[r]) =>
              request'[r] = request[r] /\ Carried(request[r]) \notin h'.spent
    PROVE  IdInv'
<1>0. /\ used \in Nat /\ used' \in Nat /\ used <= used'
      /\ 1..used \subseteq 1..used' /\ used + 1 \notin 1..used
      /\ used' = used + 1 => used + 1 \in 1..used'
  BY DEF OAuthInv, Shape
<1>i. IdInv /\ h.spent \subseteq 1..used
  BY DEF OAuthInv, IdInv
<1>1. h'.twice = {} /\ h'.spent \subseteq 1..used'
  BY <1>0, <1>i
<1>2. ASSUME NEW t \in OneUse, NEW x \in db'[t]
      PROVE  x.id \in (1..used') \ h'.spent
  <2>1. CASE x \in db[t]
    BY <2>1, <1>0, <1>i DEF IdInv
  <2>2. CASE x.id = used + 1 /\ used' = used + 1
    BY <2>2, <1>0, <1>i
  <2> QED
    BY <2>1, <2>2
<1>3. ASSUME NEW t \in OneUse, NEW u \in OneUse, NEW x \in db'[t], NEW y \in db'[u], x.id = y.id
      PROVE  t = u /\ x = y
  <2>1. CASE x \in db[t] /\ y \in db[u]
    BY <2>1, <1>3, <1>i DEF IdInv
  <2>2. CASE x \notin db[t] /\ y \notin db[u]
    BY <2>2
  <2>3. CASE x \in db[t] /\ y \notin db[u]
    <3>1. x.id \in 1..used /\ y.id = used + 1
      BY <2>3, <1>i DEF IdInv
    <3> QED
      BY <3>1, <1>0, <1>3
  <2>4. CASE x \notin db[t] /\ y \in db[u]
    <3>1. y.id \in 1..used /\ x.id = used + 1
      BY <2>4, <1>i DEF IdInv
    <3> QED
      BY <3>1, <1>0, <1>3
  <2> QED
    BY <2>1, <2>2, <2>3, <2>4
<1>4. ASSUME NEW r \in Requests, Carries(request'[r])
      PROVE  /\ Carried(request'[r]) \in (1..used') \ h'.spent
             /\ \A t \in OneUse : \A x \in db'[t] : x.id # Carried(request'[r])
  <2>1. request'[r] = request[r] /\ Carried(request[r]) \in (1..used) \ h'.spent
    BY <1>4, <1>i DEF IdInv
  <2>2. ASSUME NEW t \in OneUse, NEW x \in db'[t]
        PROVE  x.id # Carried(request[r])
    <3>1. CASE x \in db[t]
      BY <3>1, <2>1, <1>4, <1>i DEF IdInv
    <3>2. CASE x \notin db[t]
      BY <3>2, <2>1, <1>0
    <3> QED
      BY <3>1, <3>2
  <2> QED
    BY <1>0, <2>1, <2>2
<1>5. \A r, s \in Requests :
        (Carries(request'[r]) /\ Carries(request'[s])
           /\ Carried(request'[r]) = Carried(request'[s])) => r = s
  BY <1>i DEF IdInv
<1> QED
  BY <1>1, <1>2, <1>3, <1>4, <1>5 DEF IdInv, Carries, Carried

\* The row that is deleted is what the request carries from then on.
LEMMA IdTaken ==
    ASSUME OAuthInv, NEW r \in Requests, NEW t0 \in OneUse, NEW row \in db[t0],
           used' = used, h' = h,
           \A t \in OneUse : db'[t] \subseteq db[t], row \notin db'[t0],
           \A s \in Requests : s # r => request'[s] = request[s],
           Carries(request'[r]), Carried(request'[r]) = row.id
    PROVE  IdInv'
<1>i. IdInv
  BY DEF OAuthInv
<1>1. ASSUME NEW t \in OneUse, NEW x \in db'[t]
      PROVE  x.id # row.id /\ x \in db[t]
  BY <1>i DEF IdInv
<1>2. \A s \in Requests : (s # r /\ Carries(request[s])) => Carried(request[s]) # row.id
  BY <1>i DEF IdInv
<1>3. row.id \in (1..used) \ h.spent
  BY <1>i DEF IdInv
<1>4. \A s \in Requests : Carries(request'[s]) =>
          /\ Carried(request'[s]) \in (1..used) \ h.spent
          /\ \A t \in OneUse : \A x \in db'[t] : x.id # Carried(request'[s])
  BY <1>i, <1>1, <1>3 DEF IdInv
<1>5. \A p, q \in Requests :
        (Carries(request'[p]) /\ Carries(request'[q])
           /\ Carried(request'[p]) = Carried(request'[q])) => p = q
  BY <1>i, <1>2 DEF IdInv
<1>6. \A t, u \in OneUse : \A x \in db'[t], y \in db'[u] : x.id = y.id => t = u /\ x = y
  BY <1>i, <1>1 DEF IdInv
<1>7. \A t \in OneUse : \A x \in db'[t] : x.id \in (1..used) \ h.spent
  BY <1>i, <1>1 DEF IdInv
<1> QED
  BY <1>i, <1>4, <1>5, <1>6, <1>7 DEF IdInv, Carries, Carried

\* A step that leaves the chains alone; a code may be new.
LEMMA RootStep ==
    ASSUME OAuthInv, used' \in {used, used + 1},
           db'["refresh"] \subseteq db["refresh"],
           \A c \in db'["code"] : c \in db["code"] \/ (c.id = used + 1 /\ used' = used + 1),
           h'.revoked = h.revoked, h'.chains = h.chains,
           \A r \in Requests : At(r, "issue")' =>
              request'[r] = request[r] /\ mutex' = mutex
    PROVE  RootInv'
<1>0. /\ used \in Nat /\ used' \in Nat /\ used <= used'
      /\ 1..used \subseteq 1..used' /\ used + 1 \notin 1..used
  BY DEF OAuthInv, Shape
<1>1. RootInv
  BY DEF OAuthInv
<1>2. h'.revoked \subseteq 1..used' /\ \A c \in db'["code"] : c.id \notin h'.revoked
  BY <1>0, <1>1 DEF RootInv
<1>3. \A x \in db'["refresh"] :
        /\ x.root \in (1..used') \ h'.revoked
        /\ \A y \in db'["refresh"] : x.root = y.root => x = y
        /\ \A c \in db'["code"] : c.id # x.root
  BY <1>0, <1>1 DEF RootInv
<1>4. \A ch \in h'.chains :
        /\ ch[1] \in 1..used'
        /\ \A x \in db'["refresh"] : x.root = ch[1] => x.subject = ch[2] /\ x.client = ch[3]
        /\ \A c \in db'["code"] : c.id # ch[1]
  BY <1>0, <1>1 DEF RootInv
<1>5. ASSUME NEW r \in Requests, At(r, "issue")'
      PROVE  /\ mutex' = r
             /\ request'[r].count \in (1..used') \ h'.revoked
             /\ \A x \in db'["refresh"] : x.root # request'[r].count
             /\ \A c \in db'["code"] : c.id # request'[r].count
             /\ \A ch \in h'.chains : ch[1] = request'[r].count =>
                  request'[r].subject = ch[2] /\ request'[r].client = ch[3]
  <2>1. At(r, "issue") /\ request'[r] = request[r] /\ mutex' = mutex
    BY <1>5 DEF At
  <2> QED
    BY <1>0, <1>1, <2>1 DEF RootInv
<1> QED
  BY <1>2, <1>3, <1>4, <1>5 DEF RootInv

\* A step that may write rows of its own that are approved.
LEMMA ProvStep ==
    ASSUME OAuthInv, h.pushed \subseteq h'.pushed, h.approved \subseteq h'.approved,
           \A x \in db'["par"] : x \in db["par"] \/ <<x.id, x.client, x.key>> \in h'.pushed,
           \A x \in db'["code"] \union db'["refresh"] :
              x \in db["code"] \union db["refresh"] \/ Approved(x),
           \A r \in Requests :
              \/ request'[r] = request[r]
              \/ request'[r].pc \notin {"authorize", "issue"}
              \/ request'[r].pc = "issue" /\ Approved(request'[r])
    PROVE  ProvInv'
<1>2. ProvInv
  BY DEF OAuthInv
<1>3. \A x \in db'["par"] : <<x.id, x.client, x.key>> \in h'.pushed
  BY <1>2 DEF ProvInv
<1>4. \A x \in db'["code"] \union db'["refresh"] :
        \E p \in h'.pushed : /\ p[2] = x.client /\ p[3] = x.key
                             /\ <<p[1], x.subject>> \in h'.approved
  BY <1>2 DEF ProvInv, Approved
<1>5. \A r \in Requests :
        /\ request'[r].pc = "authorize" => <<request'[r].tok, request'[r].subject>> \in h'.approved
        /\ request'[r].pc = "issue" =>
             \E p \in h'.pushed : /\ p[2] = request'[r].client /\ p[3] = request'[r].key
                                  /\ <<p[1], request'[r].subject>> \in h'.approved
  BY <1>2 DEF ProvInv, Approved, At
<1> QED
  BY <1>3, <1>4, <1>5 DEF ProvInv, Approved, At

\* A pushed request.
LEMMA ParStep ==
    ASSUME OAuthInv, oauth_par
    PROVE  OAuthInv'
<1>0. /\ Shape /\ IsHistory(h) /\ IsDb(db) /\ IdInv /\ used \in Nat
      /\ OneUse \subseteq Tables /\ "par" \in OneUse
  BY HistoryIs DEF OAuthInv, Shape, OneUse, Tables
<1> PICK c \in Clients, k \in Keys :
       /\ db' = create_par(New, c, k)
       /\ h' = [h EXCEPT !.pushed = @ \union {<<New, c, k>>}]
  BY DEF oauth_par
<1> DEFINE row == [id |-> New, client |-> c, key |-> k, exp |-> clock + ShortLife]
<1>1. IsDb(prune(db)) /\ \A t \in OneUse : prune(db)[t] \subseteq db[t]
  BY <1>0, PruneRows
<1>2. /\ IsDb(db')
      /\ db'["par"] = prune(db)["par"] \union {row}
      /\ \A t \in Tables : t # "par" => db'[t] = prune(db)[t]
  BY <1>0, <1>1, InsertRows DEF create_par
<1>3. /\ row.id = used + 1 /\ used' = used + 1 /\ <<row.id, row.client, row.key>> = <<New, c, k>>
      /\ mutex' = mutex /\ request' = request
  BY DEF oauth_par, Fresh, New
<1> HIDE DEF row
<1>4. /\ IsHistory(h') /\ h'.pushed = h.pushed \union {<<New, c, k>>} /\ h'.approved = h.approved
      /\ h'.spent = h.spent /\ h'.twice = h.twice /\ h'.chains = h.chains
      /\ h'.revoked = h.revoked
  BY <1>0 DEF IsHistory
<1>5. \A t \in OneUse : \A x \in db'[t] : x \in db[t] \/ (t = "par" /\ x = row)
  BY <1>0, <1>1, <1>2
<1>6. Shape'
  BY <1>0, <1>2, <1>3, <1>4, ShapeStep
<1>7. IdInv'
  <2>1. /\ h'.twice = {} /\ h'.spent = h.spent /\ h'.spent \subseteq 1..used
        /\ \A t \in OneUse : \A x \in db'[t] : x.id \notin h'.spent
    BY <1>0, <1>3, <1>4, <1>5 DEF IdInv
  <2>2. \A s \in Requests : Carries(request'[s]) =>
           request'[s] = request[s] /\ Carried(request[s]) \notin h'.spent
    BY <1>0, <1>3, <1>4 DEF IdInv
  <2> QED
    BY <1>3, <1>5, <2>1, <2>2, IdStep
<1>8. "code" \in OneUse /\ "refresh" \in OneUse
  BY DEF OneUse
<1>9. RootInv'
  BY <1>3, <1>4, <1>5, <1>8, RootStep
<1>10. ProvInv'
  BY <1>0, <1>3, <1>4, <1>5, <1>8, ProvStep
<1> QED
  BY <1>6, <1>7, <1>9, <1>10 DEF OAuthInv

\* A passkey challenge.
LEMMA ChallengeStep ==
    ASSUME OAuthInv, NEW r \in Requests, passkey_challenge_create(r)
    PROVE  OAuthInv'
<1>0. /\ Shape /\ IsHistory(h) /\ IsDb(db) /\ IdInv /\ used \in Nat
      /\ OneUse \subseteq Tables /\ "challenge" \in OneUse
  BY HistoryIs DEF OAuthInv, Shape, OneUse, Tables
<1> DEFINE row == [id |-> New, ceremony |-> request[r].pc, subject |-> request[r].subject,
                   exp |-> clock + ShortLife]
<1>1. IsDb(prune(db)) /\ \A t \in OneUse : prune(db)[t] \subseteq db[t]
  BY <1>0, PruneRows
<1>2. db' = Insert(prune(db), "challenge", row)
  BY DEF passkey_challenge_create
<1>3. /\ row.id = used + 1 /\ used' = used + 1 /\ mutex' = mutex /\ h' = h
  BY DEF passkey_challenge_create, Fresh, New
<1> HIDE DEF row
<1>4. /\ IsDb(db')
      /\ db'["challenge"] = prune(db)["challenge"] \union {row}
      /\ \A t \in Tables : t # "challenge" => db'[t] = prune(db)[t]
  BY <1>0, <1>1, <1>2, InsertRows
<1>5. \A t \in OneUse : \A x \in db'[t] : x \in db[t] \/ (t = "challenge" /\ x = row)
  BY <1>0, <1>1, <1>4
<1>6. Moves(r, {"idle"})
  BY <1>0, QuietMoves
<1>7. Shape'
  BY <1>0, <1>3, <1>4, <1>6, ShapeStep
<1>8. \A s \in Requests : request'[s] = request[s] \/ request'[s].pc = "idle"
  BY <1>6 DEF Moves
<1>9. IdInv'
  <2>1. /\ h'.twice = {} /\ h'.spent = h.spent /\ h'.spent \subseteq 1..used
        /\ \A t \in OneUse : \A x \in db'[t] : x.id \notin h'.spent
    BY <1>0, <1>3, <1>5 DEF IdInv
  <2>2. \A s \in Requests : Carries(request'[s]) =>
           request'[s] = request[s] /\ Carried(request[s]) \notin h'.spent
    BY <1>0, <1>3, <1>8 DEF IdInv, Carries
  <2> QED
    BY <1>3, <1>5, <2>1, <2>2, IdStep
<1>10. "code" \in OneUse /\ "refresh" \in OneUse /\ "par" \in OneUse
  BY DEF OneUse
<1>11. RootInv'
  BY <1>3, <1>5, <1>8, <1>10, RootStep DEF At
<1>12. ProvInv'
  BY <1>0, <1>3, <1>5, <1>8, <1>10, ProvStep
<1> QED
  BY <1>7, <1>9, <1>11, <1>12 DEF OAuthInv

\* The authorization endpoint turns a pushed request into a code.
LEMMA AuthorizeStep ==
    ASSUME OAuthInv, NEW r \in Requests, Authorize(r)
    PROVE  OAuthInv'
<1>0. /\ Shape /\ IsHistory(h) /\ IsDb(db) /\ IdInv /\ ProvInv /\ used \in Nat
      /\ OneUse \subseteq Tables /\ "par" \in OneUse /\ "code" \in OneUse /\ "refresh" \in OneUse
  BY HistoryIs DEF OAuthInv, Shape, OneUse, Tables
<1> DEFINE par == {p \in Live("par") : p.id = request[r].tok /\ p.client = request[r].client}
           p == CHOOSE x \in par : TRUE
           row == [id |-> New, client |-> p.client, key |-> p.key,
                   subject |-> request[r].subject, exp |-> clock + ShortLife]
<1>1. Moves(r, {"idle"})
  BY <1>0, QuietMoves
<1>2. \A s \in Requests : request'[s] = request[s] \/ request'[s].pc = "idle"
  BY <1>1 DEF Moves
<1>3. IsDb(prune(db)) /\ \A t \in OneUse : prune(db)[t] \subseteq db[t]
  BY <1>0, PruneRows
<1>4. mutex' = mutex
  BY DEF Authorize
<1>5. CASE db' = prune(db) /\ UNCHANGED <<used, h>>
  BY <1>0, <1>1, <1>3, <1>4, <1>5, QuietThread
<1>6. CASE /\ par # {} /\ Fresh /\ h' = Spend(h, p.id)
           /\ db' = Insert(Delete(prune(db), "par", par), "code", row)
  <2>1. p \in par
    BY <1>6
  <2>2. p \in db["par"] /\ p.id = request[r].tok /\ p.client = request[r].client
    BY <2>1 DEF Live
  <2>3. \A x \in db["par"] : x.id = p.id => x \in par
    <3> SUFFICES ASSUME NEW x \in db["par"], x.id = p.id PROVE x \in par
      OBVIOUS
    <3>1. x = p
      BY <1>0, <2>2 DEF IdInv
    <3> QED
      BY <2>1, <3>1
  <2>4. /\ row.id = used + 1 /\ used' = used + 1 /\ row.client = p.client /\ row.key = p.key
        /\ row.subject = request[r].subject
    BY <1>6 DEF Fresh, New
  <2>5. At(r, "authorize")
    BY DEF Authorize
  <2> HIDE DEF row, p, par
  <2>6. /\ IsDb(Delete(prune(db), "par", par))
        /\ Delete(prune(db), "par", par)["par"] = prune(db)["par"] \ par
        /\ \A t \in Tables : t # "par" => Delete(prune(db), "par", par)[t] = prune(db)[t]
    BY <1>0, <1>3, DeleteRows
  <2>7. /\ IsDb(db')
        /\ db'["code"] = Delete(prune(db), "par", par)["code"] \union {row}
        /\ \A t \in Tables : t # "code" => db'[t] = Delete(prune(db), "par", par)[t]
    BY <1>0, <1>6, <2>6, InsertRows
  <2>8. /\ \A t \in OneUse : \A x \in db'[t] : x \in db[t] \/ (t = "code" /\ x = row)
        /\ \A x \in db'["par"] : x \in db["par"] /\ x \notin par
    BY <1>0, <1>3, <2>6, <2>7
  <2>9. /\ IsHistory(h') /\ h'.twice = h.twice \union ({p.id} \intersect h.spent)
        /\ h'.spent = h.spent \union {p.id} /\ h'.pushed = h.pushed
        /\ h'.approved = h.approved /\ h'.chains = h.chains /\ h'.revoked = h.revoked
    BY <1>0, <1>6, SpendOnce
  <2>10. Shape'
    BY <1>0, <1>1, <2>4, <2>7, <2>9, ShapeStep
  <2>11. p.id \in (1..used) \ h.spent
    BY <1>0, <2>2 DEF IdInv
  <2>12. IdInv'
    <3>1. h'.twice = {} /\ h'.spent \subseteq 1..used
      BY <1>0, <2>9, <2>11 DEF IdInv
    <3>2. \A s \in Requests : Carries(request'[s]) =>
             request'[s] = request[s] /\ Carried(request[s]) \notin h'.spent
      BY <1>0, <1>2, <2>2, <2>9 DEF IdInv, Carries
    <3>3. \A t \in OneUse : \A x \in db'[t] : x.id \notin h'.spent
      <4> SUFFICES ASSUME NEW t \in OneUse, NEW x \in db'[t], x.id = p.id PROVE FALSE
        BY <1>0, <2>4, <2>8, <2>9 DEF IdInv
      <4>1. CASE x \in db[t]
        <5>1. t = "par"
          BY <1>0, <2>2, <4>1 DEF IdInv
        <5> QED
          BY <2>3, <2>8, <5>1
      <4>2. CASE x = row
        BY <1>0, <2>4, <2>11, <4>2
      <4> QED
        BY <2>8, <4>1, <4>2
    <3> QED
      BY <2>4, <2>8, <2>9, <3>1, <3>2, <3>3, IdStep
  <2>13. RootInv'
    BY <1>0, <1>2, <1>4, <2>4, <2>8, <2>9, RootStep DEF At
  <2>14. Approved(row)
    <3>1. /\ <<p.id, p.client, p.key>> \in h.pushed
          /\ <<request[r].tok, request[r].subject>> \in h.approved
      BY <1>0, <2>2, <2>5 DEF ProvInv
    <3> QED
      BY <2>2, <2>4, <3>1 DEF Approved
  <2>15. ProvInv'
    BY <1>0, <1>2, <2>8, <2>9, <2>14, ProvStep
  <2> QED
    BY <2>10, <2>12, <2>13, <2>15 DEF OAuthInv
<1> QED
  BY <1>5, <1>6 DEF Authorize

\* Nobody is between a deletion and its grant while the mutex is free.
LEMMA FreeMeansNoIssue ==
    ASSUME OAuthInv, Free
    PROVE  \A r \in Requests : ~ At(r, "issue")
BY OAuthAssumption DEF OAuthInv, RootInv, Free

\* A code, or a refresh token, is consumed; root is the code its chain began
\* with.
LEMMA ConsumeStep ==
    ASSUME OAuthInv, NEW r \in Requests, NEW t \in {"code", "refresh"}, NEW row \in db[t],
           NEW root, root = (IF t = "code" THEN row.id ELSE row.root),
           Consume(r, t, row, row.client, root), Free, UNCHANGED <<used, h>>
    PROVE  OAuthInv'
<1>0. /\ Shape /\ IsHistory(h) /\ IsDb(db) /\ IdInv /\ RootInv /\ ProvInv
      /\ t \in Tables /\ t \in OneUse /\ OneUse \subseteq Tables
      /\ "code" \in OneUse /\ "refresh" \in OneUse /\ "par" \in OneUse
  BY HistoryIs DEF OAuthInv, OneUse, Tables
<1>1. IsDb(prune(db)) /\ \A u \in OneUse : prune(db)[u] \subseteq db[u]
  BY <1>0, PruneRows
<1>2. /\ IsDb(db') /\ row \notin db'[t] /\ \A u \in OneUse : db'[u] \subseteq db[u]
  <2>1. db' = Delete(prune(db), t, {row})
    BY DEF Consume
  <2>2. /\ IsDb(db') /\ db'[t] = prune(db)[t] \ {row}
        /\ \A u \in Tables : u # t => db'[u] = prune(db)[u]
    BY <1>0, <1>1, <2>1, DeleteRows
  <2> QED
    BY <1>0, <1>1, <2>2
<1>3. /\ Moves(r, {"issue"}) /\ request'[r].tok = row.id /\ request'[r].client = row.client
      /\ request'[r].key = row.key /\ request'[r].subject = row.subject
      /\ request'[r].count = root
  <2> DEFINE q == [Idle EXCEPT !.pc = "issue", !.tok = row.id, !.client = row.client,
                       !.key = row.key, !.subject = row.subject, !.count = root]
  <2>1. /\ HasFields(q) /\ q.pc = "issue" /\ q.tok = row.id /\ q.client = row.client
        /\ q.key = row.key /\ q.subject = row.subject /\ q.count = root
    BY DEF HasFields, Idle
  <2>2. request' = [request EXCEPT ![r] = q]
    BY DEF Consume
  <2> HIDE DEF q
  <2>3. /\ request'[r] = q /\ request' = [s \in Requests |-> request'[s]]
        /\ \A s \in Requests : s # r => request'[s] = request[s]
    BY <1>0, <2>2 DEF Shape
  <2> QED
    BY <2>1, <2>3 DEF Moves
<1>4. Shape'
  BY <1>0, <1>2, <1>3, ShapeStep
<1>5. IdInv'
  <2>1. Carries(request'[r]) /\ Carried(request'[r]) = row.id
    BY <1>3 DEF Moves, Carries, Carried
  <2> QED
    BY <1>0, <1>2, <1>3, <2>1, IdTaken DEF Moves
<1>6. RootInv'
  <2>1. \A s \in Requests : At(s, "issue")' => s = r
    BY <1>3, FreeMeansNoIssue DEF Moves, At
  <2>2. mutex' = r
    BY DEF Consume
  <2>3. /\ root \in (1..used) \ h.revoked
        /\ \A x \in db'["refresh"] : x.root # root
        /\ \A c \in db'["code"] : c.id # root
        /\ \A ch \in h.chains : ch[1] = root => row.subject = ch[2] /\ row.client = ch[3]
    <3>1. CASE t = "code"
      <4>1. row.id \in 1..used /\ \A c \in db["code"] : c.id = row.id => c = row
        BY <1>0, <3>1 DEF IdInv
      <4> QED
        BY <1>0, <1>2, <3>1, <4>1 DEF RootInv
    <3>2. CASE t = "refresh"
      BY <1>0, <1>2, <3>2 DEF RootInv
    <3> QED
      BY <3>1, <3>2
  <2>4. /\ h.revoked \subseteq 1..used
        /\ \A x \in db'["refresh"] :
             /\ x.root \in (1..used) \ h.revoked
             /\ \A y \in db'["refresh"] : x.root = y.root => x = y
             /\ \A c \in db'["code"] : c.id # x.root
        /\ \A c \in db'["code"] : c.id \notin h.revoked
        /\ \A ch \in h.chains :
             /\ ch[1] \in 1..used
             /\ \A x \in db'["refresh"] : x.root = ch[1] => x.subject = ch[2] /\ x.client = ch[3]
             /\ \A c \in db'["code"] : c.id # ch[1]
    BY <1>0, <1>2 DEF RootInv
  <2> QED
    BY <1>3, <2>1, <2>2, <2>3, <2>4 DEF RootInv, At
<1>7. ProvInv'
  <2>1. Approved(row)
    BY <1>0 DEF ProvInv
  <2>2. request'[r].pc = "issue" /\ Approved(request'[r])
    BY <1>3, <2>1 DEF Approved, Moves
  <2> QED
    BY <1>0, <1>2, <1>3, <2>2, ProvStep DEF Moves
<1> QED
  BY <1>4, <1>5, <1>6, <1>7 DEF OAuthInv

LEMMA TokenStep ==
    ASSUME OAuthInv, NEW r \in Requests, oauth_token(r)
    PROVE  OAuthInv'
<1>1. CASE exchange_code(r)
  <2>1. Free /\ UNCHANGED <<used, h>>
    BY <1>1 DEF exchange_code
  <2>2. PICK c \in Live("code"), client \in Clients, k \in Keys :
          Proves(c, client, k) /\ Consume(r, "code", c, client, c.id)
    BY <1>1 DEF exchange_code
  <2>3. c \in db["code"] /\ Consume(r, "code", c, c.client, c.id)
    BY <2>2 DEF Proves, Live
  <2> QED
    BY <2>1, <2>3, ConsumeStep
<1>2. CASE refresh(r)
  <2>1. Free /\ UNCHANGED <<used, h>>
    BY <1>2 DEF refresh
  <2>2. PICK x \in Live("refresh"), client \in Clients, k \in Keys :
          Proves(x, client, k) /\ Consume(r, "refresh", x, client, x.root)
    BY <1>2 DEF refresh
  <2>3. x \in db["refresh"] /\ Consume(r, "refresh", x, x.client, x.root)
    BY <2>2 DEF Proves, Live
  <2> QED
    BY <2>1, <2>3, ConsumeStep
<1> QED
  BY <1>1, <1>2 DEF oauth_token

\* The grant: a refresh token that continues the chain the request carries.
LEMMA IssueStep ==
    ASSUME OAuthInv, NEW r \in Requests, issue_grant(r)
    PROVE  OAuthInv'
<1>0. /\ Shape /\ IsHistory(h) /\ IsDb(db) /\ IdInv /\ RootInv /\ ProvInv /\ used \in Nat
      /\ OneUse \subseteq Tables /\ "refresh" \in OneUse /\ "code" \in OneUse
      /\ "par" \in OneUse
  BY HistoryIs DEF OAuthInv, Shape, OneUse, Tables
<1> DEFINE q == request[r]
           row == [id |-> New, client |-> q.client, key |-> q.key, subject |-> q.subject,
                   exp |-> clock + LongLife, root |-> q.count]
<1>1. Moves(r, {"idle"}) /\ At(r, "issue")
  BY <1>0, QuietMoves DEF issue_grant
<1>2. \A s \in Requests : request'[s] = request[s] \/ request'[s].pc = "idle"
  BY <1>1 DEF Moves
<1>3. CASE UNCHANGED <<db, used, h>>
  BY <1>0, <1>1, <1>3, QuietThread
<1>4. CASE /\ Fresh /\ db' = Insert(db, "refresh", row)
           /\ h' = [Spend(h, q.tok) EXCEPT !.chains = @ \union {<<q.count, q.subject, q.client>>}]
  <2>1. /\ row.id = used + 1 /\ used' = used + 1 /\ row.client = q.client /\ row.key = q.key
        /\ row.subject = q.subject /\ row.root = q.count
    BY <1>4 DEF Fresh, New
  <2> HIDE DEF row
  <2>2. /\ IsDb(db') /\ db'["refresh"] = db["refresh"] \union {row}
        /\ \A t \in Tables : t # "refresh" => db'[t] = db[t]
    BY <1>0, <1>4, InsertRows
  <2>3. /\ IsHistory(h') /\ h'.twice = h.twice \union ({q.tok} \intersect h.spent)
        /\ h'.spent = h.spent \union {q.tok} /\ h'.pushed = h.pushed
        /\ h'.approved = h.approved /\ h'.revoked = h.revoked
        /\ h'.chains = h.chains \union {<<q.count, q.subject, q.client>>}
    <3> DEFINE g == Spend(h, q.tok)
    <3>1. /\ IsHistory(g) /\ g.twice = h.twice \union ({q.tok} \intersect h.spent)
          /\ g.spent = h.spent \union {q.tok} /\ g.pushed = h.pushed
          /\ g.approved = h.approved /\ g.chains = h.chains /\ g.revoked = h.revoked
      BY <1>0, SpendOnce
    <3>2. h' = [g EXCEPT !.chains = g.chains \union {<<q.count, q.subject, q.client>>}]
      BY <1>4
    <3> HIDE DEF g, q
    <3> QED
      BY <3>1, <3>2 DEF IsHistory
  <2>4. \A t \in OneUse : \A x \in db'[t] : x \in db[t] \/ (t = "refresh" /\ x = row)
    BY <1>0, <2>2
  <2>5. Shape'
    BY <1>0, <1>1, <2>1, <2>2, <2>3, ShapeStep
  <2>6. /\ q.tok \in (1..used) \ h.spent
        /\ \A t \in OneUse : \A x \in db[t] : x.id # q.tok
        /\ \A s \in Requests : (s # r /\ Carries(request[s])) => Carried(request[s]) # q.tok
    <3>1. Carries(q) /\ Carried(q) = q.tok
      BY <1>1 DEF At, Carries, Carried
    <3> QED
      BY <1>0, <3>1 DEF IdInv
  <2>7. IdInv'
    <3>1. h'.twice = {} /\ h'.spent \subseteq 1..used
      BY <1>0, <2>3, <2>6 DEF IdInv
    <3>2. \A s \in Requests : Carries(request'[s]) =>
             request'[s] = request[s] /\ Carried(request[s]) \notin h'.spent
      BY <1>0, <1>1, <2>3, <2>6 DEF IdInv, Carries, Moves
    <3>3. \A t \in OneUse : \A x \in db'[t] : x.id \notin h'.spent
      BY <1>0, <2>1, <2>3, <2>4, <2>6, <3>1 DEF IdInv
    <3> QED
      BY <2>1, <2>4, <3>1, <3>2, <3>3, IdStep
  <2>8. RootInv'
    <3>1. /\ mutex = r /\ q.count \in (1..used) \ h.revoked
          /\ \A x \in db["refresh"] : x.root # q.count
          /\ \A c \in db["code"] : c.id # q.count
          /\ \A ch \in h.chains : ch[1] = q.count => q.subject = ch[2] /\ q.client = ch[3]
      BY <1>0, <1>1 DEF RootInv
    <3>2. \A s \in Requests : ~ At(s, "issue")'
      BY <1>0, <1>1, <3>1 DEF RootInv, Moves, At
    <3>3. 1..used \subseteq 1..used'
      BY <1>0, <2>1
    <3>4. db'["code"] = db["code"]
      BY <1>0, <2>2
    <3> HIDE DEF q
    <3>5. \A x \in db'["refresh"] :
            /\ x.root \in (1..used') \ h'.revoked
            /\ \A y \in db'["refresh"] : x.root = y.root => x = y
            /\ \A c \in db'["code"] : c.id # x.root
      BY <1>0, <2>1, <2>2, <2>3, <3>1, <3>3, <3>4 DEF RootInv
    <3>6. \A ch \in h.chains :
            /\ ch[1] \in 1..used'
            /\ \A x \in db'["refresh"] : x.root = ch[1] => x.subject = ch[2] /\ x.client = ch[3]
            /\ \A c \in db'["code"] : c.id # ch[1]
      BY <1>0, <2>1, <2>2, <3>1, <3>3, <3>4 DEF RootInv
    <3>7. /\ q.count \in 1..used'
          /\ \A x \in db'["refresh"] : x.root = q.count => x.subject = q.subject /\ x.client = q.client
          /\ \A c \in db'["code"] : c.id # q.count
      BY <2>1, <2>2, <3>1, <3>3, <3>4
    <3>8. h'.revoked \subseteq 1..used' /\ \A c \in db'["code"] : c.id \notin h'.revoked
      BY <1>0, <2>3, <3>3, <3>4 DEF RootInv
    <3>9. \A ch \in h'.chains :
            /\ ch[1] \in 1..used'
            /\ \A x \in db'["refresh"] : x.root = ch[1] => x.subject = ch[2] /\ x.client = ch[3]
            /\ \A c \in db'["code"] : c.id # ch[1]
      BY <2>3, <3>6, <3>7
    <3> QED
      BY <3>2, <3>5, <3>8, <3>9 DEF RootInv
  <2>9. ProvInv'
    <3>1. Approved(q)
      BY <1>0, <1>1 DEF ProvInv
    <3>2. Approved(row)
      BY <2>1, <3>1 DEF Approved
    <3> QED
      BY <1>0, <1>2, <2>3, <2>4, <3>2, ProvStep
  <2> QED
    BY <2>5, <2>7, <2>8, <2>9 DEF OAuthInv
<1> QED
  BY <1>3, <1>4 DEF issue_grant

\* Revoking: the rows that go are all that the ended chains have.
LEMMA RevokeStep ==
    ASSUME OAuthInv, NEW rows, NEW roots, Revoke(rows, roots),
           roots \subseteq 1..used,
           \A x \in db["refresh"] : x.root \in roots => x \in rows,
           \A c \in db["code"] : c.id \notin roots
    PROVE  OAuthInv'
<1>0. /\ Shape /\ IsHistory(h) /\ IsDb(db) /\ IdInv /\ RootInv /\ ProvInv
      /\ OneUse \subseteq Tables /\ "refresh" \in OneUse /\ "code" \in OneUse /\ "par" \in OneUse
  BY HistoryIs DEF OAuthInv, OneUse, Tables
<1>1. /\ UNCHANGED <<mutex, request, used>> /\ Free
      /\ h' = [h EXCEPT !.revoked = @ \union roots]
      /\ db' = Delete(db, "refresh", rows)
  BY DEF Revoke
<1>2. /\ IsDb(db') /\ db'["refresh"] = db["refresh"] \ rows
      /\ \A t \in Tables : t # "refresh" => db'[t] = db[t]
  BY <1>0, <1>1, DeleteRows
<1>3. /\ IsHistory(h') /\ h'.pushed = h.pushed /\ h'.approved = h.approved
      /\ h'.spent = h.spent /\ h'.twice = h.twice /\ h'.chains = h.chains
      /\ h'.revoked = h.revoked \union roots
  BY <1>0, <1>1 DEF IsHistory
<1>4. \A t \in OneUse : db'[t] \subseteq db[t]
  BY <1>0, <1>2
<1>5. Shape'
  BY <1>0, <1>1, <1>2, <1>3, ShapeStep
<1>6. IdInv'
  <2>1. h'.twice = {} /\ h'.spent \subseteq 1..used
    BY <1>0, <1>3 DEF IdInv
  <2>2. \A t \in OneUse : \A x \in db'[t] : x.id \notin h'.spent
    BY <1>0, <1>3, <1>4 DEF IdInv
  <2>3. \A s \in Requests : Carries(request'[s]) =>
           request'[s] = request[s] /\ Carried(request[s]) \notin h'.spent
    BY <1>0, <1>1, <1>3 DEF IdInv
  <2> QED
    BY <1>1, <1>4, <2>1, <2>2, <2>3, IdStep
<1>7. RootInv'
  <2>1. \A r \in Requests : ~ At(r, "issue")'
    BY <1>1, FreeMeansNoIssue DEF At
  <2> QED
    BY <1>0, <1>1, <1>2, <1>3, <2>1 DEF RootInv
<1>8. ProvInv'
  BY <1>0, <1>1, <1>3, <1>4, ProvStep
<1> QED
  BY <1>5, <1>6, <1>7, <1>8 DEF OAuthInv

LEMMA RevocationsStep ==
    ASSUME OAuthInv, oauth_revoke \/ oauth_revoke_grant
    PROVE  OAuthInv'
<1>1. CASE oauth_revoke
  <2>1. PICK x \in db["refresh"] : Revoke({x}, {x.root})
    BY <1>1 DEF oauth_revoke
  <2>2. /\ {x.root} \subseteq 1..used
        /\ \A y \in db["refresh"] : y.root \in {x.root} => y \in {x}
        /\ \A c \in db["code"] : c.id \notin {x.root}
    BY DEF OAuthInv, RootInv
  <2> QED
    BY <2>1, <2>2, RevokeStep
<1>2. CASE oauth_revoke_grant
  <2>1. PICK s \in Subjects, c \in Clients :
          Revoke(grants_revoke(s, c), {x[1] : x \in {y \in h.chains : y[2] = s /\ y[3] = c}})
    BY <1>2 DEF oauth_revoke_grant
  <2> DEFINE roots == {x[1] : x \in {y \in h.chains : y[2] = s /\ y[3] = c}}
  <2>2. \A id \in roots : \E ch \in h.chains : id = ch[1] /\ ch[2] = s /\ ch[3] = c
    OBVIOUS
  <2>3. Revoke(grants_revoke(s, c), roots)
    BY <2>1
  <2> HIDE DEF roots
  <2>4. \A x \in db["refresh"] : x.root \in roots => x \in grants_revoke(s, c)
    BY <2>2 DEF OAuthInv, RootInv, grants_revoke
  <2>5. roots \subseteq 1..used /\ \A k \in db["code"] : k.id \notin roots
    BY <2>2 DEF OAuthInv, RootInv
  <2> QED
    BY <2>3, <2>4, <2>5, RevokeStep
<1> QED
  BY <1>1, <1>2

\* A passkey assertion takes its challenge.
LEMMA AssertStep ==
    ASSUME OAuthInv, NEW r \in Requests, authenticate_consume(r)
    PROVE  OAuthInv'
<1>0. /\ Shape /\ IsHistory(h) /\ IsDb(db) /\ IdInv /\ HasFields(request[r])
      /\ OneUse \subseteq Tables /\ "challenge" \in OneUse
      /\ "code" \in OneUse /\ "refresh" \in OneUse /\ "par" \in OneUse
  BY HistoryIs DEF OAuthInv, Shape, OneUse, Tables
<1> DEFINE a == request[r].client
           row == {x \in Challenge("get") : x.id = a.challenge}
<1>1. db' = Delete(db, "challenge", row) /\ UNCHANGED <<mutex, used, h>>
  BY DEF authenticate_consume
<1>2. \/ Return(r)
      \/ request' = [request EXCEPT ![r].pc = "touch"] /\ \E x \in row : TRUE
  BY DEF authenticate_consume
<1>3. row \subseteq db["challenge"] /\ \A x \in row : x.id = a.challenge
  BY DEF Challenge, Live
<1> HIDE DEF row
<1>4. /\ IsDb(db') /\ db'["challenge"] = db["challenge"] \ row
      /\ \A t \in OneUse : db'[t] \subseteq db[t]
  BY <1>0, <1>1, DeleteRows, Shrinks
<1>5. CASE Return(r)
  <2>1. Moves(r, {"idle"})
    BY <1>0, <1>5, ReturnMoves
  <2> QED
    BY <1>0, <1>1, <1>4, <2>1, QuietThread
<1>6. CASE request' = [request EXCEPT ![r].pc = "touch"] /\ \E x \in row : TRUE
  <2>1. Moves(r, {"touch"}) /\ request'[r].client = request[r].client
    BY <1>0, <1>6 DEF Shape, Moves, HasFields
  <2>2. Shape'
    BY <1>0, <1>1, <1>4, <2>1, ShapeStep
  <2>3. PICK x \in row : TRUE
    BY <1>6
  <2>4. Carries(request'[r]) /\ Carried(request'[r]) = x.id
    BY <1>3, <2>1, <2>3 DEF Moves, Carries, Carried
  <2>5. IdInv'
    BY <1>0, <1>1, <1>3, <1>4, <2>1, <2>3, <2>4, IdTaken DEF Moves
  <2>6. \A s \in Requests : request'[s] = request[s] \/ request'[s].pc = "touch"
    BY <2>1 DEF Moves
  <2>7. RootInv'
    BY <1>0, <1>1, <1>4, <2>6, RootStep DEF At
  <2>8. ProvInv'
    BY <1>0, <1>1, <1>4, <2>6, ProvStep
  <2> QED
    BY <2>2, <2>5, <2>7, <2>8 DEF OAuthInv
<1> QED
  BY <1>2, <1>5, <1>6

\* The counter is written and the challenge is spent.
LEMMA TouchStep ==
    ASSUME OAuthInv, NEW r \in Requests, passkey_touch(r)
    PROVE  OAuthInv'
<1>0. /\ Shape /\ IsHistory(h) /\ IsDb(db) /\ IdInv
      /\ OneUse \subseteq Tables /\ "passkey" \notin OneUse
      /\ "code" \in OneUse /\ "refresh" \in OneUse /\ "par" \in OneUse
  BY HistoryIs DEF OAuthInv, OneUse, Tables
<1> DEFINE id == request[r].client.challenge
<1>1. /\ UNCHANGED <<mutex, used>> /\ h' = Spend(h, id) /\ At(r, "touch")
      /\ \E p : db' = [db EXCEPT !["passkey"] = p]
  BY DEF passkey_touch
<1>2. IsDb(db') /\ \A t \in OneUse : db'[t] = db[t]
  BY <1>0, <1>1 DEF IsDb
<1>3. /\ IsHistory(h') /\ h'.twice = h.twice \union ({id} \intersect h.spent)
      /\ h'.spent = h.spent \union {id} /\ h'.pushed = h.pushed
      /\ h'.approved = h.approved /\ h'.revoked = h.revoked /\ h'.chains = h.chains
  BY <1>0, <1>1, SpendOnce
<1>4. Moves(r, {"read"})
  BY <1>0, QuietMoves
<1>5. \A s \in Requests : request'[s] = request[s] \/ request'[s].pc = "read"
  BY <1>4 DEF Moves
<1>6. /\ id \in (1..used) \ h.spent
      /\ \A t \in OneUse : \A x \in db[t] : x.id # id
      /\ \A s \in Requests : (s # r /\ Carries(request[s])) => Carried(request[s]) # id
  <2>1. Carries(request[r]) /\ Carried(request[r]) = id
    BY <1>1 DEF At, Carries, Carried
  <2> QED
    BY <1>0, <2>1 DEF IdInv
<1> HIDE DEF id
<1>7. Shape'
  BY <1>0, <1>1, <1>2, <1>3, <1>4, ShapeStep
<1>8. IdInv'
  <2>1. h'.twice = {} /\ h'.spent \subseteq 1..used
    BY <1>0, <1>3, <1>6 DEF IdInv
  <2>2. \A s \in Requests : Carries(request'[s]) =>
           request'[s] = request[s] /\ Carried(request[s]) \notin h'.spent
    BY <1>0, <1>3, <1>4, <1>6 DEF IdInv, Carries, Moves
  <2>3. \A t \in OneUse : \A x \in db'[t] : x.id \notin h'.spent
    BY <1>0, <1>2, <1>3, <1>6 DEF IdInv
  <2> QED
    BY <1>1, <1>2, <2>1, <2>2, <2>3, IdStep
<1>9. RootInv'
  BY <1>0, <1>1, <1>2, <1>3, <1>5, RootStep DEF At
<1>10. ProvInv'
  BY <1>0, <1>2, <1>3, <1>5, ProvStep
<1> QED
  BY <1>7, <1>8, <1>9, <1>10 DEF OAuthInv

\* The browser's user approves a pushed request.
LEMMA ApproveStep ==
    ASSUME OAuthInv, NEW r \in Requests, oauth_authorize(r)
    PROVE  OAuthInv'
<1>0. Shape /\ IsHistory(h) /\ IsDb(db) /\ HasFields(request[r]) /\ used \in Nat
  BY HistoryIs DEF OAuthInv, Shape
<1>1. PICK p \in db["par"], s \in Subjects, c \in Clients :
        /\ request' = [request EXCEPT ![r].pc = "authorize", ![r].tok = p.id,
                                      ![r].subject = s, ![r].client = c]
        /\ h' = [h EXCEPT !.approved = @ \union {<<p.id, s>>}]
  BY DEF oauth_authorize
<1>2. UNCHANGED <<db, mutex, used>>
  BY DEF oauth_authorize
<1>3. /\ IsHistory(h') /\ h'.pushed = h.pushed /\ h'.approved = h.approved \union {<<p.id, s>>}
      /\ h'.spent = h.spent /\ h'.twice = h.twice /\ h'.chains = h.chains
      /\ h'.revoked = h.revoked
  BY <1>0, <1>1 DEF IsHistory
<1>4. Moves(r, {"authorize"})
  BY <1>0, QuietMoves
<1>5. request'[r].tok = p.id /\ request'[r].subject = s
  <2>1. \A t, u, v : request' = [request EXCEPT ![r].pc = "authorize", ![r].tok = t,
                                                ![r].subject = u, ![r].client = v]
           => request'[r].tok = t /\ request'[r].subject = u
    <3> TAKE t, u, v
    <3> HAVE request' = [request EXCEPT ![r].pc = "authorize", ![r].tok = t,
                                        ![r].subject = u, ![r].client = v]
    <3> QED
      BY <1>0 DEF Shape, HasFields
  <2> QED
    BY <1>1, <2>1
<1>6. Shape'
  BY <1>0, <1>2, <1>3, <1>4, ShapeStep
<1>7. \A q \in Requests :
        \/ request'[q] = request[q] /\ (At(q, "issue") => mutex' = mutex)
        \/ /\ request'[q].pc \notin {"issue", "touch"}
           /\ request'[q].pc = "authorize" =>
                <<request'[q].tok, request'[q].subject>> \in h'.approved
  BY <1>2, <1>3, <1>4, <1>5 DEF Moves
<1> QED
  BY <1>0, <1>2, <1>3, <1>6, <1>7, QuietStep

-----------------------------------------------------------------------------
LEMMA InitOAuthInv == Init => OAuthInv
<1> SUFFICES ASSUME Init PROVE OAuthInv
  OBVIOUS
<1>1. PICK s \in Subjects :
        db = [t \in Tables |->
                CASE t = "device" -> {[id |-> 1, subject |-> s, exp |-> LongLife]}
                  [] t = "passkey" -> {[cred |-> c, subject |-> s, count |-> 0] : c \in Creds}
                  [] OTHER -> {}]
  BY DEF Init
<1>2. db = [t \in Tables |-> db[t]]
  BY <1>1
<1>3. \A t \in OneUse : db[t] = {}
  BY <1>1 DEF OneUse, Tables
<1>4. /\ h.pushed = {} /\ h.approved = {} /\ h.spent = {} /\ h.twice = {} /\ h.chains = {}
      /\ h.revoked = {} /\ IsHistory(h)
  BY DEF Init, IsHistory
<1>5. /\ used \in Nat /\ request = [r \in Requests |-> request[r]]
      /\ \A r \in Requests : HasFields(request[r]) /\ request[r].pc = "idle"
  BY IdleFields DEF Init
<1>6. Shape
  BY <1>2, <1>4, <1>5 DEF Shape, IsHistory
<1>7. IdInv
  BY <1>3, <1>4, <1>5 DEF IdInv, Carries
<1>8. RootInv
  BY <1>3, <1>4, <1>5 DEF RootInv, At, OneUse
<1>9. ProvInv
  BY <1>3, <1>4, <1>5 DEF ProvInv, At, OneUse
<1> QED
  BY <1>6, <1>7, <1>8, <1>9 DEF OAuthInv

LEMMA NextOAuthInv == OAuthInv /\ [Next]_vars => OAuthInv'
<1> SUFFICES ASSUME OAuthInv, [Next]_vars PROVE OAuthInv'
  OBVIOUS
<1>0. Shape /\ IsHistory(h) /\ IsDb(db) /\ used \in Nat
  BY HistoryIs DEF OAuthInv, Shape
<1>1. CASE oauth_par
  BY <1>1, ParStep
<1>2. CASE oauth_revoke \/ oauth_revoke_grant
  BY <1>2, RevocationsStep
<1>3. CASE oauth_revoke_device
  <2>1. UNCHANGED <<mutex, request, used, h>>
    BY <1>3 DEF oauth_revoke_device
  <2>2. IsDb(db') /\ \A t \in OneUse : db'[t] \subseteq db[t]
    BY <1>0, <1>3, Shrinks DEF oauth_revoke_device, Tables
  <2>3. Shape'
    BY <1>0, <2>1, <2>2, ShapeStep
  <2> QED
    BY <1>0, <2>1, <2>2, <2>3, QuietStep
<1>4. ASSUME NEW r \in Requests, Grants(r) PROVE OAuthInv'
  BY <1>4, ApproveStep, AuthorizeStep, TokenStep, IssueStep DEF Grants
<1>5. ASSUME NEW r \in Requests, Devices(r) PROVE OAuthInv'
  BY <1>5, QuietDevices
<1>6. ASSUME NEW r \in Requests, Passkeys(r) PROVE OAuthInv'
  BY <1>6, QuietPasskeys, ChallengeStep, AssertStep, TouchStep DEF Passkeys
<1>7. CASE Tick \/ UNCHANGED vars
  <2>1. UNCHANGED <<db, mutex, request, used, h>>
    BY <1>7 DEF Tick, vars
  <2>2. Shape'
    BY <1>0, <2>1, ShapeStep
  <2> QED
    BY <1>0, <2>1, <2>2, QuietStep
<1>8. CASE Restart
  <2>1. UNCHANGED <<db, used, h>> /\ request' = [r \in Requests |-> Idle]
    BY <1>8 DEF Restart
  <2>2. Shape'
    BY <1>0, <2>1, ShapeStep
  <2>3. \A r \in Requests : request'[r].pc = "idle"
    BY <2>1, IdleFields
  <2> QED
    BY <1>0, <2>1, <2>2, <2>3, QuietStep
<1> QED
  BY <1>1, <1>2, <1>3, <1>4, <1>5, <1>6, <1>7, <1>8 DEF Next

\* The inductive invariant of the OAuth server holds in every reachable state.
THEOREM OAuthInvariant == Spec => []OAuthInv
BY InitOAuthInv, NextOAuthInv, PTL DEF Spec

\* No pushed request, code, refresh token or passkey challenge is turned into
\* two, whichever of the process's threads race for it and wherever it dies:
\* metalbear_oauth_authorize, exchange_code, metalbear_oauth_refresh and
\* passkey_challenge_consume delete before they write.
THEOREM SingleUseValuesAreUsedOnce == Spec => []SingleUse
<1>1. OAuthInv => SingleUse
  BY DEF OAuthInv, IdInv, SingleUse
<1> QED
  BY <1>1, OAuthInvariant, PTL

\* Every code and every refresh token, however often it was rotated by
\* metalbear_oauth_refresh, goes back to a pushed request of the same client
\* and key that a signed-in browser approved for the same account.
THEOREM GrantsWereApproved == Spec => []GrantProvenance
<1>1. OAuthInv => GrantProvenance
  BY DEF OAuthInv, ProvInv, Approved, GrantProvenance
<1> QED
  BY <1>1, OAuthInvariant, PTL

\* A chain of refresh tokens that oauth_revoke or oauth_revoke_grant ended has
\* no token ever after, though a rotation was under way: the store's mutex is
\* kept from the DELETE of a token to the INSERT of its successor.
THEOREM RevocationIsFinal == Spec => []RevokedGrantEnds
<1>1. OAuthInv => RevokedGrantEnds
  BY DEF OAuthInv, RootInv, RevokedGrantEnds
<1> QED
  BY <1>1, OAuthInvariant, PTL

-----------------------------------------------------------------------------
(* The cookie.  A request that is about to answer with a new cookie has    *)
(* each live token of the old one among those it keeps or those it has     *)
(* still to revoke.  A token of another request, revoked or expired        *)
(* meanwhile, does not come back: its number is not drawn again.           *)

CookieOk(q) ==
    /\ q.cookie \subseteq 1..used /\ q.keep \subseteq 1..used
    /\ q.pc = "revoke" =>
         \A x \in Live("device") : x.id \in q.cookie => x.id \in q.keep \union q.drop

CookieInv ==
    /\ clock \in Nat /\ jar \subseteq 1..used /\ h.dropped \subseteq 1..used
    /\ \A x \in db["device"] : x.id \in 1..used /\ x.exp \in Nat
    /\ \A x \in Live("device") : x.id \notin h.dropped
    /\ \A r \in Requests : CookieOk(request[r])

LEMMA CookieStep ==
    ASSUME OAuthInv, CookieInv, used' \in {used, used + 1}, clock' \in {clock, clock + 1},
           jar' \subseteq 1..used', h'.dropped \subseteq 1..used,
           \A x \in db'["device"] :
              x \in db["device"] \/ (used' = used + 1 /\ x.id = used' /\ x.exp \in Nat),
           \A x \in Live("device")' : x.id \notin h'.dropped,
           \A r \in Requests : request'[r] = request[r] \/ CookieOk(request[r])'
    PROVE  CookieInv'
<1>1. used \in Nat /\ 1..used \subseteq 1..used' /\ used + 1 \notin 1..used
  BY DEF OAuthInv, Shape
<1>2. clock' \in Nat
  BY DEF CookieInv
<1>3. \A x \in db'["device"] : x.id \in 1..used' /\ x.exp \in Nat
  BY <1>1 DEF CookieInv
<1>4. \A x \in Live("device")' : x \in Live("device") \/ x.id = used + 1
  BY DEF CookieInv, Live
<1>5. ASSUME NEW r \in Requests, request'[r] = request[r]
      PROVE  CookieOk(request[r])'
  <2>1. CookieOk(request[r])
    BY DEF CookieInv
  <2>2. \A x \in Live("device")' : x.id \in request[r].cookie => x \in Live("device")
    BY <1>1, <1>4, <2>1 DEF CookieOk
  <2> QED
    BY <1>1, <1>5, <2>1, <2>2 DEF CookieOk
<1> QED
  BY <1>1, <1>2, <1>3, <1>5 DEF CookieInv

\* A step that leaves the browser alone: no device session is made, no cookie
\* is set, and no request comes to rewriting one.
LEMMA CookieKept ==
    ASSUME OAuthInv, CookieInv, used' \in {used, used + 1}, clock' \in {clock, clock + 1},
           jar' = jar, h'.dropped = h.dropped, db'["device"] \subseteq db["device"],
           \A r \in Requests :
              \/ request'[r] = request[r]
              \/ /\ request'[r].pc # "revoke" /\ request'[r].keep \in {{}, request[r].keep}
                 /\ request'[r].cookie \in {{}, jar, request[r].cookie}
    PROVE  CookieInv'
<1>1. used \in Nat /\ 1..used \subseteq 1..used'
  BY DEF OAuthInv, Shape
<1>2. \A x \in Live("device")' : x \in Live("device")
  BY DEF CookieInv, Live
<1>3. jar' \subseteq 1..used' /\ h'.dropped \subseteq 1..used
  BY <1>1 DEF CookieInv
<1>4. \A x \in Live("device")' : x.id \notin h'.dropped
  BY <1>2 DEF CookieInv
<1>5. ASSUME NEW r \in Requests, request'[r] # request[r]
      PROVE  CookieOk(request[r])'
  <2>1. jar \subseteq 1..used /\ CookieOk(request[r])
    BY DEF CookieInv
  <2>2. /\ request'[r].pc # "revoke" /\ request'[r].keep \in {{}, request[r].keep}
        /\ request'[r].cookie \in {{}, jar, request[r].cookie}
    BY <1>5
  <2>3. request'[r].cookie \subseteq 1..used' /\ request'[r].keep \subseteq 1..used'
    BY <1>1, <2>1, <2>2 DEF CookieOk
  <2> QED
    BY <2>2, <2>3 DEF CookieOk
<1> QED
  BY <1>3, <1>4, <1>5, CookieStep

LEMMA IdleCookie == Idle.cookie = {} /\ Idle.keep = {} /\ Idle.pc = "idle"
BY DEF Idle

\* What the threads' other steps do to the cookie a request has read.
Reads(r) ==
    /\ \A s \in Requests : s # r => request'[s] = request[s]
    /\ request'[r].pc # "revoke" /\ request'[r].keep \in {{}, request[r].keep}
    /\ request'[r].cookie \in {{}, jar, request[r].cookie}

LEMMA ReturnReads ==
    ASSUME Shape, NEW r \in Requests, Return(r)
    PROVE  Reads(r)
BY IdleCookie DEF Shape, Return, Reads

LEMMA ThreadReads ==
    ASSUME Shape, NEW r \in Requests
    PROVE  /\ Grants(r) => Reads(r)
           /\ oauth_signin(r) => Reads(r)
           /\ Passkeys(r) => Reads(r)
<1>0. HasFields(request[r]) /\ request = [s \in Requests |-> request[s]]
  BY DEF Shape
<1>1. \A s, c : request' = [request EXCEPT ![r].pc = "read", ![r].subject = s,
                                           ![r].cookie = c]
         => Reads(r) \/ c # jar
  <2> TAKE s, c
  <2> HAVE request' = [request EXCEPT ![r].pc = "read", ![r].subject = s, ![r].cookie = c]
  <2> QED
    BY <1>0 DEF Reads, HasFields
<1>2. oauth_signin(r) => Reads(r)
  BY <1>1 DEF oauth_signin
<1>3. oauth_authorize(r) => Reads(r)
  <2>1. \A t, s, c : request' = [request EXCEPT ![r].pc = "authorize", ![r].tok = t,
                                                ![r].subject = s, ![r].client = c]
           => Reads(r)
    <3> TAKE t, s, c
    <3> HAVE request' = [request EXCEPT ![r].pc = "authorize", ![r].tok = t,
                                        ![r].subject = s, ![r].client = c]
    <3> QED
      BY <1>0 DEF Reads, HasFields
  <2> HAVE oauth_authorize(r)
  <2>2. PICK p \in db["par"], s \in Subjects, c \in Clients :
           request' = [request EXCEPT ![r].pc = "authorize", ![r].tok = p.id,
                                      ![r].subject = s, ![r].client = c]
    BY DEF oauth_authorize
  <2> QED
    BY <2>1, <2>2
<1>4. oauth_token(r) => Reads(r)
  <2>1. \A i, c, k, s, n :
           request' = [request EXCEPT ![r] = [Idle EXCEPT !.pc = "issue", !.tok = i,
                         !.client = c, !.key = k, !.subject = s, !.count = n]]
             => Reads(r)
    <3> TAKE i, c, k, s, n
    <3> DEFINE q == [Idle EXCEPT !.pc = "issue", !.tok = i, !.client = c, !.key = k,
                                 !.subject = s, !.count = n]
    <3>1. q.cookie = {} /\ q.keep = {} /\ q.pc = "issue"
      BY DEF Idle
    <3> HIDE DEF q
    <3>2. request' = [request EXCEPT ![r] = q] => Reads(r)
      BY <1>0, <3>1 DEF Reads
    <3> QED
      BY <3>2 DEF q
  <2>2. ASSUME NEW t, NEW row, NEW client, NEW root, Consume(r, t, row, client, root)
        PROVE  Reads(r)
    <3>1. request' = [request EXCEPT ![r] = [Idle EXCEPT !.pc = "issue", !.tok = row.id,
                         !.client = client, !.key = row.key, !.subject = row.subject,
                         !.count = root]]
      BY <2>2 DEF Consume
    <3> QED
      BY <2>1, <3>1
  <2> QED
    BY <2>2 DEF oauth_token, exchange_code, refresh
<1>5. Grants(r) => Reads(r)
  BY <1>3, <1>4, ReturnReads DEF Grants, Authorize, issue_grant
<1>6. \A pc \in {"create", "register", "remove"} : CheckDevice(r, pc) => Reads(r)
  BY <1>0 DEF CheckDevice, Reads, HasFields
<1>7. passkey_authenticate_options(r) => Reads(r)
  BY <1>0 DEF passkey_authenticate_options, Reads, HasFields
<1>8. \A pc \in {"add", "touch"} : request' = [request EXCEPT ![r].pc = pc] => Reads(r)
  BY <1>0 DEF Reads, HasFields
<1>9. register_consume(r) \/ authenticate_consume(r) => Reads(r)
  BY <1>8, ReturnReads DEF register_consume, authenticate_consume
<1>10. passkey_lookup(r) => Reads(r)
  <2>1. \A s, a, n : request' = [request EXCEPT ![r].pc = "assert", ![r].subject = s,
                                     ![r].client = a, ![r].count = n, ![r].cookie = jar]
           => Reads(r)
    <3> TAKE s, a, n
    <3> HAVE request' = [request EXCEPT ![r].pc = "assert", ![r].subject = s,
                                     ![r].client = a, ![r].count = n, ![r].cookie = jar]
    <3> QED
      BY <1>0 DEF Reads, HasFields
  <2> HAVE passkey_lookup(r)
  <2>2. PICK a \in signed, x \in db["passkey"] :
           request' = [request EXCEPT ![r].pc = "assert", ![r].subject = x.subject,
                          ![r].client = a, ![r].count = x.count, ![r].cookie = jar]
    BY DEF passkey_lookup
  <2> QED
    BY <2>1, <2>2
<1>11. passkey_touch(r) => Reads(r)
  <2> SUFFICES ASSUME request' = [request EXCEPT ![r].pc = "read", ![r].client = "",
                                                 ![r].count = 0]
               PROVE  Reads(r)
    BY DEF passkey_touch
  <2> QED
    BY <1>0 DEF Reads, HasFields
<1>12. passkey_challenge_create(r) \/ passkey_add(r) \/ PasskeyRemove(r) => Reads(r)
  BY ReturnReads DEF passkey_challenge_create, passkey_add, PasskeyRemove
<1>13. Passkeys(r) => Reads(r)
  BY <1>6, <1>7, <1>9, <1>10, <1>11, <1>12 DEF Passkeys, passkey_register_options,
     passkey_register_verify, passkey_remove
<1> QED
  BY <1>2, <1>5, <1>13

\* What the statements of the store do to the device sessions.
LEMMA DeviceRows ==
    ASSUME IsDb(db), NEW t \in Tables, NEW rows, NEW row
    PROVE  /\ prune(db)["device"] \subseteq db["device"]
           /\ Delete(db, t, rows)["device"] \subseteq db["device"]
           /\ Delete(prune(db), t, rows)["device"] \subseteq db["device"]
           /\ t # "device" => /\ Insert(db, t, row)["device"] = db["device"]
                              /\ Insert(prune(db), t, row)["device"] \subseteq db["device"]
                              /\ \A u \in Tables : Insert(Delete(prune(db), u, rows), t, row)["device"]
                                    \subseteq db["device"]
<1>1. "device" \in Tables /\ IsDb(prune(db)) /\ prune(db)["device"] \subseteq db["device"]
  BY PruneRows DEF Tables, prune
<1>2. \A d : IsDb(d) => \A u \in Tables : /\ Delete(d, u, rows)["device"] \subseteq d["device"]
                                          /\ IsDb(Delete(d, u, rows))
  BY <1>1 DEF Delete, IsDb
<1>3. \A d : IsDb(d) /\ t # "device" => Insert(d, t, row)["device"] = d["device"]
  BY <1>1 DEF Insert, IsDb
<1> QED
  BY <1>1, <1>2, <1>3


LEMMA GrantsCookie ==
    ASSUME OAuthInv, CookieInv, NEW r \in Requests, Grants(r)
    PROVE  CookieInv'
<1>0. Shape /\ IsHistory(h) /\ IsDb(db)
  BY HistoryIs DEF OAuthInv
<1>1. Reads(r)
  BY <1>0, ThreadReads
<1>2. {"code", "refresh"} \subseteq Tables \ {"device"} /\ {"par", "code"} \subseteq Tables
  BY DEF Tables
<1>3. \A id : Spend(h, id).dropped = h.dropped
  BY <1>0 DEF Spend, IsHistory
<1>4. CASE oauth_authorize(r)
  <2>1. h'.dropped = h.dropped
    BY <1>0, <1>4 DEF oauth_authorize, IsHistory
  <2> QED
    BY <1>1, <1>4, <2>1, CookieKept DEF oauth_authorize, Reads
<1>5. CASE Authorize(r)
  <2>1. h'.dropped = h.dropped /\ used' \in {used, used + 1}
    BY <1>3, <1>5 DEF Authorize, Fresh
  <2>2. \/ db' = prune(db)
        \/ \E rows, row : db' = Insert(Delete(prune(db), "par", rows), "code", row)
    BY <1>5 DEF Authorize
  <2>3. db'["device"] \subseteq db["device"]
    <3>1. \A rows, row : Insert(Delete(prune(db), "par", rows), "code", row)["device"]
                            \subseteq db["device"]
      <4> TAKE rows, row
      <4>1. "par" \in Tables /\ "code" \in Tables /\ "code" # "device"
        BY <1>2
      <4> QED
        BY <1>0, <4>1, DeviceRows
    <3>2. prune(db)["device"] \subseteq db["device"]
      BY <1>0, <1>2, DeviceRows
    <3> QED
      BY <2>2, <3>1, <3>2
  <2> QED
    BY <1>1, <1>5, <2>1, <2>3, CookieKept DEF Authorize, Reads
<1>6. CASE oauth_token(r)
  <2>1. PICK t \in {"code", "refresh"} : \E row, client, root : Consume(r, t, row, client, root)
    BY <1>6 DEF oauth_token, exchange_code, refresh
  <2>2. db'["device"] \subseteq db["device"]
    BY <1>0, <1>2, <2>1, DeviceRows DEF Consume
  <2>3. UNCHANGED <<jar, clock, used, h>>
    BY <1>6 DEF oauth_token, exchange_code, refresh
  <2> QED
    BY <1>1, <2>2, <2>3, CookieKept DEF Reads
<1>7. CASE issue_grant(r)
  <2>1. db'["device"] \subseteq db["device"]
    BY <1>0, <1>2, <1>7, DeviceRows DEF issue_grant
  <2>2. used' \in {used, used + 1} /\ UNCHANGED <<jar, clock>>
    BY <1>7 DEF issue_grant, Fresh
  <2>3. h'.dropped = h.dropped
    <3>1. \A id, c : [Spend(h, id) EXCEPT !.chains = c].dropped = h.dropped
      <4>1. \A id : IsHistory(Spend(h, id))
        BY <1>0, SpendOnce
      <4> QED
        BY <1>3, <4>1 DEF IsHistory
    <3> QED
      BY <1>7, <3>1 DEF issue_grant
  <2> QED
    BY <1>1, <2>1, <2>2, <2>3, CookieKept DEF Reads
<1> QED
  BY <1>4, <1>5, <1>6, <1>7 DEF Grants

LEMMA PasskeysCookie ==
    ASSUME OAuthInv, CookieInv, NEW r \in Requests, Passkeys(r)
    PROVE  CookieInv'
<1>0. Shape /\ IsHistory(h) /\ IsDb(db)
  BY HistoryIs DEF OAuthInv
<1>1. Reads(r)
  BY <1>0, ThreadReads
<1>2. {"challenge", "passkey"} \subseteq Tables \ {"device"}
  BY DEF Tables
<1>3. /\ used' \in {used, used + 1} /\ UNCHANGED <<jar, clock>>
  BY DEF Passkeys, passkey_register_options, passkey_register_verify, passkey_remove,
     CheckDevice, passkey_authenticate_options, passkey_challenge_create, Fresh,
     register_consume, passkey_add, passkey_lookup, authenticate_consume, passkey_touch,
     PasskeyRemove
<1>4. h'.dropped = h.dropped
  <2>1. passkey_touch(r) => h'.dropped = h.dropped
    BY <1>0 DEF passkey_touch, Spend, IsHistory
  <2>2. \/ passkey_touch(r) \/ h' = h
    BY DEF Passkeys, passkey_register_options, passkey_register_verify, passkey_remove,
       CheckDevice, passkey_authenticate_options, passkey_challenge_create,
       register_consume, passkey_add, passkey_lookup, authenticate_consume, PasskeyRemove
  <2> QED
    BY <2>1, <2>2
<1>5. db'["device"] \subseteq db["device"]
  <2>1. passkey_challenge_create(r) => db'["device"] \subseteq db["device"]
    BY <1>0, <1>2, DeviceRows DEF passkey_challenge_create
  <2>2. register_consume(r) \/ PasskeyRemove(r) => db'["device"] \subseteq db["device"]
    BY <1>0, <1>2, DeviceRows DEF register_consume, PasskeyRemove
  <2>3. passkey_add(r) => db'["device"] \subseteq db["device"]
    BY <1>0, <1>2, DeviceRows DEF passkey_add
  <2>4. authenticate_consume(r) => db'["device"] \subseteq db["device"]
    BY <1>0, <1>2, DeviceRows DEF authenticate_consume
  <2>5. passkey_touch(r) => db'["device"] \subseteq db["device"]
    <3>1. \A p : [db EXCEPT !["passkey"] = p]["device"] = db["device"]
      BY <1>0 DEF IsDb, Tables
    <3> QED
      BY <3>1 DEF passkey_touch
  <2>6. \/ passkey_challenge_create(r) \/ register_consume(r) \/ PasskeyRemove(r)
        \/ passkey_add(r) \/ authenticate_consume(r) \/ passkey_touch(r) \/ db' = db
    BY DEF Passkeys, passkey_register_options, passkey_register_verify, passkey_remove,
       CheckDevice, passkey_authenticate_options, passkey_lookup
  <2> QED
    BY <2>1, <2>2, <2>3, <2>4, <2>5, <2>6
<1> QED
  BY <1>1, <1>3, <1>4, <1>5, CookieKept DEF Reads

\* Reading the cookie keeps or marks for revocation each of its live tokens.
LEMMA MarksCookie ==
    ASSUME OAuthInv, CookieInv, NEW r \in Requests, NEW c, NEW keep, NEW drop,
           c \subseteq 1..used, keep \subseteq read_device_sessions(c),
           drop = read_device_sessions(c) \ keep,
           request'[r].cookie = c, request'[r].keep = keep, request'[r].drop = drop,
           \A s \in Requests : s # r => request'[s] = request[s],
           UNCHANGED <<db, jar, clock, used, h>>
    PROVE  CookieInv'
<1>1. \A x \in Live("device") : x.id \in c => x.id \in keep \union drop
  BY DEF read_device_sessions
<1>2. CookieOk(request[r])'
  BY <1>1 DEF CookieOk, Live, read_device_sessions
<1> QED
  BY <1>2, CookieStep DEF CookieInv, Live

LEMMA DevicesCookie ==
    ASSUME OAuthInv, CookieInv, NEW r \in Requests, Devices(r)
    PROVE  CookieInv'
<1>0. /\ Shape /\ IsHistory(h) /\ IsDb(db) /\ used \in Nat
      /\ HasFields(request[r]) /\ request = [s \in Requests |-> request[s]]
      /\ CookieOk(request[r]) /\ jar \subseteq 1..used /\ h.dropped \subseteq 1..used
  BY HistoryIs DEF OAuthInv, Shape, CookieInv
<1>t. "device" \in Tables
  BY DEF Tables
<1>1. CASE oauth_signin(r)
  <2>1. Reads(r)
    BY <1>0, <1>1, ThreadReads
  <2> QED
    BY <1>1, <2>1, CookieKept DEF oauth_signin, Reads
<1>2. CASE finish_device_signin(r)
  <2> DEFINE c == request[r].cookie
             e == read_device_sessions(c)
             k == Kept(e, request[r].subject)
             d == Dropped(e, k, request[r].subject)
  <2>1. k \subseteq e /\ d = e \ k
    BY DEF Kept, Dropped
  <2>2. request' = [request EXCEPT ![r].pc = "revoke", ![r].keep = k, ![r].drop = d,
                                   ![r].tok = 1]
    BY <1>2 DEF finish_device_signin
  <2>3. UNCHANGED <<db, jar, clock, used, h>>
    BY <1>2 DEF finish_device_signin
  <2>4. c \subseteq 1..used
    BY <1>0 DEF CookieOk
  <2> HIDE DEF k, d
  <2>5. /\ request'[r].cookie = c /\ request'[r].keep = k /\ request'[r].drop = d
        /\ \A s \in Requests : s # r => request'[s] = request[s]
    BY <1>0, <2>2 DEF HasFields
  <2> QED
    BY <2>1, <2>3, <2>4, <2>5, MarksCookie
<1>3. CASE device_session_revoke(r)
  <2>1. PICK t \in request[r].drop :
          /\ db' = Delete(db, "device", {x \in db["device"] : x.id = t})
          /\ request' = [request EXCEPT ![r].drop = @ \ {t}]
    BY <1>3 DEF device_session_revoke
  <2>2. UNCHANGED <<jar, clock, used, h>>
    BY <1>3 DEF device_session_revoke
  <2>3. db'["device"] = {x \in db["device"] : x.id # t}
    BY <1>0, <1>t, <2>1, DeleteRows
  <2>4. /\ request'[r].cookie = request[r].cookie /\ request'[r].keep = request[r].keep
        /\ request'[r].drop = request[r].drop \ {t} /\ request'[r].pc = request[r].pc
        /\ \A s \in Requests : s # r => request'[s] = request[s]
    BY <1>0, <2>1 DEF HasFields
  <2>5. \A x \in Live("device")' : x \in Live("device") /\ x.id # t
    BY <2>2, <2>3 DEF Live
  <2>6. CookieOk(request[r])'
    BY <1>0, <2>2, <2>4, <2>5 DEF CookieOk
  <2> QED
    BY <1>0, <2>2, <2>3, <2>4, <2>5, <2>6, CookieStep DEF CookieInv
<1>4. CASE device_session_create(r)
  <2>1. \A s \in Requests : s # r => request'[s] = request[s]
    BY <1>0, <1>4 DEF device_session_create, Return
  <2>2. CookieOk(request[r])'
    <3>1. request'[r] = Idle
      BY <1>0, <1>4 DEF device_session_create, Return
    <3> QED
      BY <3>1, IdleCookie DEF CookieOk
  <2>3. CASE db' = prune(db) /\ UNCHANGED <<jar, used, h>>
    <3>1. db'["device"] \subseteq db["device"] /\ clock' = clock
      BY <1>0, <1>t, <1>4, <2>3, DeviceRows DEF device_session_create
    <3>2. \A x \in Live("device")' : x.id \notin h'.dropped
      BY <2>3, <3>1 DEF CookieInv, Live
    <3> QED
      BY <1>0, <2>1, <2>2, <2>3, <3>1, <3>2, CookieStep DEF CookieInv
  <2>4. CASE /\ Fresh
             /\ db' = Insert(prune(db), "device", [id |-> New, subject |-> request[r].subject,
                                                   exp |-> clock + LongLife])
             /\ SetCookie(r, request[r].keep \union {New})
    <3> DEFINE row == [id |-> New, subject |-> request[r].subject, exp |-> clock + LongLife]
    <3>1. row.id = used + 1 /\ row.exp \in Nat
      BY <1>0, OAuthAssumption DEF New, CookieInv
    <3>2. used' = used + 1 /\ clock' = clock
      BY <1>4, <2>4 DEF device_session_create, Fresh
    <3> HIDE DEF row
    <3>3. db'["device"] = prune(db)["device"] \union {row} /\ prune(db)["device"] \subseteq db["device"]
      BY <1>0, <1>t, <2>4, InsertRows, PruneRows, DeviceRows DEF row
    <3>4. /\ jar' = request[r].keep \union {used + 1}
          /\ h'.dropped = h.dropped \union (request[r].cookie \ jar')
      BY <1>0, <2>4 DEF SetCookie, IsHistory, New
    <3>5. jar' \subseteq 1..used' /\ h'.dropped \subseteq 1..used
      BY <1>0, <3>2, <3>4 DEF CookieOk
    <3>6. \A x \in Live("device")' : x.id \notin h'.dropped
      <4>1. \A x \in Live("device") : x.id \in request[r].cookie => x.id \in request[r].keep
        BY <1>0, <1>4 DEF device_session_create, At, CookieOk
      <4>2. \A x \in Live("device")' : x \in Live("device") \/ x = row
        BY <3>2, <3>3 DEF Live
      <4>3. \A x \in Live("device") : x.id \notin h'.dropped
        BY <3>4, <4>1 DEF CookieInv
      <4>4. row.id \notin h'.dropped
        BY <1>0, <3>1, <3>5
      <4> QED
        BY <4>2, <4>3, <4>4
    <3>7. \A x \in db'["device"] : x \in db["device"] \/ (used' = used + 1 /\ x.id = used' /\ x.exp \in Nat)
      BY <3>1, <3>2, <3>3
    <3> QED
      BY <2>1, <2>2, <3>2, <3>5, <3>6, <3>7, CookieStep
  <2> QED
    BY <1>4, <2>3, <2>4 DEF device_session_create
<1>5. CASE oauth_signout(r)
  <2> DEFINE e == read_device_sessions(jar)
  <2>1. PICK only \in Subjects \union {"every"} :
          request' = [request EXCEPT ![r].pc = "revoke", ![r].cookie = jar,
                        ![r].keep = {t \in e : only # "every" /\ SubjectOf(t) # only},
                        ![r].drop = Dropped(e, {t \in e : only # "every" /\ SubjectOf(t) # only}, only)]
    BY <1>5 DEF oauth_signout
  <2> DEFINE k == {t \in e : only # "every" /\ SubjectOf(t) # only}
             d == Dropped(e, k, only)
  <2>2. k \subseteq e /\ d = e \ k
    BY DEF Dropped
  <2>3. UNCHANGED <<db, jar, clock, used, h>>
    BY <1>5 DEF oauth_signout
  <2>4. request' = [request EXCEPT ![r].pc = "revoke", ![r].cookie = jar,
                                   ![r].keep = k, ![r].drop = d]
    BY <2>1
  <2> HIDE DEF k, d
  <2>5. /\ request'[r].cookie = jar /\ request'[r].keep = k /\ request'[r].drop = d
        /\ \A s \in Requests : s # r => request'[s] = request[s]
    BY <1>0, <2>4 DEF HasFields
  <2> QED
    BY <1>0, <2>2, <2>3, <2>5, MarksCookie
<1>6. CASE SignoutAnswer(r)
  <2>1. UNCHANGED <<db, clock, used>>
    BY <1>6 DEF SignoutAnswer
  <2>2. /\ jar' = request[r].keep /\ h'.dropped = h.dropped \union (request[r].cookie \ jar')
    BY <1>0, <1>6 DEF SignoutAnswer, SetCookie, IsHistory
  <2>3. \A x \in Live("device") : x.id \in request[r].cookie => x.id \in request[r].keep
    BY <1>0, <1>6 DEF SignoutAnswer, At, CookieOk
  <2>4. \A x \in Live("device")' : x.id \notin h'.dropped
    BY <2>1, <2>2, <2>3 DEF CookieInv, Live
  <2>5. jar' \subseteq 1..used' /\ h'.dropped \subseteq 1..used
    BY <1>0, <2>1, <2>2 DEF CookieOk
  <2>6. /\ \A s \in Requests : s # r => request'[s] = request[s]
        /\ request'[r] = Idle
    BY <1>0, <1>6 DEF SignoutAnswer, Return
  <2>7. CookieOk(request[r])'
    BY <2>6, IdleCookie DEF CookieOk
  <2> QED
    BY <2>1, <2>4, <2>5, <2>6, <2>7, CookieStep DEF CookieInv
<1> QED
  BY <1>1, <1>2, <1>3, <1>4, <1>5, <1>6 DEF Devices

LEMMA InitCookieInv == Init => CookieInv
<1> SUFFICES ASSUME Init PROVE CookieInv
  OBVIOUS
<1>1. PICK s \in Subjects :
        db = [t \in Tables |->
                CASE t = "device" -> {[id |-> 1, subject |-> s, exp |-> LongLife]}
                  [] t = "passkey" -> {[cred |-> c, subject |-> s, count |-> 0] : c \in Creds}
                  [] OTHER -> {}]
  BY DEF Init
<1>2. db["device"] = {[id |-> 1, subject |-> s, exp |-> LongLife]}
  BY <1>1 DEF Tables
<1>3. \A x \in db["device"] : x.id = 1 /\ x.exp \in Nat
  BY <1>2, OAuthAssumption
<1>4. used = 1 /\ jar = {1} /\ clock = 0 /\ h.dropped = {}
  BY DEF Init
<1>5. \A r \in Requests : CookieOk(request[r])
  BY IdleCookie DEF Init, CookieOk
<1> QED
  BY <1>3, <1>4, <1>5 DEF CookieInv, Live

LEMMA NextCookieInv == OAuthInv /\ CookieInv /\ [Next]_vars => CookieInv'
<1> SUFFICES ASSUME OAuthInv, CookieInv, [Next]_vars PROVE CookieInv'
  OBVIOUS
<1>0. Shape /\ IsHistory(h) /\ IsDb(db) /\ used \in Nat
  BY HistoryIs DEF OAuthInv, Shape
<1>1. CASE oauth_par
  <2>1. h'.dropped = h.dropped
    BY <1>0, <1>1 DEF oauth_par, IsHistory
  <2>2. "par" \in Tables
    BY DEF Tables
  <2>3. db'["device"] \subseteq db["device"]
    BY <1>0, <1>1, <2>2, DeviceRows DEF oauth_par, create_par
  <2> QED
    BY <1>1, <2>1, <2>3, CookieKept DEF oauth_par, Fresh
<1>2. CASE oauth_revoke \/ oauth_revoke_grant
  <2>1. PICK rows, roots : Revoke(rows, roots)
    BY <1>2 DEF oauth_revoke, oauth_revoke_grant
  <2>2. h'.dropped = h.dropped
    BY <1>0, <2>1 DEF Revoke, IsHistory
  <2>3. "refresh" \in Tables
    BY DEF Tables
  <2>4. db'["device"] \subseteq db["device"]
    BY <1>0, <2>1, <2>3, DeviceRows DEF Revoke
  <2> QED
    BY <2>1, <2>2, <2>4, CookieKept DEF Revoke
<1>3. CASE oauth_revoke_device
  <2>1. "device" \in Tables
    BY DEF Tables
  <2>2. db'["device"] \subseteq db["device"]
    BY <1>0, <1>3, <2>1, DeviceRows DEF oauth_revoke_device
  <2> QED
    BY <1>3, <2>2, CookieKept DEF oauth_revoke_device
<1>4. ASSUME NEW r \in Requests, Grants(r) \/ Devices(r) \/ Passkeys(r) PROVE CookieInv'
  BY <1>4, GrantsCookie, DevicesCookie, PasskeysCookie
<1>5. CASE Tick \/ UNCHANGED vars
  BY <1>5, CookieKept DEF Tick, vars
<1>6. CASE Restart
  <2>1. \A r \in Requests : request'[r] = Idle
    BY <1>6 DEF Restart
  <2> QED
    BY <1>6, <2>1, IdleCookie, CookieKept DEF Restart
<1> QED
  BY <1>1, <1>2, <1>3, <1>4, <1>5, <1>6 DEF Next

\* A token that finish_device_signin or oauth_signout took out of the browser's
\* cookie opens nothing any more, whatever other sign-ins of the browser, device
\* revocations and restarts come between the reading of the cookie and the
\* answer that sets it.
THEOREM DroppedTokensAreRevoked == Spec => []DroppedIsRevoked
<1>1. CookieInv => DroppedIsRevoked
  BY DEF CookieInv, DroppedIsRevoked
<1> QED
  BY <1>1, InitOAuthInv, NextOAuthInv, InitCookieInv, NextCookieInv, PTL DEF Spec

=============================================================================
