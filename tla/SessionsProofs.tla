--------------------------- MODULE SessionsProofs ---------------------------
(***************************************************************************)
(* Proofs about Sessions, for any number of request threads, tokens and    *)
(* secrets: ended sessions stay ended, all refreshes with a token agree on *)
(* its successor, and a TOTP code is accepted once.                        *)
(*                                                                         *)
(* The inductive invariant has one part per concern.  Stored relates every *)
(* row, in the database and in the copy an open transaction would restore, *)
(* to the identifiers drawn and to the credential its chain came from;     *)
(* Rotating says the same of the successors rotations have drawn and not   *)
(* yet inserted.  EndInv, ChainInv and FactorInv carry the three           *)
(* properties.                                                             *)
(***************************************************************************)
EXTENDS Sessions, FiniteSetTheorems, TLAPS

Creds == Apps \union {Primary}

Dbs == [rows : [Jti -> Rows \union {NoRow}], key : BOOLEAN, secret : 0..MaxSecrets,
        active : BOOLEAN, last : Int, backup : SUBSET BackupCodes]

Pcs == {"idle", "takedown", "factor", "code", "use", "backup", "persist", "takendown", "ok",
        "select", "begin", "update", "insert", "commit", "successor", "probe",
        "revoke", "delete_all", "put_pending", "activate", "activating", "activated",
        "disable"}

Later == {"idle", "persist", "takendown", "disable"}

Reqs == [pc : Pcs, tok : 0..MaxJti, new : 0..MaxJti, cred : Creds, now : Int,
         code : Nat, secret : 0..MaxSecrets, then : Later]

Hists == [gone : SUBSET Jti, late : SUBSET Jti, undone : SUBSET Jti, torn : SUBSET Jti,
          cred : [Jti -> Creds], taken : SUBSET [secret : 0..MaxSecrets, step : Nat],
          drawn : 0..MaxSecrets, twice : BOOLEAN, succ : [Jti -> SUBSET Jti]]

\* The types of all variables, TypeOK's among them.
Types ==
    /\ db \in Dbs /\ (saved = NoTxn \/ saved \in Dbs)
    /\ apps \subseteq Apps /\ down \in BOOLEAN
    /\ clock \in 1..MaxClock /\ calls \in Nat /\ used \in 0..MaxJti
    /\ request \in [Requests -> Reqs]
    /\ held \in [Jti -> Int]
    /\ h \in Hists

Drawing == {"begin", "update", "insert"}          \* successor not inserted yet
Flying == Drawing \union {"commit"}
Holding == Flying \union {"successor"}
Presenting == Holding \union {"select", "probe"}

\* Rotations know their token; a drawn successor is a drawn identifier, no
\* two rotations have the same, and it keeps the credential of its chain.
Rotating ==
    /\ \A r \in Requests :
         /\ request[r].pc \in Presenting => request[r].tok \in Jti
         /\ request[r].pc \in Holding => request[r].new \in Jti
         /\ request[r].pc \in Flying =>
              /\ request[r].new <= used
              /\ request[r].cred = h.cred[request[r].new]
    /\ \A r, q \in Requests :
         (r # q /\ request[r].pc \in Flying /\ request[q].pc \in Flying)
            => request[r].new # request[q].new

\* A row belongs to a drawn identifier and names its chain's credential.
StoredIn(d) ==
    \A j \in Jti : d.rows[j] # NoRow => (j <= used /\ d.rows[j].app = h.cred[j])

Stored == StoredIn(db) /\ (saved # NoTxn => StoredIn(saved))

\* SessionsStayEnded, and that a successor which is still to be inserted into
\* an ended chain is counted as late.
EndInv ==
    /\ \A j \in h.gone : j <= used
    /\ \A r \in Requests :
         (request[r].pc \in Flying /\ request[r].new \in h.gone) => request[r].new \in h.late
    /\ SessionsStayEnded

\* A refresh with t has returned the successor n, or is about to.
Claimed(t, n) ==
    \/ n \in h.succ[t]
    \/ \E q \in Requests :
         /\ request[q].pc \in {"insert", "commit", "successor"}
         /\ request[q].tok = t /\ request[q].new = n

\* No rotation is going to insert the row t.
Settled(t) == t <= used /\ \A r \in Requests : request[r].pc \in Drawing => request[r].new # t

\* Until a rollback changes its row, a token has one successor, which its row
\* names while there is one, and the row is inserted only once.
ChainInv ==
    \A t \in Jti \ h.torn :
        /\ db.rows[t] # NoRow => Settled(t)
        /\ \A n \in Jti : Claimed(t, n) =>
             /\ Settled(t)
             /\ db.rows[t] # NoRow => db.rows[t].next = n
             /\ \A m \in Jti : Claimed(t, m) => m = n

\* An active second factor has a secret, an inactive one no used step.
FactorIn(d) ==
    /\ d.secret <= h.drawn
    /\ d.active => d.secret # 0
    /\ ~d.active => d.last = -1

FactorReq(x) == x.secret <= h.drawn /\ (x.pc = "use" => x.secret # 0)

\* The steps accepted for the enrolled secret are at most the recorded one.
FactorInv ==
    /\ ~h.twice
    /\ FactorIn(db) /\ (saved # NoTxn => FactorIn(saved))
    /\ \A r \in Requests : FactorReq(request[r])
    /\ \A c \in h.taken :
         /\ c.secret # 0 /\ c.secret <= h.drawn
         /\ c.secret = db.secret => c.step <= db.last

SessionsInv == Types /\ Rotating /\ Stored /\ EndInv /\ ChainInv /\ FactorInv

(***************************************************************************)
(* What the statements of the auth store do to the database.               *)
(***************************************************************************)

\* Rows of e are rows of d, with the same credential and successor, and one
\* that was revoked stays so: what prune, revoke and delete statements do.
Fades(d, e) ==
    \A j \in Jti :
        \/ e.rows[j] = NoRow
        \/ /\ d.rows[j] # NoRow
           /\ e.rows[j].app = d.rows[j].app /\ e.rows[j].next = d.rows[j].next
           /\ d.rows[j].revoked => e.rows[j].revoked

SameFactor(d, e) == e.secret = d.secret /\ e.active = d.active /\ e.last = d.last

\* Pruning removes rows and nothing else.
LEMMA PrunedFades ==
    ASSUME NEW d \in Dbs
    PROVE  /\ Pruned(d) \in Dbs /\ Fades(d, Pruned(d)) /\ SameFactor(d, Pruned(d))
           /\ \A j \in Jti : Pruned(d).rows[j] = NoRow \/ Pruned(d).rows[j] = d.rows[j]
  BY DEF Pruned, Dbs, Fades, SameFactor

\* Inserting a row sets that row and nothing else.
LEMMA PersistedRow ==
    ASSUME NEW d \in Dbs, NEW j \in Jti, NEW exp \in Int, NEW app \in Creds
    PROVE  /\ Persisted(d, j, exp, app) \in Dbs
           /\ SameFactor(d, Persisted(d, j, exp, app))
           /\ Persisted(d, j, exp, app).rows[j].app = app
           /\ \A k \in Jti : k # j => Persisted(d, j, exp, app).rows[k] = d.rows[k]
<1> DEFINE row == [exp |-> exp, next |-> 0, grace |-> 0, revoked |-> FALSE, app |-> app]
<1>1. row \in Rows
  BY SessionAssumption DEF Rows, Creds
<1>2. Persisted(d, j, exp, app) = [d EXCEPT !.rows = [d.rows EXCEPT ![j] = row]]
  BY DEF Persisted, Dbs
<1>0. row.app = app
  OBVIOUS
<1> HIDE DEF row
<1>3. /\ Persisted(d, j, exp, app) \in Dbs /\ SameFactor(d, Persisted(d, j, exp, app))
      /\ Persisted(d, j, exp, app).rows = [d.rows EXCEPT ![j] = row]
      /\ d.rows \in [Jti -> Rows \union {NoRow}]
  BY <1>1, <1>2 DEF Dbs, SameFactor
<1>4. Persisted(d, j, exp, app).rows[j].app = app
  BY <1>0, <1>3
<1>5. \A k \in Jti : k # j => Persisted(d, j, exp, app).rows[k] = d.rows[k]
  BY <1>3
<1> QED  BY <1>3, <1>4, <1>5

\* Revoking a token revokes its row, if there is one, and nothing else.
LEMMA RevokedFades ==
    ASSUME NEW d \in Dbs, NEW t \in Jti
    PROVE  /\ Revoked(d, t) \in Dbs /\ Fades(d, Revoked(d, t)) /\ SameFactor(d, Revoked(d, t))
           /\ ~Live(Revoked(d, t), t)
<1> DEFINE row == [d.rows[t] EXCEPT !.revoked = TRUE]
<1>1. CASE d.rows[t] = NoRow
  BY <1>1 DEF Revoked, Fades, SameFactor, Live
<1>2. CASE d.rows[t] # NoRow
  <2>1. d.rows[t] \in Rows /\ d.rows \in [Jti -> Rows \union {NoRow}]
    BY <1>2 DEF Dbs
  <2>2. row \in Rows /\ row.revoked /\ row.app = d.rows[t].app /\ row.next = d.rows[t].next
    BY <2>1 DEF Rows
  <2>3. Revoked(d, t) = [d EXCEPT !.rows = [d.rows EXCEPT ![t] = row]]
    BY <1>2 DEF Revoked, Dbs
  <2> HIDE DEF row
  <2>4. /\ Revoked(d, t) \in Dbs /\ Revoked(d, t).rows = [d.rows EXCEPT ![t] = row]
        /\ SameFactor(d, Revoked(d, t))
    BY <2>1, <2>2, <2>3 DEF Dbs, SameFactor
  <2> QED  BY <1>2, <2>1, <2>2, <2>4 DEF Fades, Live
<1> QED  BY <1>1, <1>2

\* What a rollback records.
LEMMA RolledHistory ==
    ASSUME h \in Hists
    PROVE  /\ RolledBack(h) \in Hists
           /\ RolledBack(h).undone = h.undone \union Undone
           /\ RolledBack(h).torn = h.torn \union Torn
           /\ RolledBack(h).taken =
                {c \in h.taken : c.secret # saved.secret \/ c.step <= saved.last}
           /\ RolledBack(h).gone = h.gone /\ RolledBack(h).late = h.late
           /\ RolledBack(h).cred = h.cred /\ RolledBack(h).succ = h.succ
           /\ RolledBack(h).drawn = h.drawn /\ RolledBack(h).twice = h.twice
<1>1. Undone \subseteq Jti /\ Torn \subseteq Jti
  BY DEF Undone, Torn
<1> QED  BY <1>1 DEF RolledBack, Hists

(***************************************************************************)
(* Steps that end rows, or requests, and start no rotation.                *)
(***************************************************************************)

RowsInv == Rotating /\ Stored /\ EndInv /\ ChainInv

\* A request goes on as it is, or to a step that holds no successor.
Calms ==
    \A q \in Requests :
        \/ request'[q] = request[q]
        \/ /\ request'[q].pc \notin Holding
           /\ request'[q].pc \in Presenting => request'[q].tok \in Jti

\* What the history says of rows is unchanged.
HistKept ==
    /\ h'.gone = h.gone /\ h'.late = h.late /\ h'.undone = h.undone
    /\ h'.torn = h.torn /\ h'.cred = h.cred /\ h'.succ = h.succ

SavedMoves == saved' = saved \/ saved' = db \/ saved' = NoTxn

\* Rotations that go on are those that were there.
LEMMA CalmRotating ==
    ASSUME Rotating, Calms, h'.cred = h.cred, used' = used
    PROVE  Rotating'
  BY DEF Rotating, Calms, Flying, Holding, Drawing

\* So are claims on successors, and nothing settled is unsettled.
LEMMA CalmClaims ==
    ASSUME Calms, h'.succ = h.succ, used' = used, NEW t \in Jti
    PROVE  (\A n \in Jti : Claimed(t, n)' => Claimed(t, n)) /\ (Settled(t) => Settled(t)')
<1>1. \A n \in Jti : Claimed(t, n)' => Claimed(t, n)
  BY DEF Claimed, Calms, Holding, Flying, Drawing
<1>2. Settled(t) => Settled(t)'
  BY DEF Settled, Calms, Holding, Flying
<1> QED  BY <1>1, <1>2

\* Rows that fade keep the chain's invariant.
LEMMA CalmChain ==
    ASSUME ChainInv, Calms, h'.succ = h.succ, h'.torn = h.torn, used' = used, Fades(db, db')
    PROVE  ChainInv'
<1> SUFFICES ASSUME NEW t \in Jti \ h.torn
             PROVE  /\ db'.rows[t] # NoRow => Settled(t)'
                    /\ \A n \in Jti : Claimed(t, n)' =>
                         /\ Settled(t)'
                         /\ db'.rows[t] # NoRow => db'.rows[t].next = n
                         /\ \A m \in Jti : Claimed(t, m)' => m = n
  BY DEF ChainInv
<1>1. (\A n \in Jti : Claimed(t, n)' => Claimed(t, n)) /\ (Settled(t) => Settled(t)')
  BY CalmClaims
<1> QED  BY <1>1 DEF ChainInv, Fades

\* Rows that fade name the credentials they named.
LEMMA CalmStored ==
    ASSUME Stored, Fades(db, db'), SavedMoves, h'.cred = h.cred, used' = used
    PROVE  Stored'
  BY DEF Stored, StoredIn, Fades, SavedMoves

\* Steps that only let rows fade and requests go on.
LEMMA QuietStep ==
    ASSUME Types, RowsInv, Calms, HistKept, used' = used, SavedMoves, Fades(db, db')
    PROVE  RowsInv'
<1>1. Rotating' /\ ChainInv' /\ Stored'
  BY CalmRotating, CalmChain, CalmStored DEF RowsInv, HistKept
<1>2. EndInv'
  <2>1. SessionsStayEnded'
    BY DEF Types, Hists, RowsInv, EndInv, SessionsStayEnded, Live, Fades, HistKept
  <2> QED  BY <2>1 DEF RowsInv, EndInv, Calms, HistKept, Holding
<1> QED  BY <1>1, <1>2 DEF RowsInv

\* A rollback: the rows it changes are recorded as torn, and those whose
\* liveness it changes as undone.
LEMMA RollbackStep ==
    ASSUME Types, RowsInv, Calms, used' = used, saved # NoTxn, saved' = NoTxn,
           db'.rows = saved.rows, h' = RolledBack(h)
    PROVE  RowsInv'
<1>1. h \in Hists
  BY DEF Types
<1>2. Rotating'
  BY <1>1, RolledHistory, CalmRotating DEF RowsInv
<1>3. Stored'
  BY <1>1, RolledHistory DEF RowsInv, Stored, StoredIn
<1>4. EndInv'
  <2>1. \A j \in Jti \ Undone : Live(saved, j) = Live(db, j)
    BY DEF Undone
  <2>2. h'.gone \subseteq Jti
    BY <1>1, RolledHistory DEF Hists
  <2>3. SessionsStayEnded'
    BY <1>1, <2>1, <2>2, RolledHistory DEF RowsInv, EndInv, SessionsStayEnded, Live
  <2> QED  BY <1>1, <2>3, RolledHistory DEF RowsInv, EndInv, Calms, Holding, Flying
<1>5. ChainInv'
  <2> SUFFICES ASSUME NEW t \in Jti, t \notin h.torn, t \notin Torn
               PROVE  /\ db'.rows[t] # NoRow => Settled(t)'
                      /\ \A n \in Jti : Claimed(t, n)' =>
                           /\ Settled(t)'
                           /\ db'.rows[t] # NoRow => db'.rows[t].next = n
                           /\ \A m \in Jti : Claimed(t, m)' => m = n
    BY <1>1, RolledHistory DEF ChainInv
  <2>1. db'.rows[t] = db.rows[t]
    BY DEF Torn
  <2>2. (\A n \in Jti : Claimed(t, n)' => Claimed(t, n)) /\ (Settled(t) => Settled(t)')
    BY <1>1, RolledHistory, CalmClaims
  <2> QED  BY <2>1, <2>2 DEF RowsInv, ChainInv
<1> QED  BY <1>2, <1>3, <1>4, <1>5 DEF RowsInv

\* Ending sessions: those that are ended have no live row left, and a
\* successor that is still in flight is late.
LEMMA EndStep ==
    ASSUME Types, RowsInv, Calms, used' = used, saved' = saved, Fades(db, db'),
           NEW js \in SUBSET (1..used), \A j \in js : ~Live(db', j), Ended(js)
    PROVE  RowsInv'
<1>1. /\ h'.gone = h.gone \union js /\ h'.late = h.late \union (js \cap InFlight)
      /\ h'.undone = h.undone /\ h'.torn = h.torn /\ h'.cred = h.cred /\ h'.succ = h.succ
  BY DEF Types, Hists, Ended
<1>2. Rotating' /\ ChainInv' /\ Stored'
  BY <1>1, CalmRotating, CalmChain, CalmStored DEF RowsInv, SavedMoves
<1>3. \A j \in h'.gone : j <= used'
  <2>1. \A j \in js : j <= used
    BY DEF Types
  <2> QED  BY <1>1, <2>1 DEF RowsInv, EndInv
<1>4. ASSUME NEW r \in Requests, request'[r].pc \in Flying, request'[r].new \in h'.gone
      PROVE  request'[r].new \in h'.late
  <2>1. request'[r] = request[r]
    BY <1>4 DEF Calms, Holding
  <2>2. request[r].new \in InFlight
    BY <1>4, <2>1 DEF InFlight, Flying, Drawing
  <2> QED  BY <1>1, <1>4, <2>1, <2>2 DEF RowsInv, EndInv
<1>5. SessionsStayEnded'
  <2> SUFFICES ASSUME NEW j \in h'.gone \ (h'.late \union h'.undone)
               PROVE  ~Live(db', j)
    BY DEF SessionsStayEnded, Live
  <2>1. CASE j \in js
    BY <2>1
  <2>2. CASE j \in h.gone
    <3>1. ~Live(db, j) /\ j \in Jti
      BY <1>1, <2>2 DEF RowsInv, EndInv, SessionsStayEnded, Types, Hists
    <3> QED  BY <3>1 DEF Live, Fades
  <2> QED  BY <1>1, <2>1, <2>2
<1> QED  BY <1>2, <1>3, <1>4, <1>5 DEF RowsInv, EndInv

(***************************************************************************)
(* Steps that draw an identifier, and the steps of a rotation.             *)
(***************************************************************************)

\* The next identifier has no row, no session, no rotation and no claim.
LEMMA FreshId ==
    ASSUME Types, RowsInv, used < MaxJti
    PROVE  /\ used + 1 \in Jti
           /\ \A j \in Jti : j <= used => j # used + 1
           /\ db.rows[used + 1] = NoRow /\ (saved # NoTxn => saved.rows[used + 1] = NoRow)
           /\ used + 1 \notin h.gone /\ ~Settled(used + 1)
           /\ \A q \in Requests : request[q].pc \in Flying => request[q].new # used + 1
<1>1. used \in Nat /\ used + 1 \in Jti /\ ~(used + 1 <= used)
  BY SessionAssumption DEF Types, Jti
<1>2. db.rows[used + 1] = NoRow /\ (saved # NoTxn => saved.rows[used + 1] = NoRow)
  BY <1>1 DEF RowsInv, Stored, StoredIn
<1>3. used + 1 \notin h.gone /\ ~Settled(used + 1)
  BY <1>1 DEF RowsInv, EndInv, Settled
<1>4. \A q \in Requests : request[q].pc \in Flying => request[q].new # used + 1
  BY <1>1 DEF RowsInv, Rotating
<1>5. \A j \in Jti : j <= used => j # used + 1
  BY <1>1
<1> QED  BY <1>1, <1>2, <1>3, <1>4, <1>5

\* What the history says of rows is unchanged, but for the credential of the
\* identifier drawn.
Draws(c) ==
    /\ used < MaxJti /\ used' = used + 1 /\ saved' = saved
    /\ h'.gone = h.gone /\ h'.late = h.late /\ h'.undone = h.undone
    /\ h'.torn = h.torn /\ h'.succ = h.succ
    /\ h'.cred = [h.cred EXCEPT ![used + 1] = c]

\* Rows that were stored keep their credential when an identifier is drawn.
LEMMA DrawStored ==
    ASSUME Types, RowsInv, NEW c \in Creds, Draws(c),
           NEW d, StoredIn(d), NEW e, e.rows[used + 1] = NoRow \/ e.rows[used + 1].app = c,
           \A j \in Jti : j # used + 1 => \/ e.rows[j] = NoRow
                                          \/ d.rows[j] # NoRow /\ e.rows[j].app = d.rows[j].app
    PROVE  \A j \in Jti : e.rows[j] # NoRow => (j <= used' /\ e.rows[j].app = h'.cred[j])
<1> SUFFICES ASSUME NEW j \in Jti, e.rows[j] # NoRow
             PROVE  j <= used' /\ e.rows[j].app = h'.cred[j]
  OBVIOUS
<1>1. used \in Nat /\ h.cred \in [Jti -> Creds]
  BY DEF Types, Hists
<1>2. CASE j = used + 1
  BY <1>1, <1>2 DEF Draws
<1>3. CASE j # used + 1
  BY <1>1, <1>3 DEF Draws, StoredIn, Jti
<1> QED  BY <1>2, <1>3

\* Creating a session.
LEMMA CreateStep ==
    ASSUME Types, RowsInv, NEW c \in Creds, Draws(c), Calms,
           db'.rows[used + 1] = NoRow \/ db'.rows[used + 1].app = c,
           \A j \in Jti : j # used + 1 =>
               \/ db'.rows[j] = NoRow
               \/ db'.rows[j] = db.rows[j]
    PROVE  RowsInv'
<1>1. used \in Nat /\ h.cred \in [Jti -> Creds] /\ h.gone \subseteq Jti
  BY DEF Types, Hists
<1>2. /\ used < MaxJti /\ used' = used + 1 /\ saved' = saved /\ h'.gone = h.gone
      /\ h'.late = h.late /\ h'.undone = h.undone /\ h'.torn = h.torn /\ h'.succ = h.succ
      /\ h'.cred = [h.cred EXCEPT ![used + 1] = c]
  BY DEF Draws
<1>3. \A j \in Jti : j <= used => (j <= used' /\ h'.cred[j] = h.cred[j])
  BY <1>1, <1>2 DEF Jti
<1>4. Rotating'
  BY <1>3 DEF RowsInv, Rotating, Calms, Holding
<1>5. Stored'
  <2>1. \A j \in Jti : j # used + 1 =>
            \/ db'.rows[j] = NoRow
            \/ db.rows[j] # NoRow /\ db'.rows[j].app = db.rows[j].app
    OBVIOUS
  <2>2. StoredIn(db)'
    BY <2>1, DrawStored DEF RowsInv, Stored, StoredIn
  <2>3. saved # NoTxn => \A j \in Jti : saved.rows[j] # NoRow => (j <= used' /\ saved.rows[j].app = h'.cred[j])
    BY <1>3 DEF RowsInv, Stored, StoredIn
  <2> QED  BY <1>2, <2>2, <2>3 DEF Stored, StoredIn
<1>6. EndInv'
  <2>1. SessionsStayEnded'
    BY <1>1, <1>2, FreshId DEF RowsInv, EndInv, SessionsStayEnded, Live
  <2>2. \A j \in h'.gone : j <= used'
    BY <1>1, <1>2 DEF RowsInv, EndInv, Jti
  <2> QED  BY <1>2, <2>1, <2>2 DEF RowsInv, EndInv, Calms, Holding
<1>7. ChainInv'
  <2> SUFFICES ASSUME NEW t \in Jti, t \notin h.torn
               PROVE  /\ db'.rows[t] # NoRow => Settled(t)'
                      /\ \A n \in Jti : Claimed(t, n)' =>
                           /\ Settled(t)'
                           /\ db'.rows[t] # NoRow => db'.rows[t].next = n
                           /\ \A m \in Jti : Claimed(t, m)' => m = n
    BY <1>2 DEF ChainInv
  <2>1. \A n \in Jti : Claimed(t, n)' => Claimed(t, n)
    BY <1>2 DEF Claimed, Calms, Holding, Flying, Drawing
  <2>2. Settled(t) => Settled(t)'
    BY <1>1, <1>2 DEF Settled, Calms, Holding, Flying, Jti
  <2>3. CASE t = used + 1
    <3>1. \A n \in Jti : ~Claimed(t, n)
      BY <1>2, <2>3, FreshId DEF RowsInv, ChainInv
    <3>2. Settled(t)'
      BY <1>1, <1>2, <2>3, FreshId DEF Settled, Calms, Holding, Flying
    <3> QED  BY <2>1, <3>1, <3>2
  <2>4. CASE t # used + 1
    BY <2>1, <2>2, <2>4 DEF RowsInv, ChainInv
  <2> QED  BY <2>3, <2>4
<1> QED  BY <1>4, <1>5, <1>6, <1>7 DEF RowsInv

\* A request alone moves on.
Alone(r) == \A q \in Requests : q # r => request'[q] = request[q]

\* A rotation that draws its successor.
LEMMA DrawStep ==
    ASSUME Types, RowsInv, NEW c \in Creds, Draws(c), NEW r \in Requests, Alone(r),
           request'[r].pc = "begin", request'[r].new = used + 1, request'[r].cred = c,
           request'[r].tok \in Jti, Fades(db, db')
    PROVE  RowsInv'
<1>1. used \in Nat /\ h.cred \in [Jti -> Creds] /\ h.gone \subseteq Jti /\ used + 1 \in Jti
  BY FreshId DEF Types, Hists, Draws
<1>2. /\ used < MaxJti /\ used' = used + 1 /\ saved' = saved /\ h'.gone = h.gone
      /\ h'.late = h.late /\ h'.undone = h.undone /\ h'.torn = h.torn /\ h'.succ = h.succ
      /\ h'.cred = [h.cred EXCEPT ![used + 1] = c]
  BY DEF Draws
<1>3. \A j \in Jti : j <= used => (j <= used' /\ h'.cred[j] = h.cred[j])
  BY <1>1, <1>2 DEF Jti
<1>4. h'.cred[used + 1] = c /\ used + 1 <= used'
  BY <1>1, <1>2
<1>5. Rotating'
  <2>1. \A q \in Requests :
          /\ request'[q].pc \in Presenting => request'[q].tok \in Jti
          /\ request'[q].pc \in Holding => request'[q].new \in Jti
          /\ request'[q].pc \in Flying =>
               /\ request'[q].new <= used'
               /\ request'[q].cred = h'.cred[request'[q].new]
    BY <1>1, <1>3, <1>4 DEF RowsInv, Rotating, Alone, Holding
  <2>2. \A p, q \in Requests :
         (p # q /\ request'[p].pc \in Flying /\ request'[q].pc \in Flying)
            => request'[p].new # request'[q].new
    BY <1>2, FreshId DEF RowsInv, Rotating, Alone
  <2> QED  BY <2>1, <2>2 DEF Rotating
<1>6. Stored'
  <2>1. db'.rows[used + 1] = NoRow
    BY <1>2, FreshId DEF Fades
  <2>2. StoredIn(db)'
    BY <2>1, DrawStored DEF RowsInv, Stored, StoredIn, Fades
  <2>3. saved # NoTxn => \A j \in Jti : saved.rows[j] # NoRow => (j <= used' /\ saved.rows[j].app = h'.cred[j])
    BY <1>3 DEF RowsInv, Stored, StoredIn
  <2> QED  BY <1>2, <2>2, <2>3 DEF Stored, StoredIn
<1>7. EndInv'
  <2>1. SessionsStayEnded'
    BY <1>1, <1>2 DEF RowsInv, EndInv, SessionsStayEnded, Live, Fades
  <2>2. \A j \in h'.gone : j <= used'
    BY <1>1, <1>2 DEF RowsInv, EndInv, Jti
  <2> QED  BY <1>2, <2>1, <2>2, FreshId DEF RowsInv, EndInv, Alone
<1>8. ChainInv'
  <2> SUFFICES ASSUME NEW t \in Jti, t \notin h.torn
               PROVE  /\ db'.rows[t] # NoRow => Settled(t)'
                      /\ \A n \in Jti : Claimed(t, n)' =>
                           /\ Settled(t)'
                           /\ db'.rows[t] # NoRow => db'.rows[t].next = n
                           /\ \A m \in Jti : Claimed(t, m)' => m = n
    BY <1>2 DEF ChainInv
  <2>1. \A n \in Jti : Claimed(t, n)' => Claimed(t, n)
    BY <1>2 DEF Claimed, Alone
  <2>2. Settled(t) => Settled(t)'
    BY <1>1, <1>2, FreshId DEF Settled, Alone, Jti
  <2> QED  BY <2>1, <2>2 DEF RowsInv, ChainInv, Fades
<1> QED  BY <1>5, <1>6, <1>7, <1>8 DEF RowsInv

\* The conjuncts of ChainInv for the token t, after the step.
ChainAfter(t) ==
    /\ db'.rows[t] # NoRow => Settled(t)'
    /\ \A n \in Jti : Claimed(t, n)' =>
         /\ Settled(t)'
         /\ db'.rows[t] # NoRow => db'.rows[t].next = n
         /\ \A m \in Jti : Claimed(t, m)' => m = n

\* A replay that finds its token's successor in the row.
LEMMA FoundStep ==
    ASSUME Types, RowsInv, HistKept, used' = used, saved' = saved, Fades(db, db'),
           NEW r \in Requests, Alone(r), NEW t \in Jti, NEW n \in Jti,
           request'[r].pc = "successor", request'[r].tok = t, request'[r].new = n,
           db'.rows[t] # NoRow, db'.rows[t].next = n
    PROVE  RowsInv'
<1>1. Rotating'
  BY DEF RowsInv, Rotating, Alone, HistKept, Flying, Drawing
<1>2. Stored'
  BY CalmStored DEF RowsInv, HistKept, SavedMoves
<1>3. EndInv'
  <2>1. SessionsStayEnded'
    BY DEF Types, Hists, RowsInv, EndInv, SessionsStayEnded, Live, Fades, HistKept
  <2> QED  BY <2>1 DEF RowsInv, EndInv, Alone, HistKept, Flying, Drawing
<1>4. ASSUME NEW u \in Jti, u \notin h.torn
      PROVE  ChainAfter(u)
  <2>1. Settled(u) => Settled(u)'
    BY DEF Settled, Alone, Drawing
  <2>2. \A m \in Jti : Claimed(u, m)' => Claimed(u, m) \/ (u = t /\ m = n)
    BY DEF Claimed, Alone, HistKept
  <2>3. db'.rows[u] # NoRow => db.rows[u] # NoRow /\ db'.rows[u].next = db.rows[u].next
    BY DEF Fades
  <2> QED  BY <1>4, <2>1, <2>2, <2>3 DEF RowsInv, ChainInv, ChainAfter
<1>5. ChainInv'
  BY <1>4 DEF ChainInv, ChainAfter, HistKept
<1> QED  BY <1>1, <1>2, <1>3, <1>5 DEF RowsInv

\* What a rotation knows, it keeps.
Keeps(r) ==
    /\ request'[r].tok = request[r].tok /\ request'[r].new = request[r].new
    /\ request'[r].cred = request[r].cred

\* A rotation that goes on keeps its successor to itself.
LEMMA KeepRotating ==
    ASSUME RowsInv, used' = used, h'.cred = h.cred, NEW r \in Requests, Alone(r), Keeps(r),
           request[r].pc \in Flying, request'[r].pc \in Flying
    PROVE  Rotating'
  BY DEF RowsInv, Rotating, Alone, Keeps, Holding, Presenting

\* BEGIN: the copy that a rollback would restore is the database.
LEMMA BeginStep ==
    ASSUME Types, RowsInv, HistKept, used' = used, saved' = db, db' = db,
           NEW r \in Requests, Alone(r), Keeps(r),
           request[r].pc = "begin", request'[r].pc = "update"
    PROVE  RowsInv'
<1>1. Rotating'
  BY KeepRotating DEF HistKept, Flying, Drawing
<1>2. Stored'
  BY DEF RowsInv, Stored, StoredIn, HistKept
<1>3. EndInv'
  BY DEF RowsInv, EndInv, SessionsStayEnded, Live, Alone, Keeps, HistKept, Flying, Drawing
<1>4. ASSUME NEW u \in Jti, u \notin h.torn
      PROVE  ChainAfter(u)
  <2>1. Settled(u) => Settled(u)'
    BY DEF Settled, Alone, Drawing, Keeps
  <2>2. \A m \in Jti : Claimed(u, m)' => Claimed(u, m)
    BY DEF Claimed, Alone, HistKept
  <2> QED  BY <1>4, <2>1, <2>2 DEF RowsInv, ChainInv, ChainAfter
<1>5. ChainInv'
  BY <1>4 DEF ChainInv, ChainAfter, HistKept
<1> QED  BY <1>1, <1>2, <1>3, <1>5 DEF RowsInv

\* UPDATE: a token without a successor gets one, and nobody has claimed
\* another.
LEMMA UpdateStep ==
    ASSUME Types, RowsInv, HistKept, used' = used, saved' = saved,
           NEW r \in Requests, Alone(r), Keeps(r),
           request[r].pc = "update", request'[r].pc = "insert",
           NEW t \in Jti, request[r].tok = t, db.rows[t] # NoRow, db.rows[t].next = 0,
           db'.rows[t] # NoRow => db'.rows[t].next = request[r].new,
           db'.rows[t].app = db.rows[t].app, db'.rows[t].revoked = db.rows[t].revoked,
           \A k \in Jti : k # t => db'.rows[k] = db.rows[k]
    PROVE  RowsInv'
<1>1. Rotating'
  BY KeepRotating DEF HistKept, Flying, Drawing
<1>2. Stored'
  BY DEF RowsInv, Stored, StoredIn, HistKept
<1>3. EndInv'
  <2>1. SessionsStayEnded'
    BY DEF Types, Hists, RowsInv, EndInv, SessionsStayEnded, Live, HistKept
  <2> QED  BY <2>1 DEF RowsInv, EndInv, Alone, Keeps, HistKept, Flying, Drawing
<1>4. ASSUME NEW u \in Jti, u \notin h.torn
      PROVE  ChainAfter(u)
  <2>1. Settled(u) => Settled(u)'
    BY DEF Settled, Alone, Drawing, Keeps
  <2>2. CASE u # t
    <3>1. \A m \in Jti : Claimed(u, m)' => Claimed(u, m)
      BY <2>2 DEF Claimed, Alone, HistKept, Keeps
    <3> QED  BY <1>4, <2>1, <2>2, <3>1 DEF RowsInv, ChainInv, ChainAfter
  <2>3. CASE u = t
    <3>1. \A m \in Jti : ~Claimed(u, m)
      BY <1>4, <2>3, SessionAssumption DEF RowsInv, ChainInv, Jti
    <3>2. \A m \in Jti : Claimed(u, m)' => m = request[r].new
      BY <3>1 DEF Claimed, Alone, HistKept, Keeps
    <3>3. Settled(u)
      BY <1>4, <2>3 DEF RowsInv, ChainInv
    <3> QED  BY <2>1, <2>3, <3>2, <3>3 DEF ChainAfter
  <2> QED  BY <2>2, <2>3
<1>5. ChainInv'
  BY <1>4 DEF ChainInv, ChainAfter, HistKept
<1> QED  BY <1>1, <1>2, <1>3, <1>5 DEF RowsInv

\* INSERT: the row of a successor that was drawn and never inserted.  It may
\* live although its session has ended only when it is late.
LEMMA InsertStep ==
    ASSUME Types, RowsInv, HistKept, used' = used, saved' = saved,
           NEW r \in Requests, Alone(r), Keeps(r),
           request[r].pc = "insert", request'[r].pc = "commit",
           NEW n \in Jti, request[r].new = n, db'.rows[n].app = request[r].cred,
           \A k \in Jti : k # n => db'.rows[k] = db.rows[k]
    PROVE  RowsInv'
<1>1. Rotating'
  BY KeepRotating DEF HistKept, Flying, Drawing
<1>2. n <= used /\ request[r].cred = h.cred[n] /\ (n \in h.gone => n \in h.late)
  BY DEF RowsInv, Rotating, EndInv, Flying, Drawing
<1>3. Stored'
  BY <1>2 DEF RowsInv, Stored, StoredIn, HistKept
<1>4. EndInv'
  <2>1. SessionsStayEnded'
    BY <1>2 DEF Types, Hists, RowsInv, EndInv, SessionsStayEnded, Live, HistKept
  <2> QED  BY <2>1 DEF RowsInv, EndInv, Alone, Keeps, HistKept, Flying, Drawing
<1>5. ASSUME NEW u \in Jti, u \notin h.torn
      PROVE  ChainAfter(u)
  <2>1. Settled(u) => Settled(u)'
    BY DEF Settled, Alone, Drawing, Keeps
  <2>2. \A m \in Jti : Claimed(u, m)' => Claimed(u, m)
    BY DEF Claimed, Alone, HistKept, Keeps
  <2>3. CASE u # n
    BY <1>5, <2>1, <2>2, <2>3 DEF RowsInv, ChainInv, ChainAfter
  <2>4. CASE u = n
    <3>1. ~Settled(u)
      BY <2>4 DEF Settled, Drawing
    <3>2. \A m \in Jti : ~Claimed(u, m)
      BY <1>5, <3>1 DEF RowsInv, ChainInv
    <3>3. Settled(u)'
      BY <1>2, <2>4 DEF RowsInv, Rotating, Settled, Alone, Flying, Drawing
    <3> QED  BY <2>2, <3>2, <3>3 DEF ChainAfter
  <2> QED  BY <2>3, <2>4
<1>6. ChainInv'
  BY <1>5 DEF ChainInv, ChainAfter, HistKept
<1> QED  BY <1>1, <1>3, <1>4, <1>6 DEF RowsInv

\* A refresh that returns the successor it holds.
LEMMA AnswerStep ==
    ASSUME Types, RowsInv, used' = used, saved' = saved \/ saved' = NoTxn, db' = db,
           NEW r \in Requests, Alone(r),
           request[r].pc \in {"commit", "successor"}, request'[r].pc = "ok",
           h' = [h EXCEPT !.succ[request[r].tok] = @ \union {request[r].new}]
    PROVE  RowsInv'
<1>1. /\ h'.gone = h.gone /\ h'.late = h.late /\ h'.undone = h.undone /\ h'.torn = h.torn
      /\ h'.cred = h.cred
      /\ h'.succ = [h.succ EXCEPT ![request[r].tok] = @ \union {request[r].new}]
      /\ h.succ \in [Jti -> SUBSET Jti]
  BY DEF Types, Hists
<1>2. Calms
  BY DEF Calms, Alone, Presenting, Holding, Flying, Drawing
<1>3. Rotating' /\ Stored'
  BY <1>1, <1>2, CalmRotating DEF RowsInv, Stored, StoredIn
<1>4. EndInv'
  BY <1>1, <1>2 DEF RowsInv, EndInv, SessionsStayEnded, Live, Calms, Holding
<1>5. ASSUME NEW u \in Jti, u \notin h.torn
      PROVE  ChainAfter(u)
  <2>1. Settled(u) => Settled(u)'
    BY <1>2 DEF Settled, Calms, Holding, Flying
  <2>2. \A m \in Jti : Claimed(u, m)' => Claimed(u, m)
    BY <1>1 DEF Claimed, Alone
  <2> QED  BY <1>5, <2>1, <2>2 DEF RowsInv, ChainInv, ChainAfter
<1>6. ChainInv'
  BY <1>1, <1>5 DEF ChainInv, ChainAfter
<1> QED  BY <1>3, <1>4, <1>6 DEF RowsInv

(***************************************************************************)
(* The second factor, and what a request does to its own record.           *)
(***************************************************************************)

\* Steps that leave the factor alone.
LEMMA FactorQuiet ==
    ASSUME FactorInv, SameFactor(db, db'), SavedMoves,
           h'.taken = h.taken, h'.drawn = h.drawn, h'.twice = h.twice,
           \A q \in Requests : FactorReq(request'[q])
    PROVE  FactorInv'
  BY DEF FactorInv, FactorIn, FactorReq, SameFactor, SavedMoves

\* A rollback forgets the steps that the restored row does not cover.
LEMMA FactorRollback ==
    ASSUME Types, FactorInv, saved # NoTxn, SameFactor(saved, db'), saved' = NoTxn,
           h' = RolledBack(h), \A q \in Requests : FactorReq(request'[q])
    PROVE  FactorInv'
<1>1. /\ h'.drawn = h.drawn /\ h'.twice = h.twice
      /\ h'.taken = {c \in h.taken : c.secret # saved.secret \/ c.step <= saved.last}
  BY RolledHistory DEF Types
<1>2. FactorIn(db)'
  BY <1>1 DEF FactorInv, FactorIn, SameFactor
<1> QED  BY <1>1, <1>2 DEF FactorInv, FactorReq, SameFactor

\* Moving on to pc changes nothing else of the request.
LEMMA GoMoves ==
    ASSUME request \in [Requests -> Reqs], NEW r \in Requests, NEW pc \in Pcs, Go(r, pc)
    PROVE  /\ request' \in [Requests -> Reqs] /\ Alone(r) /\ Keeps(r)
           /\ request'[r].pc = pc /\ request'[r].secret = request[r].secret
  BY DEF Go, Alone, Keeps, Reqs

\* A request that ends leaves an idle thread.
LEMMA ReturnMoves ==
    ASSUME request \in [Requests -> Reqs], NEW r \in Requests, Return(r)
    PROVE  /\ request' \in [Requests -> Reqs] /\ Alone(r)
           /\ request'[r] = Idle /\ Idle \in Reqs /\ Idle.pc = "idle" /\ Idle.secret = 0
<1>1. Idle \in Reqs /\ Idle.pc = "idle" /\ Idle.secret = 0
  <2>1. 0 \in 0..MaxJti /\ 0 \in 0..MaxSecrets /\ Primary \in Creds /\ "idle" \in Later \cap Pcs
    BY SessionAssumption DEF Creds, Later, Pcs
  <2> QED  BY <2>1 DEF Idle, Reqs
<1> QED  BY <1>1 DEF Return, Alone

\* Any other change of a request's record.
LEMMA RecordMoves ==
    ASSUME request \in [Requests -> Reqs], NEW r \in Requests, NEW x \in Reqs,
           request' = [request EXCEPT ![r] = x]
    PROVE  request' \in [Requests -> Reqs] /\ Alone(r) /\ request'[r] = x
  BY DEF Alone

\* A database fades into itself.
LEMMA FadesSelf == \A d : Fades(d, d) /\ SameFactor(d, d)
  BY DEF Fades, SameFactor

\* The steps that disturb neither rotations nor the factor: the request moves
\* on and rows fade at most.
LEMMA CalmStep ==
    ASSUME SessionsInv, NEW r \in Requests, Types', Alone(r),
           request'[r].pc \notin Holding,
           request'[r].pc \in Presenting => request'[r].tok \in Jti,
           FactorReq(request'[r]), used' = used, SavedMoves, h' = h,
           Fades(db, db'), SameFactor(db, db')
    PROVE  SessionsInv'
<1>1. Calms
  BY DEF Calms, Alone
<1>2. RowsInv'
  BY <1>1, QuietStep DEF SessionsInv, RowsInv, HistKept
<1>3. \A q \in Requests : FactorReq(request'[q])
  BY DEF SessionsInv, FactorInv, Alone
<1>4. FactorInv'
  BY <1>3, FactorQuiet DEF SessionsInv
<1> QED  BY <1>2, <1>4 DEF SessionsInv, RowsInv

\* A request that rolls the open transaction back, whoever's it is, and goes
\* on without it.
LEMMA RollbackMoves ==
    ASSUME SessionsInv, NEW r \in Requests, Rollback, Alone(r),
           request' \in [Requests -> Reqs],
           request'[r].pc \notin Holding,
           request'[r].pc \in Presenting => request'[r].tok \in Jti,
           FactorReq(request'[r]),
           UNCHANGED <<apps, down, clock, calls, used, held>>
    PROVE  SessionsInv'
<1>1. CASE saved = NoTxn
  <2>1. Types'
    BY <1>1 DEF SessionsInv, Types, Rollback
  <2> QED  BY <1>1, <2>1, FadesSelf, CalmStep DEF Rollback, SavedMoves
<1>2. CASE saved # NoTxn
  <2>1. db' = saved /\ saved' = NoTxn /\ h' = RolledBack(h)
    BY <1>2 DEF Rollback
  <2>2. Types'
    BY <1>2, <2>1, RolledHistory DEF SessionsInv, Types
  <2>3. Calms
    BY DEF Calms, Alone
  <2>4. RowsInv'
    BY <1>2, <2>1, <2>3, RollbackStep DEF SessionsInv, RowsInv
  <2>5. \A q \in Requests : FactorReq(request'[q])
    BY DEF SessionsInv, FactorInv, Alone
  <2>6. FactorInv'
    BY <1>2, <2>1, <2>5, FactorRollback DEF SessionsInv, SameFactor
  <2> QED  BY <2>2, <2>4, <2>6 DEF SessionsInv, RowsInv
<1> QED  BY <1>1, <1>2

\* A request that only moves on, or ends.
LEMMA GoStep ==
    ASSUME SessionsInv, NEW r \in Requests, NEW pc \in Pcs, Go(r, pc),
           pc \notin Presenting, pc # "use",
           apps' \subseteq Apps, down' \in BOOLEAN, calls' \in Nat,
           UNCHANGED <<db, saved, clock, used, held, h>>
    PROVE  SessionsInv'
<1>1. /\ request' \in [Requests -> Reqs] /\ Alone(r)
      /\ request'[r].pc = pc /\ request'[r].secret = request[r].secret
  BY GoMoves DEF SessionsInv, Types
<1>2. Types'
  BY <1>1 DEF SessionsInv, Types
<1>3. FactorReq(request'[r]) /\ pc \notin Holding
  BY <1>1 DEF SessionsInv, FactorInv, FactorReq, Presenting
<1> QED  BY <1>1, <1>2, <1>3, FadesSelf, CalmStep DEF SavedMoves

\* The same, of a request that ends.
LEMMA ReturnStep ==
    ASSUME SessionsInv, NEW r \in Requests, Return(r),
           UNCHANGED <<apps, down, calls, db, saved, clock, used, held, h>>
    PROVE  SessionsInv'
<1>1. /\ request' \in [Requests -> Reqs] /\ Alone(r)
      /\ request'[r].pc = "idle" /\ request'[r].secret = 0
  BY ReturnMoves DEF SessionsInv, Types
<1>2. Types'
  BY <1>1 DEF SessionsInv, Types
<1>3. FactorReq(request'[r]) /\ request'[r].pc \notin Presenting
  BY <1>1 DEF SessionsInv, Types, Hists, FactorReq, Presenting, Holding, Flying, Drawing
<1> QED  BY <1>1, <1>2, <1>3, FadesSelf, CalmStep DEF SavedMoves, Presenting

(***************************************************************************)
(* Every action preserves the invariant.                                   *)
(***************************************************************************)

\* The requests whose steps name no token.
LEMMA Elsewhere ==
    /\ \A pc \in Pcs \ Presenting : pc \notin Holding
    /\ Pcs \ Presenting = {"idle", "takedown", "factor", "code", "use", "backup", "persist",
         "takendown", "ok", "revoke", "delete_all", "put_pending", "activate",
         "activating", "activated", "disable"}
    /\ Later \subseteq Pcs \ Presenting /\ "use" \notin Later
  BY DEF Pcs, Later, Presenting, Holding, Flying, Drawing

\* A request that starts is counted.
LEMMA CallCounts == ASSUME Types, NEW r, Call(r) PROVE calls' \in Nat
  BY DEF Types, Call

\* createSession up to the code.
LEMMA LoginSteps ==
    ASSUME SessionsInv, NEW r \in Requests,
           \/ valid_login(r) \/ CheckTakedown(r) \/ login_required(r)
           \/ check_login_token(r) \/ consume_backup(r)
    PROVE  SessionsInv'
<1>0. /\ request \in [Requests -> Reqs] /\ calls \in Nat /\ request[r].then \in Later
      /\ request[r].secret <= h.drawn /\ db \in Dbs /\ h.drawn \in Nat /\ clock \in Nat \ {0}
  BY SessionAssumption DEF SessionsInv, Types, Reqs, Hists, FactorInv, FactorReq
<1>1. CASE valid_login(r)
  <2>1. PICK c \in verify_credential :
          request' = [request EXCEPT ![r].pc = "takedown", ![r].cred = c]
    BY <1>1 DEF valid_login
  <2>2. c \in Creds
    BY DEF SessionsInv, Types, verify_credential, Creds
  <2>3. /\ request' \in [Requests -> Reqs] /\ Alone(r)
        /\ request'[r].pc = "takedown" /\ request'[r].secret = request[r].secret
    <3>1. request' = [request EXCEPT ![r] = [request[r] EXCEPT !.pc = "takedown", !.cred = c]]
      BY <1>0, <2>1
    <3>2. "takedown" \in Pcs
      BY DEF Pcs
    <3>3. [request[r] EXCEPT !.pc = "takedown", !.cred = c] \in Reqs
      BY <1>0, <2>2, <3>2 DEF Reqs
    <3> QED  BY <1>0, <3>1, <3>3 DEF Reqs, Alone
  <2>4. Call(r) /\ UNCHANGED <<db, saved, apps, down, clock, used, held, h>>
    BY <1>1 DEF valid_login
  <2>5. Types'
    BY <2>3, <2>4, CallCounts DEF SessionsInv, Types
  <2> QED  BY <1>0, <2>3, <2>4, <2>5, FadesSelf, Elsewhere, CalmStep
             DEF SavedMoves, FactorReq
<1>2. CASE CheckTakedown(r)
  <2>1. CASE Return(r)
    BY <1>2, <2>1, ReturnStep DEF CheckTakedown
  <2>2. ASSUME NEW then \in {"takendown", "persist"},
               request' = [request EXCEPT
                 ![r].pc = IF request[r].cred = Primary THEN "factor" ELSE then,
                 ![r].then = then]
        PROVE  SessionsInv'
    <3>1. PICK pc \in {"factor", then} :
            request' = [request EXCEPT ![r].pc = pc, ![r].then = then]
      BY <2>2
    <3>2. pc \in Pcs \ Presenting /\ pc # "use" /\ then \in Later
      BY <2>2, Elsewhere DEF Later
    <3>3. /\ request' \in [Requests -> Reqs] /\ Alone(r)
          /\ request'[r].pc = pc /\ request'[r].secret = request[r].secret
      <4>1. request' = [request EXCEPT ![r] = [request[r] EXCEPT !.pc = pc, !.then = then]]
        BY <1>0, <3>1
      <4>2. [request[r] EXCEPT !.pc = pc, !.then = then] \in Reqs
        BY <1>0, <3>2 DEF Reqs
      <4> QED  BY <1>0, <4>1, <4>2 DEF Reqs, Alone
    <3>4. Types'
      BY <1>2, <3>3 DEF CheckTakedown, SessionsInv, Types
    <3> QED  BY <1>0, <1>2, <3>2, <3>3, <3>4, FadesSelf, Elsewhere, CalmStep
               DEF CheckTakedown, SavedMoves, FactorReq
  <2> QED  BY <1>2, <2>1, <2>2 DEF CheckTakedown
<1>3. CASE login_required(r)
  <2>1. PICK pc \in {"code", request[r].then} : Go(r, pc)
    BY <1>3 DEF login_required
  <2> QED  BY <1>0, <1>3, <2>1, Elsewhere, GoStep DEF login_required, SessionsInv, Types
<1>4. CASE check_login_token(r)
  <2>1. CASE Return(r)
    BY <1>4, <2>1, ReturnStep DEF check_login_token
  <2>2. CASE check_totp(r)
    <3>1. PICK s \in Matches(db.last) :
            request' = [request EXCEPT ![r].pc = "use", ![r].code = s, ![r].secret = db.secret]
      BY <2>2 DEF check_totp
    <3>2. s \in Nat /\ db.secret \in 0..MaxSecrets /\ db.secret # 0 /\ db.secret <= h.drawn
      BY <1>0, <2>2 DEF check_totp, Matches, Dbs, SessionsInv, FactorInv, FactorIn
    <3>3. /\ request' \in [Requests -> Reqs] /\ Alone(r)
          /\ request'[r].pc = "use" /\ request'[r].secret = db.secret
      <4>1. request' = [request EXCEPT ![r] = [request[r] EXCEPT !.pc = "use", !.code = s,
                                                           !.secret = db.secret]]
        BY <1>0, <3>1
      <4>2. "use" \in Pcs
        BY DEF Pcs
      <4>3. [request[r] EXCEPT !.pc = "use", !.code = s, !.secret = db.secret] \in Reqs
        BY <1>0, <3>2, <4>2 DEF Reqs
      <4> QED  BY <1>0, <4>1, <4>3 DEF Reqs, Alone
    <3>4. Types'
      BY <1>4, <3>3 DEF check_login_token, SessionsInv, Types
    <3> QED  BY <1>4, <3>2, <3>3, <3>4, FadesSelf, Elsewhere, CalmStep
               DEF check_login_token, SavedMoves, FactorReq
  <2>3. CASE check_backup(r)
    BY <1>4, <2>3, Elsewhere, GoStep DEF check_backup, check_login_token, SessionsInv, Types
  <2> QED  BY <1>4, <2>1, <2>2, <2>3 DEF check_login_token
<1>5. CASE consume_backup(r)
  <2>1. PICK b \in BackupCodes :
          IF b \in db.backup
          THEN db' = [db EXCEPT !.backup = @ \ {b}] /\ Go(r, request[r].then)
          ELSE Return(r) /\ UNCHANGED db
    BY <1>5 DEF consume_backup
  <2>2. CASE b \in db.backup
    <3>1. /\ request' \in [Requests -> Reqs] /\ Alone(r)
          /\ request'[r].pc = request[r].then /\ request'[r].secret = request[r].secret
      BY <1>0, <2>1, <2>2, Elsewhere, GoMoves
    <3>2. db' \in Dbs /\ Fades(db, db') /\ SameFactor(db, db')
      BY <1>0, <2>1, <2>2 DEF Dbs, Fades, SameFactor
    <3>3. Types'
      BY <1>5, <3>1, <3>2 DEF consume_backup, SessionsInv, Types
    <3> QED  BY <1>0, <1>5, <3>1, <3>2, <3>3, Elsewhere, CalmStep
               DEF consume_backup, SavedMoves, FactorReq
  <2>3. CASE b \notin db.backup
    BY <1>5, <2>1, <2>3, ReturnStep DEF consume_backup
  <2> QED  BY <2>2, <2>3
<1> QED  BY <1>1, <1>2, <1>3, <1>4, <1>5

\* A step is recorded once for the enrolled secret: the code is later than
\* every step taken for it.
LEMMA UseStep ==
    ASSUME SessionsInv, NEW r \in Requests, totp_use_step(r)
    PROVE  SessionsInv'
<1> DEFINE s == request[r].code
           c == [secret |-> request[r].secret, step |-> s]
<1>0. /\ request \in [Requests -> Reqs] /\ request[r] \in Reqs /\ db \in Dbs /\ h \in Hists
      /\ FactorReq(request[r]) /\ request[r].pc = "use" /\ request[r].then \in Later
  BY DEF SessionsInv, Types, FactorInv, totp_use_step, At, Reqs
<1>1. UNCHANGED <<saved, apps, down, clock, calls, used, held>>
  BY DEF totp_use_step
<1>2. CASE ~(db.active /\ db.last < s)
  <2>1. Return(r) /\ UNCHANGED <<db, h>>
    BY <1>2 DEF totp_use_step
  <2> QED  BY <1>1, <2>1, ReturnStep
<1>3. CASE db.active /\ db.last < s
  <2>1. /\ db' = [db EXCEPT !.last = s]
        /\ h' = [h EXCEPT !.twice = @ \/ (c.secret = db.secret /\ c \in h.taken),
                          !.taken = @ \union {c}]
        /\ Go(r, request[r].then)
    BY <1>3 DEF totp_use_step
  <2>2. /\ s \in Nat /\ c \in [secret : 0..MaxSecrets, step : Nat]
        /\ c.secret = request[r].secret /\ c.step = s
    BY <1>0 DEF Reqs
  <2>3. /\ request' \in [Requests -> Reqs] /\ Alone(r)
        /\ request'[r].pc = request[r].then /\ request'[r].secret = request[r].secret
    BY <1>0, <2>1, GoMoves, Elsewhere
  <2> HIDE DEF s, c
  <2>4. /\ db' \in Dbs /\ Fades(db, db') /\ db'.secret = db.secret /\ db'.active
        /\ db'.last = s
    BY <1>0, <1>3, <2>1, <2>2 DEF Dbs, Fades
  <2>5. /\ HistKept /\ h'.drawn = h.drawn /\ h'.taken = h.taken \union {c}
        /\ h'.twice = (h.twice \/ (c.secret = db.secret /\ c \in h.taken))
    BY <1>0, <2>1 DEF Hists, HistKept
  <2>6. h' \in Hists
    BY <1>0, <2>1, <2>2 DEF Hists
  <2>7. Types'
    BY <1>1, <2>3, <2>4, <2>6 DEF SessionsInv, Types
  <2>8. Calms
    BY <1>0, <2>3, Elsewhere DEF Calms, Alone
  <2>9. RowsInv'
    BY <1>1, <2>4, <2>5, <2>8, QuietStep DEF SessionsInv, RowsInv, SavedMoves
  <2>10. ~h'.twice
    <3>1. c \in h.taken => (c.secret = db.secret => c.step <= db.last)
      BY DEF SessionsInv, FactorInv
    <3>2. ~(c.secret = db.secret /\ c \in h.taken)
      BY <1>0, <1>3, <2>2, <3>1 DEF Dbs
    <3>3. ~h.twice
      BY DEF SessionsInv, FactorInv
    <3> QED  BY <2>5, <3>2, <3>3, Zenon
  <2>11. FactorIn(db)' /\ (saved' # NoTxn => FactorIn(saved)')
    BY <1>1, <1>3, <2>4, <2>5 DEF SessionsInv, FactorInv, FactorIn
  <2>12. \A q \in Requests : FactorReq(request[q])'
    BY <1>0, <2>3, <2>5, Elsewhere DEF SessionsInv, FactorInv, FactorReq, Alone
  <2>13. ASSUME NEW e \in h'.taken
         PROVE  e.secret # 0 /\ e.secret <= h'.drawn /\ (e.secret = db'.secret => e.step <= db'.last)
    <3>1. CASE e = c
      BY <1>0, <2>2, <2>4, <2>5, <3>1 DEF FactorReq
    <3>2. CASE e \in h.taken
      <4>1. e.secret # 0 /\ e.secret <= h.drawn /\ (e.secret = db.secret => e.step <= db.last)
        BY <3>2 DEF SessionsInv, FactorInv
      <4>2. e.step \in Nat /\ db.last \in Int
        BY <1>0, <3>2 DEF Hists, Dbs
      <4> QED  BY <1>3, <2>2, <2>4, <2>5, <4>1, <4>2
    <3> QED  BY <2>5, <3>1, <3>2
  <2>14. FactorInv'
    BY <2>10, <2>11, <2>12, <2>13 DEF FactorInv
  <2> QED  BY <2>7, <2>9, <2>14 DEF SessionsInv, RowsInv
<1> QED  BY <1>2, <1>3

\* Answering with the pair of the row new.
LEMMA IssuedMoves ==
    ASSUME Types, NEW r \in Requests, NEW n \in Jti, NEW exp \in Int, Issued(r, n, exp)
    PROVE  /\ held' \in [Jti -> Int] /\ request' \in [Requests -> Reqs] /\ Alone(r)
           /\ request'[r].pc = "ok" /\ request'[r].secret = request[r].secret
<1>1. /\ held' = [held EXCEPT ![n] = exp]
      /\ request' = [request EXCEPT ![r] = [request[r] EXCEPT !.pc = "ok", !.new = n]]
  BY DEF Issued, Types
<1>2. [request[r] EXCEPT !.pc = "ok", !.new = n] \in Reqs
  <2>1. n \in 0..MaxJti /\ request[r] \in Reqs
    BY SessionAssumption DEF Types, Jti
  <2> QED  BY <2>1 DEF Reqs, Pcs
<1> QED  BY <1>1, <1>2 DEF Types, Alone, Reqs

\* The end of createSession: a row for the identifier drawn, or none for a
\* session of an account that is taken down.
LEMMA CreateSteps ==
    ASSUME SessionsInv, NEW r \in Requests,
           create_scoped_session(r) \/ create_takendown_session(r)
    PROVE  SessionsInv'
<1> DEFINE c == request[r].cred
<1>0. /\ used < MaxJti /\ used' = used + 1 /\ Issued(r, used + 1, clock + Life)
      /\ h' = [h EXCEPT !.cred[used + 1] = request[r].cred]
      /\ UNCHANGED <<saved, apps, down, clock, calls>>
  BY DEF create_scoped_session, create_takendown_session
<1>1. /\ Types /\ RowsInv /\ used + 1 \in Jti /\ used' \in 0..MaxJti /\ clock + Life \in Int
      /\ c \in Creds /\ db \in Dbs /\ h \in Hists
  BY <1>0, FreshId, SessionAssumption DEF SessionsInv, RowsInv, Types, Reqs
<1>2. /\ held' \in [Jti -> Int] /\ request' \in [Requests -> Reqs] /\ Alone(r)
      /\ request'[r].pc = "ok" /\ request'[r].secret = request[r].secret
  BY <1>0, <1>1, IssuedMoves
<1>3. /\ db' \in Dbs /\ SameFactor(db, db')
      /\ db'.rows[used + 1] = NoRow \/ db'.rows[used + 1].app = c
      /\ \A j \in Jti : j # used + 1 => (db'.rows[j] = NoRow \/ db'.rows[j] = db.rows[j])
  <2>1. CASE create_scoped_session(r)
    <3>1. db' = Persisted(Pruned(db), used + 1, clock + Life, c)
      BY <2>1 DEF create_scoped_session
    <3> HIDE DEF c
    <3>2. /\ Pruned(db) \in Dbs /\ SameFactor(db, Pruned(db))
          /\ \A j \in Jti : Pruned(db).rows[j] = NoRow \/ Pruned(db).rows[j] = db.rows[j]
      BY <1>1, PrunedFades
    <3>3. /\ db' \in Dbs /\ SameFactor(Pruned(db), db') /\ db'.rows[used + 1].app = c
          /\ \A k \in Jti : k # used + 1 => db'.rows[k] = Pruned(db).rows[k]
      BY <1>1, <3>1, <3>2, PersistedRow
    <3> QED  BY <3>2, <3>3 DEF SameFactor
  <2>2. CASE create_takendown_session(r)
    BY <1>1, <2>2, FreshId, <1>0, PrunedFades DEF create_takendown_session
  <2> QED  BY <2>1, <2>2
<1> HIDE DEF c
<1>4. /\ h' \in Hists /\ Draws(c)
      /\ h'.taken = h.taken /\ h'.drawn = h.drawn /\ h'.twice = h.twice
  BY <1>0, <1>1 DEF Hists, Draws, c
<1>5. Types'
  BY <1>0, <1>1, <1>2, <1>3, <1>4 DEF Types
<1>6. Calms
  BY <1>2, Elsewhere DEF Calms, Alone
<1>7. RowsInv'
  BY <1>1, <1>3, <1>4, <1>6, CreateStep
<1>8. \A q \in Requests : FactorReq(request'[q])
  BY <1>2 DEF SessionsInv, FactorInv, FactorReq, Alone
<1>9. FactorInv'
  BY <1>0, <1>3, <1>4, <1>8, FactorQuiet DEF SessionsInv, SavedMoves
<1> QED  BY <1>5, <1>7, <1>9 DEF SessionsInv, RowsInv

\* The steps of a rotation leave the factor alone.
LEMMA FactorKept ==
    ASSUME SessionsInv, Types', RowsInv', NEW r \in Requests, Alone(r),
           request'[r].secret = request[r].secret, request'[r].pc # "use",
           SameFactor(db, db'), SavedMoves,
           h'.taken = h.taken, h'.drawn = h.drawn, h'.twice = h.twice
    PROVE  SessionsInv'
<1>1. \A q \in Requests : FactorReq(request'[q])
  BY DEF SessionsInv, FactorInv, FactorReq, Alone
<1>2. FactorInv'
  BY <1>1, FactorQuiet DEF SessionsInv
<1> QED  BY <1>2 DEF SessionsInv, RowsInv

\* refreshSession up to the first statement, and after its last.
LEMMA RefreshEnds ==
    ASSUME SessionsInv, NEW r \in Requests, refresh_session(r) \/ Probe(r) \/ Done(r)
    PROVE  SessionsInv'
<1>0. request \in [Requests -> Reqs] /\ db \in Dbs
  BY DEF SessionsInv, Types
<1>1. CASE refresh_session(r)
  <2>1. PICK t \in Jti : request' = [request EXCEPT ![r].pc = "select", ![r].tok = t]
    BY <1>1 DEF refresh_session
  <2>2. Call(r) /\ UNCHANGED <<db, saved, apps, down, clock, used, held, h>>
    BY <1>1 DEF refresh_session
  <2>3. request' = [request EXCEPT ![r] = [request[r] EXCEPT !.pc = "select", !.tok = t]]
    BY <1>0, <2>1
  <2>4. t \in 0..MaxJti
    BY SessionAssumption DEF Jti
  <2>5. [request[r] EXCEPT !.pc = "select", !.tok = t] \in Reqs
    <3>1. "select" \in Pcs
      BY DEF Pcs
    <3> QED  BY <1>0, <2>4, <3>1 DEF Reqs
  <2>6. /\ request' \in [Requests -> Reqs] /\ Alone(r) /\ request'[r].pc = "select"
        /\ request'[r].tok = t /\ request'[r].secret = request[r].secret
    BY <1>0, <2>3, <2>5 DEF Reqs, Alone
  <2>7. Types'
    BY <2>2, <2>6, CallCounts DEF SessionsInv, Types
  <2>8. FactorReq(request'[r]) /\ "select" \notin Holding
    BY <2>6 DEF SessionsInv, FactorInv, FactorReq, Holding, Flying, Drawing
  <2> QED  BY <2>2, <2>6, <2>7, <2>8, FadesSelf, CalmStep DEF SavedMoves
<1>2. CASE Probe(r)
  <2>1. request[r].tok \in Jti
    BY <1>2 DEF Probe, At, SessionsInv, Rotating, Presenting
  <2>2. /\ db' = Revoked(db, request[r].tok) /\ Return(r)
        /\ UNCHANGED <<saved, apps, down, clock, calls, used, held, h>>
    BY <1>2 DEF Probe
  <2>3. db' \in Dbs /\ Fades(db, db') /\ SameFactor(db, db')
    BY <1>0, <2>1, <2>2, RevokedFades
  <2>4. /\ request' \in [Requests -> Reqs] /\ Alone(r)
        /\ request'[r].pc = "idle" /\ request'[r].secret = 0
    BY <1>0, <2>2, ReturnMoves
  <2>5. Types'
    BY <2>2, <2>3, <2>4 DEF SessionsInv, Types
  <2>6. FactorReq(request'[r])
    BY <2>4 DEF FactorReq, SessionsInv, Types, Hists
  <2> QED  BY <2>2, <2>3, <2>4, <2>5, <2>6, Elsewhere, CalmStep DEF SavedMoves
<1>3. CASE Done(r)
  BY <1>3, ReturnStep DEF Done
<1> QED  BY <1>1, <1>2, <1>3

\* rotate_refresh up to BEGIN.
LEMMA SelectStep ==
    ASSUME SessionsInv, NEW r \in Requests, RotateSelect(r)
    PROVE  SessionsInv'
<1> DEFINE t == request[r].tok
           row == Pruned(db).rows[t]
<1>0. /\ request \in [Requests -> Reqs] /\ request[r] \in Reqs /\ db \in Dbs /\ h \in Hists
      /\ t \in Jti /\ used \in Nat /\ clock \in Int /\ RowsInv /\ Types
  BY SessionAssumption
     DEF SessionsInv, Types, RowsInv, RotateSelect, At, Rotating, Presenting
<1>1. UNCHANGED <<saved, apps, down, clock, calls, held>>
  BY DEF RotateSelect
<1>2. db' = Pruned(db) \/ db' = db
  BY DEF RotateSelect
<1>3. db' \in Dbs /\ Fades(db, db') /\ SameFactor(db, db')
  BY <1>0, <1>2, PrunedFades, FadesSelf
<1>4. CASE Go(r, "probe") /\ UNCHANGED <<used, h>>
  <2>1. /\ request' \in [Requests -> Reqs] /\ Alone(r) /\ Keeps(r)
        /\ request'[r].pc = "probe" /\ request'[r].secret = request[r].secret
    BY <1>0, <1>4, GoMoves DEF Pcs
  <2>2. Types'
    BY <1>1, <1>3, <1>4, <2>1 DEF SessionsInv, Types
  <2>3. FactorReq(request'[r]) /\ "probe" \notin Holding
    BY <2>1 DEF SessionsInv, FactorInv, FactorReq, Holding, Flying, Drawing
  <2> QED  BY <1>0, <1>1, <1>3, <1>4, <2>1, <2>2, <2>3, CalmStep DEF SavedMoves, Keeps
<1>5. CASE held[t] > clock /\ ~RowRefused(row) /\ row.next # 0
            /\ request' = [request EXCEPT ![r].pc = "successor", ![r].new = row.next]
            /\ UNCHANGED <<used, h>>
  <2>1. db' = Pruned(db) /\ row # NoRow /\ row \in Rows
    BY <1>0, <1>5, PrunedFades DEF RotateSelect, RowRefused, Dbs
  <2>2. row.next \in Jti /\ row.next \in 0..MaxJti
    BY <1>5, <2>1, SessionAssumption DEF Rows, Jti
  <2> DEFINE n == row.next
  <2>3. request' = [request EXCEPT ![r] = [request[r] EXCEPT !.pc = "successor", !.new = n]]
    BY <1>0, <1>5
  <2>4. db'.rows[t] # NoRow /\ db'.rows[t].next = n
    BY <2>1
  <2> HIDE DEF n
  <2>5. n \in Jti /\ n \in 0..MaxJti
    BY <2>2 DEF n
  <2>6. [request[r] EXCEPT !.pc = "successor", !.new = n] \in Reqs
    BY <1>0, <2>5 DEF Reqs, Pcs
  <2>7. /\ request' \in [Requests -> Reqs] /\ Alone(r) /\ request'[r].pc = "successor"
        /\ request'[r].tok = t /\ request'[r].new = n
        /\ request'[r].secret = request[r].secret
    BY <1>0, <2>3, <2>6 DEF Reqs, Alone
  <2>8. Types'
    BY <1>1, <1>3, <1>5, <2>7 DEF SessionsInv, Types
  <2> HIDE DEF t
  <2>9. RowsInv'
    BY <1>0, <1>1, <1>3, <1>5, <2>4, <2>5, <2>7, FoundStep DEF HistKept
  <2> QED  BY <1>1, <1>3, <1>5, <2>7, <2>8, <2>9, FactorKept DEF SavedMoves
<1>6. CASE /\ held[t] > clock /\ ~RowRefused(row) /\ used < MaxJti /\ used' = used + 1
           /\ h' = [h EXCEPT !.cred[used + 1] = h.cred[t]]
           /\ request' = [request EXCEPT ![r].pc = "begin", ![r].new = used + 1,
                                         ![r].cred = row.app, ![r].now = clock]
  <2>1. row # NoRow /\ row \in Rows /\ row = db.rows[t]
    BY <1>0, <1>6, PrunedFades DEF RowRefused, Dbs
  <2>2. row.app = h.cred[t] /\ row.app \in Creds
    BY <1>0, <2>1 DEF RowsInv, Stored, StoredIn, Rows, Creds
  <2>3. used + 1 \in Jti /\ used + 1 \in 0..MaxJti
    BY <1>0, <1>6, FreshId, SessionAssumption DEF Jti
  <2> DEFINE c == h.cred[t]
             x == [request[r] EXCEPT !.pc = "begin", !.new = used + 1, !.cred = c, !.now = clock]
  <2>4. request' = [request EXCEPT ![r] = x]
    BY <1>0, <1>6, <2>2
  <2>5. c \in Creds
    BY <2>2
  <2>6. h' = [h EXCEPT !.cred[used + 1] = c]
    BY <1>6
  <2> HIDE DEF c
  <2>7. /\ x \in Reqs /\ x.pc = "begin" /\ x.new = used + 1 /\ x.cred = c /\ x.tok = t
        /\ x.secret = request[r].secret
    BY <1>0, <2>3, <2>5 DEF Reqs, Pcs
  <2> HIDE DEF x
  <2>8. /\ request' \in [Requests -> Reqs] /\ Alone(r) /\ request'[r] = x
    BY <1>0, <2>4, <2>7 DEF Alone
  <2>9. /\ h' \in Hists /\ Draws(c)
        /\ h'.taken = h.taken /\ h'.drawn = h.drawn /\ h'.twice = h.twice
    <3> DEFINE cr == [h.cred EXCEPT ![used + 1] = c]
    <3>1. cr \in [Jti -> Creds] /\ cr[used + 1] = c /\ \A j \in Jti : j # used + 1 => cr[j] = h.cred[j]
      BY <1>0, <2>3, <2>5 DEF Hists
    <3>2. h' = [h EXCEPT !.cred = cr]
      BY <1>0, <2>6 DEF Hists
    <3> HIDE DEF cr
    <3>3. /\ h' \in Hists /\ h'.cred = cr
          /\ h'.gone = h.gone
          /\ h'.late = h.late /\ h'.undone = h.undone /\ h'.torn = h.torn /\ h'.succ = h.succ
          /\ h'.taken = h.taken /\ h'.drawn = h.drawn /\ h'.twice = h.twice
      BY <1>0, <3>1, <3>2 DEF Hists
    <3> QED  BY <1>0, <1>1, <1>6, <3>3 DEF Draws, cr
  <2>10. Types'
    BY <1>1, <1>3, <1>6, <2>3, <2>8, <2>9 DEF SessionsInv, Types
  <2>11. RowsInv'
    BY <1>0, <1>3, <2>5, <2>7, <2>8, <2>9, DrawStep
  <2> QED  BY <1>1, <1>3, <2>7, <2>8, <2>9, <2>10, <2>11, FactorKept DEF SavedMoves
<1> QED  BY <1>4, <1>5, <1>6 DEF RotateSelect

\* The transaction of a rotation.
LEMMA RotateSteps ==
    ASSUME SessionsInv, NEW r \in Requests,
           \/ RotateBegin(r) \/ RotateUpdate(r) \/ RotateInsert(r)
           \/ RotateCommit(r) \/ RotateCommitFails(r) \/ RotateSuccessor(r)
    PROVE  SessionsInv'
<1> DEFINE t == request[r].tok
           n == request[r].new
<1>0. /\ request \in [Requests -> Reqs] /\ request[r] \in Reqs /\ db \in Dbs /\ h \in Hists
      /\ RowsInv /\ Types /\ FactorReq(request[r])
      /\ t \in Jti /\ n \in Jti /\ request[r].cred \in Creds /\ request[r].now \in Int
  <2>1. request[r].pc \in Holding
    BY DEF RotateBegin, RotateUpdate, RotateInsert, RotateCommit, RotateCommitFails,
           RotateSuccessor, At, Holding, Flying, Drawing
  <2> QED  BY <2>1 DEF SessionsInv, Types, RowsInv, Rotating, Presenting, FactorInv, Reqs
<1> HIDE DEF t, n
<1>1. ASSUME Return(r), Rollback, UNCHANGED <<apps, down, clock, calls, used, held>>
      PROVE  SessionsInv'
  <2>1. /\ request' \in [Requests -> Reqs] /\ Alone(r)
        /\ request'[r].pc = "idle" /\ request'[r].secret = 0
    BY <1>0, <1>1, ReturnMoves
  <2>2. FactorReq(request'[r])
    BY <1>0, <2>1 DEF FactorReq, Hists
  <2> QED  BY <1>1, <2>1, <2>2, Elsewhere, RollbackMoves
<1>2. CASE RotateBegin(r)
  <2>0. UNCHANGED <<apps, down, clock, calls, used, held>> /\ request[r].pc = "begin"
    BY <1>2 DEF RotateBegin, At
  <2>1. CASE saved = NoTxn
    <3>1. saved' = db /\ Go(r, "update") /\ UNCHANGED <<db, h>>
      BY <1>2, <2>1 DEF RotateBegin
    <3>2. /\ request' \in [Requests -> Reqs] /\ Alone(r) /\ Keeps(r)
          /\ request'[r].pc = "update" /\ request'[r].secret = request[r].secret
      BY <1>0, <3>1, GoMoves DEF Pcs
    <3>3. Types'
      BY <1>0, <2>0, <3>1, <3>2 DEF Types
    <3>4. RowsInv'
      BY <1>0, <2>0, <3>1, <3>2, BeginStep DEF HistKept
    <3> QED  BY <3>1, <3>2, <3>3, <3>4, FadesSelf, FactorKept DEF SavedMoves
  <2>2. CASE saved # NoTxn
    BY <1>1, <1>2, <2>0, <2>2 DEF RotateBegin
  <2> QED  BY <2>1, <2>2
<1>3. CASE RotateUpdate(r)
  <2>0. UNCHANGED <<apps, down, clock, calls, used, held>> /\ request[r].pc = "update"
    BY <1>3 DEF RotateUpdate, At
  <2>1. CASE db.rows[t] # NoRow /\ db.rows[t].next = 0 /\ ~db.rows[t].revoked
    <3> DEFINE g == LeastOf(request[r].now + Grace, db.rows[t].exp)
    <3>1. /\ db' = [db EXCEPT !.rows[t].next = n, !.rows[t].grace = g]
          /\ Go(r, "insert") /\ UNCHANGED <<saved, h>>
      BY <1>3, <2>1 DEF RotateUpdate, t, n
    <3>2. g \in Int
      BY <1>0, <2>1, SessionAssumption DEF LeastOf, Dbs, Rows
    <3> HIDE DEF g
    <3>3. /\ db' \in Dbs /\ SameFactor(db, db')
          /\ db'.rows[t] # NoRow => db'.rows[t].next = n
          /\ db'.rows[t].app = db.rows[t].app /\ db'.rows[t].revoked = db.rows[t].revoked
          /\ \A k \in Jti : k # t => db'.rows[k] = db.rows[k]
      <4> DEFINE row == [db.rows[t] EXCEPT !.next = n, !.grace = g]
      <4>1. /\ db.rows[t] \in Rows /\ db.rows \in [Jti -> Rows \union {NoRow}]
            /\ n \in 0..MaxJti
        BY <1>0, <2>1, SessionAssumption DEF Dbs, Jti
      <4>2. /\ row \in Rows /\ row.next = n /\ row.app = db.rows[t].app
            /\ row.revoked = db.rows[t].revoked
        <5>1. [db.rows[t] EXCEPT !.next = n] \in Rows
          BY <4>1 DEF Rows
        <5> QED  BY <3>2, <4>1, <5>1 DEF Rows
      <4>3. db' = [db EXCEPT !.rows = [db.rows EXCEPT ![t] = row]]
        BY <1>0, <3>1, <4>1 DEF Dbs, Rows
      <4> HIDE DEF row
      <4> QED  BY <1>0, <4>1, <4>2, <4>3 DEF Dbs, SameFactor
    <3>4. /\ request' \in [Requests -> Reqs] /\ Alone(r) /\ Keeps(r)
          /\ request'[r].pc = "insert" /\ request'[r].secret = request[r].secret
      BY <1>0, <3>1, GoMoves DEF Pcs
    <3>5. Types'
      BY <1>0, <2>0, <3>1, <3>3, <3>4 DEF Types
    <3>6. request[r].tok = t /\ request[r].new = n
      BY DEF t, n
    <3>7. RowsInv'
      BY <1>0, <2>0, <2>1, <3>1, <3>3, <3>4, <3>6, UpdateStep DEF HistKept
    <3> QED  BY <3>1, <3>3, <3>4, <3>5, <3>7, FactorKept DEF SavedMoves
  <2>2. CASE ~(db.rows[t] # NoRow /\ db.rows[t].next = 0 /\ ~db.rows[t].revoked)
    <3>1. Rollback /\ Go(r, "select")
      BY <1>3, <2>2 DEF RotateUpdate, t
    <3>2. /\ request' \in [Requests -> Reqs] /\ Alone(r) /\ request'[r].tok = t
          /\ request'[r].pc = "select" /\ request'[r].secret = request[r].secret
      BY <1>0, <3>1, GoMoves DEF Pcs, Keeps, t
    <3>3. FactorReq(request'[r]) /\ "select" \notin Holding
      BY <1>0, <3>2 DEF FactorReq, Holding, Flying, Drawing
    <3> QED  BY <1>0, <2>0, <3>1, <3>2, <3>3, RollbackMoves
  <2> QED  BY <2>1, <2>2
<1>4. CASE RotateInsert(r)
  <2>0. UNCHANGED <<apps, down, clock, calls, used, held>> /\ request[r].pc = "insert"
    BY <1>4 DEF RotateInsert, At
  <2>1. CASE /\ db' = Persisted(db, n, request[r].now + Life, request[r].cred)
             /\ Go(r, "commit") /\ UNCHANGED <<saved, h>>
    <3> DEFINE c == request[r].cred
               exp == request[r].now + Life
    <3>1. c \in Creds /\ exp \in Int
      BY <1>0, SessionAssumption
    <3>2. db' = Persisted(db, n, exp, c)
      BY <2>1
    <3> HIDE DEF c, exp
    <3>3. /\ db' \in Dbs /\ SameFactor(db, db') /\ db'.rows[n].app = c
          /\ \A k \in Jti : k # n => db'.rows[k] = db.rows[k]
      BY <1>0, <3>1, <3>2, PersistedRow
    <3>4. /\ request' \in [Requests -> Reqs] /\ Alone(r) /\ Keeps(r)
          /\ request'[r].pc = "commit" /\ request'[r].secret = request[r].secret
      BY <1>0, <2>1, GoMoves DEF Pcs
    <3>5. Types'
      BY <1>0, <2>0, <2>1, <3>3, <3>4 DEF Types
    <3>6. request[r].new = n /\ request[r].cred = c
      BY DEF n, c
    <3>7. RowsInv'
      BY <1>0, <2>0, <2>1, <3>3, <3>4, <3>6, InsertStep DEF HistKept
    <3> QED  BY <2>1, <3>3, <3>4, <3>5, <3>7, FactorKept DEF SavedMoves
  <2>2. CASE Rollback /\ Return(r)
    BY <1>1, <2>0, <2>2
  <2> QED  BY <1>4, <2>1, <2>2 DEF RotateInsert, n
<1>5. CASE RotateCommit(r) /\ saved # NoTxn
  <2>1. /\ saved' = NoTxn /\ Issued(r, n, request[r].now + Life)
        /\ h' = [h EXCEPT !.succ[t] = @ \union {n}]
        /\ UNCHANGED <<db, apps, down, clock, calls, used>> /\ request[r].pc = "commit"
    BY <1>5 DEF RotateCommit, At, t, n
  <2>2. request[r].now + Life \in Int
    BY <1>0, SessionAssumption
  <2>3. /\ held' \in [Jti -> Int] /\ request' \in [Requests -> Reqs] /\ Alone(r)
        /\ request'[r].pc = "ok" /\ request'[r].secret = request[r].secret
    BY <1>0, <2>1, <2>2, IssuedMoves
  <2>4. h' \in Hists /\ h'.taken = h.taken /\ h'.drawn = h.drawn /\ h'.twice = h.twice
    BY <1>0, <2>1 DEF Hists
  <2>5. Types'
    BY <1>0, <2>1, <2>3, <2>4 DEF Types
  <2>6. RowsInv'
    BY <1>0, <2>1, <2>3, AnswerStep DEF t, n
  <2> QED  BY <2>1, <2>3, <2>4, <2>5, <2>6, FadesSelf, FactorKept DEF SavedMoves
<1>6. CASE RotateCommit(r) /\ saved = NoTxn
  BY <1>6, ReturnStep DEF RotateCommit
<1>7. CASE RotateCommitFails(r)
  BY <1>1, <1>7 DEF RotateCommitFails
<1>8. CASE RotateSuccessor(r) /\ Live(db, n)
  <2>1. /\ Issued(r, n, db.rows[n].exp)
        /\ h' = [h EXCEPT !.succ[t] = @ \union {n}]
        /\ UNCHANGED <<db, saved, apps, down, clock, calls, used>>
        /\ request[r].pc = "successor"
    BY <1>8 DEF RotateSuccessor, At, t, n
  <2>2. db.rows[n].exp \in Int
    BY <1>0, <1>8 DEF Live, Dbs, Rows
  <2>3. /\ held' \in [Jti -> Int] /\ request' \in [Requests -> Reqs] /\ Alone(r)
        /\ request'[r].pc = "ok" /\ request'[r].secret = request[r].secret
    BY <1>0, <2>1, <2>2, IssuedMoves
  <2>4. h' \in Hists /\ h'.taken = h.taken /\ h'.drawn = h.drawn /\ h'.twice = h.twice
    BY <1>0, <2>1 DEF Hists
  <2>5. Types'
    BY <1>0, <2>1, <2>3, <2>4 DEF Types
  <2>6. RowsInv'
    BY <1>0, <2>1, <2>3, AnswerStep DEF t, n
  <2> QED  BY <2>1, <2>3, <2>4, <2>5, <2>6, FadesSelf, FactorKept DEF SavedMoves
<1>9. CASE RotateSuccessor(r) /\ ~Live(db, n)
  <2>1. Go(r, "probe") /\ UNCHANGED <<held, h, db, saved, apps, down, clock, calls, used>>
    BY <1>9 DEF RotateSuccessor, n
  <2>2. /\ request' \in [Requests -> Reqs] /\ Alone(r) /\ request'[r].tok = t
        /\ request'[r].pc = "probe" /\ request'[r].secret = request[r].secret
    BY <1>0, <2>1, GoMoves DEF Pcs, Keeps, t
  <2>3. FactorReq(request'[r]) /\ "probe" \notin Holding
    BY <1>0, <2>2 DEF FactorReq, Holding, Flying, Drawing
  <2>4. Types'
    BY <1>0, <2>1, <2>2 DEF Types
  <2> QED  BY <1>0, <2>1, <2>2, <2>3, <2>4, FadesSelf, CalmStep DEF SavedMoves
<1> QED  BY <1>2, <1>3, <1>4, <1>5, <1>6, <1>7, <1>8, <1>9

\* The statements that end sessions.
LEMMA EndMoves ==
    ASSUME SessionsInv, NEW r \in Requests, NEW js \in SUBSET (1..used), Ended(js),
           db' \in Dbs, Fades(db, db'), SameFactor(db, db'), \A j \in js : ~Live(db', j),
           request' \in [Requests -> Reqs], Alone(r),
           request'[r] = request[r] \/ request'[r] = Idle,
           calls' \in Nat, UNCHANGED <<saved, apps, down, clock, used, held>>
    PROVE  SessionsInv'
<1>1. Types /\ h \in Hists /\ RowsInv /\ used \in Nat /\ used <= MaxJti /\ h.drawn \in Nat
  BY SessionAssumption DEF SessionsInv, Types, RowsInv, Hists
<1>2. js \subseteq Jti /\ js \cap InFlight \subseteq Jti
  <2>1. 1..used \subseteq Jti
    BY <1>1, SessionAssumption DEF Jti
  <2> QED  BY <2>1
<1>3. h' \in Hists /\ h'.taken = h.taken /\ h'.drawn = h.drawn /\ h'.twice = h.twice
  BY <1>1, <1>2 DEF Ended, Hists
<1>4. Types'
  BY <1>1, <1>3 DEF Types
<1>5. Calms
  BY Elsewhere DEF Calms, Alone, Idle, Holding, Presenting, Flying, Drawing
<1>6. RowsInv'
  BY <1>1, <1>5, EndStep
<1>7. \A q \in Requests : FactorReq(request'[q])
  BY <1>1 DEF SessionsInv, FactorInv, FactorReq, Alone, Idle
<1>8. FactorInv'
  BY <1>3, <1>7, FactorQuiet DEF SessionsInv, SavedMoves
<1> QED  BY <1>4, <1>6, <1>8 DEF SessionsInv, RowsInv

\* deleteSession, revokeAppPassword, takedown and the administrator's reset.
LEMMA EndSteps ==
    ASSUME SessionsInv, NEW r \in Requests, EndSessions(r)
    PROVE  SessionsInv'
<1>0. /\ request \in [Requests -> Reqs] /\ request[r] \in Reqs /\ db \in Dbs /\ h \in Hists
      /\ used \in Nat /\ calls \in Nat /\ Types /\ FactorReq(request[r])
  BY SessionAssumption DEF SessionsInv, Types, FactorInv
<1>1. CASE delete_session(r)
  <2>1. PICK t \in Jti : db.rows[t] # NoRow /\ db' = Revoked(db, t) /\ Ended({t})
    BY <1>1 DEF delete_session
  <2>2. Call(r) /\ UNCHANGED <<saved, apps, down, clock, request, used, held>>
    BY <1>1 DEF delete_session
  <2>3. t <= used /\ {t} \in SUBSET (1..used)
    BY <1>0, <2>1 DEF SessionsInv, Stored, StoredIn, Jti
  <2>4. db' \in Dbs /\ Fades(db, db') /\ SameFactor(db, db') /\ ~Live(db', t)
    BY <1>0, <2>1, RevokedFades
  <2>5. Alone(r) /\ calls' \in Nat /\ request' \in [Requests -> Reqs] /\ request'[r] = request[r]
    BY <1>0, <2>2, CallCounts DEF Alone
  <2> QED  BY <2>1, <2>2, <2>3, <2>4, <2>5, EndMoves
<1>2. CASE revoke_app_password(r)
  <2>1. PICK a \in apps :
          /\ apps' = apps \ {a}
          /\ request' = [request EXCEPT ![r].pc = "revoke", ![r].cred = a]
    BY <1>2 DEF revoke_app_password
  <2>2. Call(r) /\ UNCHANGED <<db, saved, down, clock, used, held, h>>
    BY <1>2 DEF revoke_app_password
  <2>3. apps' \subseteq Apps /\ a \in Creds
    BY <1>0, <2>1 DEF Types, Creds
  <2>4. request' = [request EXCEPT ![r] = [request[r] EXCEPT !.pc = "revoke", !.cred = a]]
    BY <1>0, <2>1
  <2>5. [request[r] EXCEPT !.pc = "revoke", !.cred = a] \in Reqs
    BY <1>0, <2>3 DEF Reqs, Pcs
  <2>6. /\ request' \in [Requests -> Reqs] /\ Alone(r)
        /\ request'[r].pc = "revoke" /\ request'[r].secret = request[r].secret
    BY <1>0, <2>4, <2>5 DEF Reqs, Alone
  <2>7. Types'
    BY <1>0, <2>2, <2>3, <2>6, CallCounts DEF Types
  <2>8. FactorReq(request'[r])
    BY <1>0, <2>6 DEF FactorReq
  <2> QED  BY <2>2, <2>6, <2>7, <2>8, FadesSelf, Elsewhere, CalmStep DEF SavedMoves
<1>3. CASE revoke_app_password_sessions(r)
  <2> DEFINE a == request[r].cred
             js == {j \in 1..used : h.cred[j] = a}
             rows == [j \in Jti |-> IF db.rows[j] # NoRow /\ db.rows[j].app = a
                                    THEN [db.rows[j] EXCEPT !.revoked = TRUE] ELSE db.rows[j]]
  <2>1. /\ db' = [db EXCEPT !.rows = rows] /\ Ended(js) /\ Return(r)
        /\ UNCHANGED <<saved, apps, down, clock, calls, used, held>>
    BY <1>3 DEF revoke_app_password_sessions
  <2>2. ASSUME NEW j \in Jti
        PROVE  /\ rows[j] \in Rows \union {NoRow}
               /\ \/ rows[j] = db.rows[j]
                  \/ /\ db.rows[j] # NoRow /\ rows[j].app = db.rows[j].app
                     /\ rows[j].next = db.rows[j].next /\ rows[j].revoked
               /\ (db.rows[j] # NoRow /\ db.rows[j].app = a) => rows[j].revoked
    <3>1. db.rows[j] \in Rows \/ db.rows[j] = NoRow
      BY <1>0 DEF Dbs
    <3> QED  BY <3>1 DEF Rows
  <2>3. rows \in [Jti -> Rows \union {NoRow}]
    BY <2>2
  <2> HIDE DEF rows
  <2>4. db' \in Dbs /\ db'.rows = rows /\ SameFactor(db, db')
    BY <1>0, <2>1, <2>3 DEF Dbs, SameFactor
  <2>5. Fades(db, db')
    BY <2>2, <2>4 DEF Fades
  <2>6. ASSUME NEW j \in js
        PROVE  ~Live(db', j)
    <3>1. j \in Jti /\ h.cred[j] = a
      BY <1>0, SessionAssumption DEF Jti, Types
    <3>2. db.rows[j] # NoRow => db.rows[j].app = a
      BY <3>1 DEF SessionsInv, Stored, StoredIn
    <3> QED  BY <2>2, <2>4, <3>1, <3>2 DEF Live
  <2>7. request' \in [Requests -> Reqs] /\ Alone(r) /\ request'[r] = Idle
    BY <1>0, <2>1, ReturnMoves
  <2>8. js \in SUBSET (1..used) /\ calls' \in Nat
    BY <1>0, <2>1
  <2> HIDE DEF js
  <2> QED  BY <2>1, <2>4, <2>5, <2>6, <2>7, <2>8, EndMoves
<1>4. CASE ApplyTakedown(r)
  <2>1. Call(r) /\ down' = TRUE /\ Go(r, "delete_all") /\ apps' \subseteq Apps
    BY <1>0, <1>4 DEF ApplyTakedown, Types
  <2> QED  BY <1>0, <1>4, <2>1, Elsewhere, CallCounts, GoStep DEF ApplyTakedown
<1>5. CASE admin_update_account_password(r)
  <2>1. Call(r) /\ Go(r, "delete_all") /\ apps' \subseteq Apps /\ down' \in BOOLEAN
    BY <1>0, <1>5 DEF admin_update_account_password, Types
  <2> QED  BY <1>0, <1>5, <2>1, Elsewhere, CallCounts, GoStep DEF admin_update_account_password
<1>6. CASE delete_all(r)
  <2>1. /\ db' = [db EXCEPT !.rows = [j \in Jti |-> NoRow], !.key = FALSE]
        /\ Ended(1..used) /\ Return(r)
        /\ UNCHANGED <<saved, apps, down, clock, calls, used, held>>
    BY <1>6 DEF delete_all
  <2>2. db' \in Dbs /\ SameFactor(db, db') /\ \A j \in Jti : db'.rows[j] = NoRow
    BY <1>0, <2>1 DEF Dbs, SameFactor
  <2>3. 1..used \subseteq Jti
    BY <1>0, SessionAssumption DEF Types, Jti
  <2>4. Fades(db, db') /\ \A j \in 1..used : ~Live(db', j)
    BY <2>2, <2>3 DEF Fades, Live
  <2>5. request' \in [Requests -> Reqs] /\ Alone(r) /\ request'[r] = Idle
    BY <1>0, <2>1, ReturnMoves
  <2> QED  BY <1>0, <2>1, <2>2, <2>4, <2>5, EndMoves
<1> QED  BY <1>1, <1>2, <1>3, <1>4, <1>5, <1>6 DEF EndSessions

\* Enrolment up to the confirming code, and disabling up to the deletion.
LEMMA EnrolSteps ==
    ASSUME SessionsInv, NEW r \in Requests,
           \/ totp_enrol(r) \/ totp_confirm(r) \/ totp_disable(r)
           \/ ActivateBegin(r) \/ ActivateCommit(r)
    PROVE  SessionsInv'
<1>0. /\ request \in [Requests -> Reqs] /\ request[r] \in Reqs /\ db \in Dbs /\ h \in Hists
      /\ clock \in Nat \ {0} /\ Types /\ FactorReq(request[r]) /\ FactorIn(db)
  BY SessionAssumption DEF SessionsInv, Types, FactorInv
<1>1. CASE totp_enrol(r)
  <2>1. Call(r) /\ Go(r, "put_pending") /\ apps' \subseteq Apps /\ down' \in BOOLEAN
    BY <1>0, <1>1 DEF totp_enrol, Types
  <2> QED  BY <1>0, <1>1, <2>1, Elsewhere, CallCounts, GoStep DEF totp_enrol
<1>2. CASE totp_confirm(r)
  <2>1. PICK s \in Matches(-1) :
          request' = [request EXCEPT ![r].pc = "activate", ![r].code = s, ![r].secret = db.secret]
    BY <1>2 DEF totp_confirm
  <2>2. Call(r) /\ UNCHANGED <<db, saved, apps, down, clock, used, held, h>>
    BY <1>2 DEF totp_confirm
  <2>3. s \in Nat /\ db.secret \in 0..MaxSecrets /\ db.secret <= h.drawn
    BY <1>0 DEF Matches, Dbs, FactorIn
  <2>4. request' = [request EXCEPT ![r] = [request[r] EXCEPT !.pc = "activate", !.code = s,
                                                             !.secret = db.secret]]
    BY <1>0, <2>1
  <2>5. [request[r] EXCEPT !.pc = "activate", !.code = s, !.secret = db.secret] \in Reqs
    BY <1>0, <2>3 DEF Reqs, Pcs
  <2>6. /\ request' \in [Requests -> Reqs] /\ Alone(r)
        /\ request'[r].pc = "activate" /\ request'[r].secret = db.secret
    BY <1>0, <2>4, <2>5 DEF Reqs, Alone
  <2>7. Types'
    BY <1>0, <2>2, <2>6, CallCounts DEF Types
  <2>8. FactorReq(request'[r])
    BY <2>3, <2>6 DEF FactorReq
  <2> QED  BY <2>2, <2>6, <2>7, <2>8, FadesSelf, Elsewhere, CalmStep DEF SavedMoves
<1>3. CASE totp_disable(r)
  <2>1. /\ request' = [request EXCEPT ![r].pc = "factor", ![r].then = "disable"]
        /\ Call(r) /\ UNCHANGED <<db, saved, apps, down, clock, used, held, h>>
    BY <1>3 DEF totp_disable
  <2>2. request' = [request EXCEPT ![r] = [request[r] EXCEPT !.pc = "factor", !.then = "disable"]]
    BY <1>0, <2>1
  <2>3. [request[r] EXCEPT !.pc = "factor", !.then = "disable"] \in Reqs
    BY <1>0 DEF Reqs, Pcs, Later
  <2>4. /\ request' \in [Requests -> Reqs] /\ Alone(r)
        /\ request'[r].pc = "factor" /\ request'[r].secret = request[r].secret
    BY <1>0, <2>2, <2>3 DEF Reqs, Alone
  <2>5. Types'
    BY <1>0, <2>1, <2>4, CallCounts DEF Types
  <2>6. FactorReq(request'[r])
    BY <1>0, <2>4 DEF FactorReq
  <2> QED  BY <2>1, <2>4, <2>5, <2>6, FadesSelf, Elsewhere, CalmStep DEF SavedMoves
<1>4. CASE ActivateBegin(r)
  <2>1. CASE saved = NoTxn
    <3>1. /\ saved' = db /\ Go(r, "activating")
          /\ UNCHANGED <<db, apps, down, clock, calls, used, held, h>>
      BY <1>4, <2>1 DEF ActivateBegin
    <3>2. /\ request' \in [Requests -> Reqs] /\ Alone(r)
          /\ request'[r].pc = "activating" /\ request'[r].secret = request[r].secret
      BY <1>0, <3>1, GoMoves, Elsewhere
    <3>3. Types'
      BY <1>0, <3>1, <3>2 DEF Types
    <3>4. FactorReq(request'[r])
      BY <1>0, <3>2 DEF FactorReq
    <3> QED  BY <3>1, <3>2, <3>3, <3>4, FadesSelf, Elsewhere, CalmStep DEF SavedMoves
  <2>2. CASE saved # NoTxn
    BY <1>4, <2>2, ReturnStep DEF ActivateBegin
  <2> QED  BY <2>1, <2>2
<1>5. CASE ActivateCommit(r)
  <2>1. /\ saved' = NoTxn /\ Return(r)
        /\ UNCHANGED <<db, apps, down, clock, calls, used, held, h>>
    BY <1>5 DEF ActivateCommit
  <2>2. /\ request' \in [Requests -> Reqs] /\ Alone(r)
        /\ request'[r].pc = "idle" /\ request'[r].secret = 0
    BY <1>0, <2>1, ReturnMoves
  <2>3. Types'
    BY <1>0, <2>1, <2>2 DEF Types
  <2>4. FactorReq(request'[r])
    BY <1>0, <2>2 DEF FactorReq, Hists
  <2> QED  BY <2>1, <2>2, <2>3, <2>4, FadesSelf, Elsewhere, CalmStep DEF SavedMoves
<1> QED  BY <1>1, <1>2, <1>3, <1>4, <1>5

\* A new secret, its activation and its deletion: each leaves the steps that
\* were taken for the enrolled secret at or below the recorded one.
LEMMA SecretMoves ==
    ASSUME SessionsInv, NEW r \in Requests, request' \in [Requests -> Reqs], Alone(r),
           request'[r] = Idle \/ (request'[r].pc = "activated" /\ request'[r].secret = request[r].secret),
           db' \in Dbs, db'.rows = db.rows, h' \in Hists, HistKept, h'.twice = h.twice,
           h'.drawn >= h.drawn, FactorIn(db)',
           \A c \in h'.taken : /\ c.secret # 0 /\ c.secret <= h'.drawn
                               /\ c.secret = db'.secret => c.step <= db'.last,
           UNCHANGED <<saved, apps, down, clock, calls, used, held>>
    PROVE  SessionsInv'
<1>1. Types'
  BY DEF SessionsInv, Types
<1>2. Calms
  <2>1. Idle.pc = "idle"
    BY DEF Idle
  <2> QED  BY <2>1, Elsewhere DEF Calms, Alone
<1>3. RowsInv'
  BY <1>2, QuietStep DEF SessionsInv, RowsInv, SavedMoves, Fades
<1>4. h.drawn \in Nat /\ h'.drawn \in Nat
  BY DEF SessionsInv, Types, Hists
<1>5. \A q \in Requests : FactorReq(request[q])'
  <2> SUFFICES ASSUME NEW q \in Requests PROVE FactorReq(request[q])'
    OBVIOUS
  <2>1. request[q].secret \in Nat /\ request[q].secret <= h.drawn /\ FactorReq(request[q])
    BY DEF SessionsInv, Types, Reqs, FactorInv, FactorReq
  <2> QED  BY <1>4, <2>1 DEF FactorReq, Alone, Idle
<1>6. saved' # NoTxn => FactorIn(saved)'
  <2> SUFFICES ASSUME saved # NoTxn PROVE FactorIn(saved)'
    OBVIOUS
  <2>1. FactorIn(saved) /\ saved.secret \in Nat
    BY DEF SessionsInv, Types, Dbs, FactorInv
  <2> QED  BY <1>4, <2>1 DEF FactorIn
<1>7. FactorInv'
  BY <1>5, <1>6 DEF SessionsInv, FactorInv
<1> QED  BY <1>1, <1>3, <1>7 DEF SessionsInv, RowsInv

\* Those three statements.
LEMMA SecretSteps ==
    ASSUME SessionsInv, NEW r \in Requests,
           totp_put_pending(r) \/ ActivateUpdate(r) \/ DisableDelete(r)
    PROVE  SessionsInv'
<1>0. /\ request \in [Requests -> Reqs] /\ request[r] \in Reqs /\ db \in Dbs /\ h \in Hists
      /\ Types /\ FactorReq(request[r]) /\ FactorIn(db) /\ h.drawn \in Nat
      /\ db.secret \in Nat /\ request[r].code \in Nat
  BY DEF SessionsInv, Types, FactorInv, Hists, Dbs, Reqs
<1>1. \A c \in h.taken : /\ c.secret # 0 /\ c.secret <= h.drawn /\ c.secret \in Nat
                         /\ c.step \in Nat
                         /\ c.secret = db.secret => c.step <= db.last
  BY <1>0 DEF SessionsInv, FactorInv, Hists
<1>2. CASE totp_put_pending(r)
  <2>0. h.drawn < MaxSecrets /\ Return(r) /\ UNCHANGED <<saved, apps, down, clock, calls, used, held>>
    BY <1>2 DEF totp_put_pending
  <2>1. CASE db.active
    BY <1>2, <2>1, ReturnStep DEF totp_put_pending
  <2>2. CASE ~db.active
    <3>1. /\ db' = [db EXCEPT !.secret = h.drawn + 1, !.last = -1]
          /\ h' = [h EXCEPT !.drawn = @ + 1]
      BY <1>2, <2>2 DEF totp_put_pending
    <3>2. h.drawn + 1 \in 0..MaxSecrets
      BY <1>0, <2>0, SessionAssumption
    <3>3. /\ db' \in Dbs /\ db'.rows = db.rows /\ db'.secret = h.drawn + 1
          /\ db'.last = -1 /\ ~db'.active
      <4> DEFINE l == -1
      <4>1. l \in Int /\ db' = [db EXCEPT !.secret = h.drawn + 1, !.last = l]
        BY <3>1
      <4> HIDE DEF l
      <4>2. /\ db' \in Dbs /\ db'.rows = db.rows /\ db'.secret = h.drawn + 1
            /\ db'.last = l /\ db'.active = db.active
        BY <1>0, <3>2, <4>1 DEF Dbs
      <4> QED  BY <2>2, <4>2 DEF l
    <3>4. /\ h' \in Hists /\ HistKept /\ h'.twice = h.twice /\ h'.drawn = h.drawn + 1
          /\ h'.taken = h.taken
      BY <1>0, <3>1, <3>2 DEF Hists, HistKept
    <3>5. FactorIn(db)' /\ h'.drawn >= h.drawn
      BY <1>0, <3>3, <3>4 DEF FactorIn
    <3>6. request' \in [Requests -> Reqs] /\ Alone(r) /\ request'[r] = Idle
      BY <1>0, <2>0, ReturnMoves
    <3>7. \A c \in h'.taken : /\ c.secret # 0 /\ c.secret <= h'.drawn
                              /\ c.secret = db'.secret => c.step <= db'.last
      BY <1>0, <1>1, <3>3, <3>4
    <3> QED  BY <2>0, <3>3, <3>4, <3>5, <3>6, <3>7, SecretMoves
  <2> QED  BY <2>1, <2>2
<1>3. CASE ActivateUpdate(r)
  <2>0. UNCHANGED <<apps, down, clock, calls, used, held>>
    BY <1>3 DEF ActivateUpdate
  <2>1. CASE db.secret # 0 /\ ~db.active
    <3> DEFINE c == [secret |-> db.secret, step |-> request[r].code]
    <3>1. /\ db' = [db EXCEPT !.active = TRUE, !.last = request[r].code, !.backup = BackupCodes]
          /\ h' = [h EXCEPT !.taken = @ \union {c}]
          /\ Go(r, "activated") /\ UNCHANGED saved
      BY <1>3, <2>1 DEF ActivateUpdate
    <3>2. c \in [secret : 0..MaxSecrets, step : Nat] /\ c.secret = db.secret /\ c.step = request[r].code
      BY <1>0 DEF Dbs
    <3> HIDE DEF c
    <3>3. /\ db' \in Dbs /\ db'.rows = db.rows /\ db'.secret = db.secret
          /\ db'.last = request[r].code /\ db'.active
      <4> DEFINE yes == TRUE
                 b == BackupCodes
                 l == request[r].code
      <4>1. /\ yes \in BOOLEAN /\ b \in SUBSET BackupCodes /\ l \in Int
            /\ db' = [db EXCEPT !.active = yes, !.last = l, !.backup = b]
        BY <1>0, <3>1
      <4> HIDE DEF yes, b, l
      <4>2. /\ db' \in Dbs /\ db'.rows = db.rows /\ db'.secret = db.secret
            /\ db'.last = l /\ db'.active = yes
        BY <1>0, <4>1 DEF Dbs
      <4> QED  BY <4>2 DEF yes, l
    <3>4. /\ h' \in Hists /\ HistKept /\ h'.twice = h.twice /\ h'.drawn = h.drawn
          /\ h'.taken = h.taken \union {c}
      BY <1>0, <3>1, <3>2 DEF Hists, HistKept
    <3>5. FactorIn(db)' /\ h'.drawn >= h.drawn
      BY <1>0, <2>1, <3>3, <3>4 DEF FactorIn
    <3>6. /\ request' \in [Requests -> Reqs] /\ Alone(r)
          /\ request'[r].pc = "activated" /\ request'[r].secret = request[r].secret
      BY <1>0, <3>1, GoMoves, Elsewhere
    <3>7. \A e \in h'.taken : /\ e.secret # 0 /\ e.secret <= h'.drawn
                              /\ e.secret = db'.secret => e.step <= db'.last
      <4>1. \A e \in h.taken : e.secret # db.secret
        BY <1>0, <1>1, <2>1 DEF FactorIn
      <4>2. c.secret # 0 /\ c.secret <= h'.drawn /\ c.step <= db'.last
        BY <1>0, <2>1, <3>2, <3>3, <3>4 DEF FactorIn
      <4> QED  BY <1>1, <3>3, <3>4, <4>1, <4>2
    <3> QED  BY <2>0, <3>1, <3>3, <3>4, <3>5, <3>6, <3>7, SecretMoves
  <2>2. CASE ~(db.secret # 0 /\ ~db.active)
    <3>1. Rollback /\ Return(r)
      BY <1>3, <2>2 DEF ActivateUpdate
    <3>2. /\ request' \in [Requests -> Reqs] /\ Alone(r)
          /\ request'[r].pc = "idle" /\ request'[r].secret = 0
      BY <1>0, <3>1, ReturnMoves
    <3>3. FactorReq(request'[r])
      BY <1>0, <3>2 DEF FactorReq
    <3> QED  BY <2>0, <3>1, <3>2, <3>3, Elsewhere, RollbackMoves
  <2> QED  BY <2>1, <2>2
<1>4. CASE DisableDelete(r)
  <2>1. /\ db' = [db EXCEPT !.secret = 0, !.active = FALSE, !.last = -1, !.backup = {}]
        /\ Return(r) /\ UNCHANGED <<saved, apps, down, clock, calls, used, held, h>>
    BY <1>4 DEF DisableDelete
  <2>2. /\ db' \in Dbs /\ db'.rows = db.rows /\ db'.secret = 0 /\ ~db'.active /\ db'.last = -1
    <3> DEFINE no == FALSE
               none == 0
               l == -1
               b == {}
    <3>1. /\ no \in BOOLEAN /\ none \in 0..MaxSecrets /\ l \in Int /\ b \in SUBSET BackupCodes
          /\ db' = [db EXCEPT !.secret = none, !.active = no, !.last = l, !.backup = b]
      BY <2>1, SessionAssumption
    <3> HIDE DEF no, none, l, b
    <3>2. /\ db' \in Dbs /\ db'.rows = db.rows /\ db'.secret = none /\ db'.active = no
          /\ db'.last = l
      BY <1>0, <3>1 DEF Dbs
    <3> QED  BY <3>2 DEF no, none, l
  <2>3. FactorIn(db)' /\ HistKept /\ h'.drawn >= h.drawn
    BY <1>0, <2>1, <2>2 DEF FactorIn, HistKept
  <2>4. request' \in [Requests -> Reqs] /\ Alone(r) /\ request'[r] = Idle
    BY <1>0, <2>1, ReturnMoves
  <2>5. \A c \in h'.taken : /\ c.secret # 0 /\ c.secret <= h'.drawn
                            /\ c.secret = db'.secret => c.step <= db'.last
    BY <1>1, <2>1, <2>2
  <2> QED  BY <1>0, <2>1, <2>2, <2>3, <2>4, <2>5, SecretMoves
<1> QED  BY <1>2, <1>3, <1>4

\* Time, the takedown's end, a new app password, and a restart.
LEMMA OtherSteps ==
    ASSUME SessionsInv,
           \/ \E a \in Apps : create_app_password(a)
           \/ LiftTakedown \/ Tick \/ Restart \/ UNCHANGED vars
    PROVE  SessionsInv'
<1>0. Types /\ RowsInv /\ FactorInv
  BY DEF SessionsInv, RowsInv
<1>1. CASE /\ UNCHANGED <<db, saved, request, used, held, h>>
           /\ apps' \subseteq Apps /\ down' \in BOOLEAN /\ clock' \in 1..MaxClock
           /\ calls' \in Nat
  <2>1. Types' /\ Calms /\ HistKept /\ SavedMoves
    BY <1>0, <1>1 DEF Types, Calms, HistKept, SavedMoves
  <2>2. \A q \in Requests : FactorReq(request'[q])
    BY <1>0, <1>1 DEF FactorInv
  <2>3. RowsInv' /\ FactorInv'
    BY <1>0, <1>1, <2>1, <2>2, FadesSelf, QuietStep, FactorQuiet
  <2> QED  BY <2>1, <2>3 DEF SessionsInv, RowsInv
<1>2. CASE \E a \in Apps : create_app_password(a)
  BY <1>0, <1>1, <1>2 DEF create_app_password, Types
<1>3. CASE LiftTakedown
  BY <1>0, <1>1, <1>3 DEF LiftTakedown, Types
<1>4. CASE Tick
  BY <1>0, <1>1, <1>4, SessionAssumption DEF Tick, Types
<1>5. CASE UNCHANGED vars
  BY <1>0, <1>1, <1>5 DEF vars, Types
<1>6. CASE Restart
  <2> DEFINE d == IF saved = NoTxn THEN db ELSE saved
             none == [j \in Jti |-> 0]
             yes == TRUE
  <2>1. /\ db' = [d EXCEPT !.key = yes] /\ saved' = NoTxn
        /\ held' = held \/ held' = none
        /\ request' = [r \in Requests |-> Idle]
        /\ UNCHANGED <<apps, down, clock, calls, used>>
        /\ saved = NoTxn => h' = h
        /\ saved # NoTxn => h' = RolledBack(h)
    BY <1>6 DEF Restart
  <2>2. d \in Dbs /\ none \in [Jti -> Int] /\ yes \in BOOLEAN
    BY <1>0 DEF Types
  <2>3. (saved = NoTxn => d = db) /\ (saved # NoTxn => d = saved)
    OBVIOUS
  <2> HIDE DEF d, none, yes
  <2>4. db' \in Dbs /\ db'.rows = d.rows /\ SameFactor(d, db')
    BY <2>1, <2>2 DEF Dbs, SameFactor
  <2>5. Idle \in Reqs /\ Idle.pc = "idle" /\ Idle.secret = 0
    <3>1. 0 \in 0..MaxJti /\ 0 \in 0..MaxSecrets /\ Primary \in Creds /\ "idle" \in Later \cap Pcs
      BY SessionAssumption DEF Creds, Later, Pcs
    <3> QED  BY <3>1 DEF Idle, Reqs
  <2>6. request' \in [Requests -> Reqs] /\ \A q \in Requests : request'[q] = Idle
    BY <2>1, <2>5
  <2>7. h' \in Hists
    BY <1>0, <2>1, RolledHistory DEF Types
  <2>8. Types'
    BY <1>0, <2>1, <2>2, <2>4, <2>6, <2>7 DEF Types
  <2>9. Calms
    BY <2>5, <2>6, Elsewhere DEF Calms
  <2>10. \A q \in Requests : FactorReq(request'[q])
    BY <1>0, <2>5, <2>6 DEF FactorReq, Types, Hists
  <2>11. CASE saved = NoTxn
    <3>1. Fades(db, db') /\ SameFactor(db, db') /\ h' = h
      BY <2>1, <2>3, <2>4, <2>11, FadesSelf DEF Fades
    <3>2. RowsInv' /\ FactorInv'
      BY <1>0, <2>1, <2>9, <2>10, <3>1, QuietStep, FactorQuiet DEF HistKept, SavedMoves
    <3> QED  BY <2>8, <3>2 DEF SessionsInv, RowsInv
  <2>12. CASE saved # NoTxn
    <3>1. RowsInv' /\ FactorInv'
      BY <1>0, <2>1, <2>3, <2>4, <2>9, <2>10, <2>12, RollbackStep, FactorRollback
    <3> QED  BY <2>8, <3>1 DEF SessionsInv, RowsInv
  <2> QED  BY <2>11, <2>12
<1> QED  BY <1>2, <1>3, <1>4, <1>5, <1>6

\* The invariant holds initially.
LEMMA InitInv == Init => SessionsInv
<1> SUFFICES ASSUME Init PROVE SessionsInv
  OBVIOUS
<1>1. Idle \in Reqs /\ Idle.pc = "idle" /\ Idle.secret = 0
  <2>1. 0 \in 0..MaxJti /\ 0 \in 0..MaxSecrets /\ Primary \in Creds /\ "idle" \in Later \cap Pcs
    BY SessionAssumption DEF Creds, Later, Pcs
  <2> QED  BY <2>1 DEF Idle, Reqs
<1> DEFINE l == -1
           none == 0
<1>2. l \in Int /\ none \in 0..MaxSecrets /\ Primary \in Creds
  BY SessionAssumption DEF Creds
<1>3. /\ db = [rows |-> [j \in Jti |-> NoRow], key |-> TRUE, secret |-> none,
               active |-> FALSE, last |-> l, backup |-> {}]
      /\ h = [gone |-> {}, late |-> {}, undone |-> {}, cred |-> [j \in Jti |-> Primary],
              torn |-> {}, drawn |-> none, taken |-> {}, twice |-> FALSE,
              succ |-> [j \in Jti |-> {}]]
  BY DEF Init
<1> HIDE DEF l, none
<1>4. db \in Dbs /\ \A j \in Jti : db.rows[j] = NoRow
  BY <1>2, <1>3 DEF Dbs
<1>5. db.secret = none /\ db.active = FALSE /\ db.last = l
  BY <1>3
<1>6. h \in Hists
  BY <1>2, <1>3 DEF Hists
<1>7. /\ h.gone = {} /\ h.taken = {} /\ h.twice = FALSE /\ h.drawn = none
      /\ \A j \in Jti : h.succ[j] = {}
  BY <1>3
<1>8. request \in [Requests -> Reqs] /\ \A r \in Requests : request[r] = Idle
  BY <1>1 DEF Init
<1>9. Types
  <2>1. held \in [Jti -> Int]
    BY DEF Init
  <2>2. saved = NoTxn /\ apps = {} /\ down = FALSE /\ clock = 1 /\ calls = 0 /\ used = 0
    BY DEF Init
  <2>3. 1 \in 1..MaxClock /\ 0 \in 0..MaxJti
    BY SessionAssumption
  <2> QED  BY <1>4, <1>6, <1>8, <2>1, <2>2, <2>3 DEF Types
<1>10. Rotating /\ Stored /\ EndInv /\ ChainInv
  <2>1. \A r \in Requests : request[r].pc \notin Presenting /\ request[r].pc = "idle"
    BY <1>1, <1>8, Elsewhere
  <2>2. Rotating
    BY <2>1 DEF Rotating, Presenting, Holding
  <2>3. Stored /\ EndInv
    BY <1>4, <1>7 DEF Init, Stored, StoredIn, EndInv, SessionsStayEnded
  <2>4. ChainInv
    BY <1>4, <1>7, <2>1 DEF ChainInv, Claimed
  <2> QED  BY <2>2, <2>3, <2>4
<1>11. FactorInv
  BY <1>1, <1>5, <1>7, <1>8 DEF Init, FactorInv, FactorIn, FactorReq, l, none
<1> QED  BY <1>9, <1>10, <1>11 DEF SessionsInv

(***************************************************************************)
(* The theorems.                                                           *)
(***************************************************************************)

\* SessionsInv is an invariant: every statement of auth.c that a request may
\* run, in any interleaving with the statements of others, preserves it.
THEOREM SessionsInvariant == Spec => []SessionsInv
<1>1. SessionsInv /\ [Next]_vars => SessionsInv'
  <2> SUFFICES ASSUME SessionsInv, [Next]_vars PROVE SessionsInv'
    OBVIOUS
  <2>1. ASSUME NEW r \in Requests, Login(r) PROVE SessionsInv'
    BY <2>1, LoginSteps, UseStep, CreateSteps DEF Login
  <2>2. ASSUME NEW r \in Requests, Refresh(r) PROVE SessionsInv'
    BY <2>2, RefreshEnds, SelectStep, RotateSteps DEF Refresh
  <2>3. ASSUME NEW r \in Requests, EndSessions(r) PROVE SessionsInv'
    BY <2>3, EndSteps
  <2>4. ASSUME NEW r \in Requests, TwoFactor(r) PROVE SessionsInv'
    BY <2>4, EnrolSteps, SecretSteps DEF TwoFactor
  <2> QED  BY <2>1, <2>2, <2>3, <2>4, OtherSteps DEF Next
<1> QED  BY <1>1, InitInv, PTL DEF Spec

\* The variables keep their types: a row of the refresh table is a whole row, and the
\* identifiers drawn and the clock stay within their bounds (auth.c).
THEOREM SessionTypes == Spec => []TypeOK
<1>1. SessionsInv => TypeOK
  BY DEF SessionsInv, Types, TypeOK, Dbs, Hists
<1> QED  BY <1>1, SessionsInvariant, PTL

\* A session that was ended never lives again, unless another request's
\* ROLLBACK undid its end or a rotation was already inserting it.
THEOREM EndedSessionsStayEnded == Spec => []SessionsStayEnded
<1>1. SessionsInv => SessionsStayEnded
  BY DEF SessionsInv, EndInv
<1> QED  BY <1>1, SessionsInvariant, PTL

\* All refreshes with a token return the same successor, until a ROLLBACK
\* changes the token's row.
THEOREM RefreshesAgree == Spec => []ReplaysAgree
<1>1. SessionsInv => ReplaysAgree
  <2> SUFFICES ASSUME SessionsInv, NEW t \in Jti \ h.torn
               PROVE  Cardinality(h.succ[t]) <= 1
    BY DEF ReplaysAgree
  <2>1. h.succ[t] \subseteq Jti
    BY DEF SessionsInv, Types, Hists
  <2>2. \A m, n \in h.succ[t] : m = n
    BY <2>1 DEF SessionsInv, ChainInv, Claimed
  <2>3. CASE h.succ[t] = {}
    BY <2>3, FS_EmptySet
  <2>4. CASE h.succ[t] # {}
    <3>1. PICK n : h.succ[t] = {n}
      BY <2>2, <2>4
    <3>2. Cardinality({n}) = 1
      BY FS_Singleton
    <3> QED  BY <3>1, <3>2
  <2> QED  BY <2>3, <2>4
<1> QED  BY <1>1, SessionsInvariant, PTL

\* No TOTP code is accepted twice while its secret is enrolled.
THEOREM CodesAreAcceptedOnce == Spec => []SecondFactorOnce
<1>1. SessionsInv => SecondFactorOnce
  BY DEF SessionsInv, FactorInv, SecondFactorOnce
<1> QED  BY <1>1, SessionsInvariant, PTL

=============================================================================
