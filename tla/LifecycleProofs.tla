--------------------------- MODULE LifecycleProofs ---------------------------
(***************************************************************************)
(* Proofs about Lifecycle, for any accounts and any number of requests:    *)
(* what the firehose says of an account that no request is changing agrees *)
(* with the account, and a deletion that returns has left one row.         *)
(*                                                                         *)
(* A request is the list of its calls still to make.  The inductive        *)
(* invariant says, for each call that may come next, what the calls before *)
(* it have established; of a list only its next and its last call matter.  *)
(*                                                                         *)
(* The second half is about Accounts: an account's handle is one in all    *)
(* the places that repeat it, and invite codes are accounted for.          *)
(***************************************************************************)
EXTENDS Lifecycle, AccountsInv, FiniteSetTheorems, SequenceTheorems, TLAPS

NextCall(list) == IF list = <<>> THEN "none" ELSE Head(list)

\* The lists of calls that a request of the holder goes through.
UserLists ==
    {<<>>, <<"register", "#identity", "#active", "#sync">>,
     <<"activate", "#identity", "#active", "#sync">>, <<"#identity", "#active", "#sync">>,
     <<"#active", "#sync">>, <<"#sync">>,
     <<"deactivate", "#deactivated">>, <<"#deactivated">>,
     <<"deactivate", "unregister", "lift", "#deleted", "purge">>,
     <<"unregister", "lift", "#deleted", "purge">>, <<"lift", "#deleted", "purge">>,
     <<"#deleted", "purge">>, <<"purge">>}

\* Those that an administrator's goes through.
AdminLists ==
    {<<>>, <<"takedown", "#status">>, <<"lift", "#status">>, <<"#status">>,
     <<"tryDeactivate", "#status">>, <<"tryActivate", "#status">>,
     <<"takedown", "tryDeactivate", "#status">>,
     <<"lift", "tryDeactivate", "#status">>, <<"lift", "tryActivate", "#status">>,
     <<"#deleted", "purge", "unregister", "lift", "rmtree">>,
     <<"purge", "unregister", "lift", "rmtree">>, <<"unregister", "lift", "rmtree">>,
     <<"lift", "rmtree">>, <<"rmtree">>}

WriterLists == {<<>>, <<"commit", "#commit">>, <<"#commit">>}

\* The types of all variables, the log's rows and the lists among them.
Types ==
    /\ state \in {"down", "starting", "up"}
    /\ registered \subseteq minted /\ minted \subseteq Identities
    /\ active \in [Identities -> BOOLEAN] /\ head \in [Identities -> Nat] /\ nseq \in Nat
    /\ user \in [Identities -> UserLists] /\ admin \in [Identities -> AdminLists]
    /\ writer \in [Identities -> WriterLists]

\* Rows are numbered from 1, each its own number.
LogInv ==
    /\ \A r \in rows : r.seq \in Nat /\ r.seq <= nseq
    /\ \A r, q \in rows : r.seq = q.seq => r = q

\* The account's newest #account event agrees with its flag.
Agrees(d) == \E r \in Newest(d, {"account"}) : (r.status = "active") <=> active[d]

\* No request runs without its process, nor on an account that was never
\* created, and requests that overlap are recorded.
RunInv(d) ==
    /\ d \notin minted => active[d]
    /\ (state # "up" \/ d \notin minted) =>
          user[d] = <<>> /\ admin[d] = <<>> /\ writer[d] = <<>>
    /\ d \notin overlap => user[d] = <<>> \/ admin[d] = <<>>
    /\ d \notin raced => writer[d] = <<>> \/ (user[d] = <<>> /\ admin[d] = <<>>)

\* What a request of the holder has established before its next call.
UserInv(d) ==
    LET next == NextCall(user[d]) IN
    /\ next = "register" => d \notin registered
    /\ next \in {"register", "#identity", "#active"} => active[d]
    /\ next = "#sync" => Agrees(d)
    /\ next = "#deactivated" => ~active[d]
    /\ next \in {"lift", "#deleted", "purge"} => d \notin registered

\* The same for an administrator's, and for none.
AdminInv(d) ==
    /\ (NextCall(admin[d]) = "lift" /\ LastCall(admin[d]) = "rmtree") => d \notin registered
    /\ NextCall(admin[d]) = "rmtree" => d \notin registered
    /\ (d \in registered \ takedown /\ user[d] = <<>> /\ admin[d] = <<>>) => Agrees(d)

StatusInv(d) == (state = "up" /\ d \notin overlap) => UserInv(d) /\ AdminInv(d)

\* Before a purge the announcement of the deletion is the account's newest row;
\* after it, its only one.
AnnouncedLast(d) ==
    \E r \in OfAccount(rows, d) :
        r.status = "deleted" /\ \A q \in OfAccount(rows, d) : q.seq <= r.seq

OneRow(d) == \E r \in rows : OfAccount(rows, d) = {r} /\ r.status = "deleted"

DeleteInv(d) ==
    d \notin overlap \cup raced =>
        /\ (NextCall(user[d]) = "purge" \/ NextCall(admin[d]) = "purge") => AnnouncedLast(d)
        /\ (LastCall(admin[d]) = "rmtree"
              /\ NextCall(admin[d]) \in {"unregister", "lift", "rmtree"}) => OneRow(d)

AccountInv(d) == RunInv(d) /\ StatusInv(d) /\ DeleteInv(d)

\* A starting server has reconciled the accounts it has not still to.
StartInv == state = "starting" => \A d \in registered \ todo : Agrees(d)

LifeInv == Types /\ LogInv /\ StartInv /\ \A d \in Identities : AccountInv(d)

(***************************************************************************)
(* The lists.                                                              *)
(***************************************************************************)

\* The calls of the holder's requests, in their order.
LEMMA UserCalls ==
    ASSUME NEW l \in UserLists, l # <<>>
    PROVE  /\ Tail(l) \in UserLists
           /\ NextCall(l) = Head(l) /\ Head(l) # "none"
           /\ Head(l) \in {"register", "activate", "#identity", "#active", "#sync",
                           "deactivate", "#deactivated", "unregister", "lift", "#deleted", "purge"}
           /\ Head(l) \in {"register", "activate"} => NextCall(Tail(l)) = "#identity"
           /\ Head(l) = "#identity" => NextCall(Tail(l)) = "#active"
           /\ Head(l) = "#active" => NextCall(Tail(l)) = "#sync"
           /\ Head(l) = "deactivate" => NextCall(Tail(l)) \in {"#deactivated", "unregister"}
           /\ Head(l) = "unregister" => NextCall(Tail(l)) = "lift"
           /\ Head(l) = "lift" => NextCall(Tail(l)) = "#deleted"
           /\ Head(l) = "#deleted" => NextCall(Tail(l)) = "purge"
           /\ Head(l) \in {"#sync", "#deactivated", "purge"} => Tail(l) = <<>>
           /\ l = <<"purge">> <=> Head(l) = "purge"
<1>1. CASE l = <<"register", "#identity", "#active", "#sync">>
  <2>1. Head(l) = "register" /\ Tail(l) = <<"#identity", "#active", "#sync">> /\ Tail(l) # <<>> /\ Head(Tail(l)) = "#identity"
    BY <1>1
  <2> QED  BY <1>1, <2>1 DEF UserLists, NextCall
<1>2. CASE l = <<"activate", "#identity", "#active", "#sync">>
  <2>1. Head(l) = "activate" /\ Tail(l) = <<"#identity", "#active", "#sync">> /\ Tail(l) # <<>> /\ Head(Tail(l)) = "#identity"
    BY <1>2
  <2> QED  BY <1>2, <2>1 DEF UserLists, NextCall
<1>3. CASE l = <<"#identity", "#active", "#sync">>
  <2>1. Head(l) = "#identity" /\ Tail(l) = <<"#active", "#sync">> /\ Tail(l) # <<>> /\ Head(Tail(l)) = "#active"
    BY <1>3
  <2> QED  BY <1>3, <2>1 DEF UserLists, NextCall
<1>4. CASE l = <<"#active", "#sync">>
  <2>1. Head(l) = "#active" /\ Tail(l) = <<"#sync">> /\ Tail(l) # <<>> /\ Head(Tail(l)) = "#sync"
    BY <1>4
  <2> QED  BY <1>4, <2>1 DEF UserLists, NextCall
<1>5. CASE l = <<"#sync">>
  <2>1. Head(l) = "#sync" /\ Tail(l) = <<>>
    BY <1>5
  <2> QED  BY <1>5, <2>1 DEF UserLists, NextCall
<1>6. CASE l = <<"deactivate", "#deactivated">>
  <2>1. Head(l) = "deactivate" /\ Tail(l) = <<"#deactivated">> /\ Tail(l) # <<>> /\ Head(Tail(l)) = "#deactivated"
    BY <1>6
  <2> QED  BY <1>6, <2>1 DEF UserLists, NextCall
<1>7. CASE l = <<"#deactivated">>
  <2>1. Head(l) = "#deactivated" /\ Tail(l) = <<>>
    BY <1>7
  <2> QED  BY <1>7, <2>1 DEF UserLists, NextCall
<1>8. CASE l = <<"deactivate", "unregister", "lift", "#deleted", "purge">>
  <2>1. Head(l) = "deactivate" /\ Tail(l) = <<"unregister", "lift", "#deleted", "purge">> /\ Tail(l) # <<>> /\ Head(Tail(l)) = "unregister"
    BY <1>8
  <2> QED  BY <1>8, <2>1 DEF UserLists, NextCall
<1>9. CASE l = <<"unregister", "lift", "#deleted", "purge">>
  <2>1. Head(l) = "unregister" /\ Tail(l) = <<"lift", "#deleted", "purge">> /\ Tail(l) # <<>> /\ Head(Tail(l)) = "lift"
    BY <1>9
  <2> QED  BY <1>9, <2>1 DEF UserLists, NextCall
<1>10. CASE l = <<"lift", "#deleted", "purge">>
  <2>1. Head(l) = "lift" /\ Tail(l) = <<"#deleted", "purge">> /\ Tail(l) # <<>> /\ Head(Tail(l)) = "#deleted"
    BY <1>10
  <2> QED  BY <1>10, <2>1 DEF UserLists, NextCall
<1>11. CASE l = <<"#deleted", "purge">>
  <2>1. Head(l) = "#deleted" /\ Tail(l) = <<"purge">> /\ Tail(l) # <<>> /\ Head(Tail(l)) = "purge"
    BY <1>11
  <2> QED  BY <1>11, <2>1 DEF UserLists, NextCall
<1>12. CASE l = <<"purge">>
  <2>1. Head(l) = "purge" /\ Tail(l) = <<>>
    BY <1>12
  <2> QED  BY <1>12, <2>1 DEF UserLists, NextCall
<1> QED  BY <1>1, <1>2, <1>3, <1>4, <1>5, <1>6, <1>7, <1>8, <1>9, <1>10, <1>11, <1>12 DEF UserLists

\* Those of an administrator's.
LEMMA AdminCalls ==
    ASSUME NEW l \in AdminLists, l # <<>>
    PROVE  /\ Tail(l) \in AdminLists
           /\ NextCall(l) = Head(l) /\ Head(l) # "none"
           /\ Head(l) \in {"takedown", "lift", "tryDeactivate", "tryActivate", "#status",
                           "#deleted", "purge", "unregister", "rmtree"}
           /\ LastCall(l) \in {"#status", "rmtree"}
           /\ Tail(l) # <<>> => LastCall(Tail(l)) = LastCall(l)
           /\ Tail(l) = <<>> <=> Head(l) \in {"#status", "rmtree"}
           /\ Head(l) \in {"#deleted", "purge", "unregister", "rmtree"} => LastCall(l) = "rmtree"
           /\ Head(l) \in {"takedown", "tryDeactivate", "tryActivate", "#status"} => LastCall(l) = "#status"
           /\ Head(l) = "#deleted" => NextCall(Tail(l)) = "purge"
           /\ Head(l) = "purge" => NextCall(Tail(l)) = "unregister"
           /\ Head(l) = "unregister" => NextCall(Tail(l)) = "lift"
           /\ (Head(l) = "lift" /\ LastCall(l) = "rmtree") => NextCall(Tail(l)) = "rmtree"
           /\ NextCall(Tail(l)) \in {"purge", "unregister", "rmtree"} => LastCall(l) = "rmtree"
           /\ l = <<"rmtree">> <=> Head(l) = "rmtree"
<1>1. CASE l = <<"takedown", "#status">>
  <2>1. /\ Head(l) = "takedown" /\ Tail(l) = <<"#status">> /\ Tail(l) # <<>> /\ Head(Tail(l)) = "#status"
        /\ LastCall(l) = "#status" /\ LastCall(Tail(l)) = "#status"
    BY <1>1 DEF LastCall
  <2> QED  BY <1>1, <2>1 DEF AdminLists, NextCall
<1>2. CASE l = <<"lift", "#status">>
  <2>1. /\ Head(l) = "lift" /\ Tail(l) = <<"#status">> /\ Tail(l) # <<>> /\ Head(Tail(l)) = "#status"
        /\ LastCall(l) = "#status" /\ LastCall(Tail(l)) = "#status"
    BY <1>2 DEF LastCall
  <2> QED  BY <1>2, <2>1 DEF AdminLists, NextCall
<1>3. CASE l = <<"#status">>
  <2>1. /\ Head(l) = "#status" /\ Tail(l) = <<>>
        /\ LastCall(l) = "#status"
    BY <1>3 DEF LastCall
  <2> QED  BY <1>3, <2>1 DEF AdminLists, NextCall
<1>4. CASE l = <<"tryDeactivate", "#status">>
  <2>1. /\ Head(l) = "tryDeactivate" /\ Tail(l) = <<"#status">> /\ Tail(l) # <<>> /\ Head(Tail(l)) = "#status"
        /\ LastCall(l) = "#status" /\ LastCall(Tail(l)) = "#status"
    BY <1>4 DEF LastCall
  <2> QED  BY <1>4, <2>1 DEF AdminLists, NextCall
<1>5. CASE l = <<"tryActivate", "#status">>
  <2>1. /\ Head(l) = "tryActivate" /\ Tail(l) = <<"#status">> /\ Tail(l) # <<>> /\ Head(Tail(l)) = "#status"
        /\ LastCall(l) = "#status" /\ LastCall(Tail(l)) = "#status"
    BY <1>5 DEF LastCall
  <2> QED  BY <1>5, <2>1 DEF AdminLists, NextCall
<1>6. CASE l = <<"takedown", "tryDeactivate", "#status">>
  <2>1. /\ Head(l) = "takedown" /\ Tail(l) = <<"tryDeactivate", "#status">> /\ Tail(l) # <<>> /\ Head(Tail(l)) = "tryDeactivate"
        /\ LastCall(l) = "#status" /\ LastCall(Tail(l)) = "#status"
    BY <1>6 DEF LastCall
  <2> QED  BY <1>6, <2>1 DEF AdminLists, NextCall
<1>7. CASE l = <<"lift", "tryDeactivate", "#status">>
  <2>1. /\ Head(l) = "lift" /\ Tail(l) = <<"tryDeactivate", "#status">> /\ Tail(l) # <<>> /\ Head(Tail(l)) = "tryDeactivate"
        /\ LastCall(l) = "#status" /\ LastCall(Tail(l)) = "#status"
    BY <1>7 DEF LastCall
  <2> QED  BY <1>7, <2>1 DEF AdminLists, NextCall
<1>8. CASE l = <<"lift", "tryActivate", "#status">>
  <2>1. /\ Head(l) = "lift" /\ Tail(l) = <<"tryActivate", "#status">> /\ Tail(l) # <<>> /\ Head(Tail(l)) = "tryActivate"
        /\ LastCall(l) = "#status" /\ LastCall(Tail(l)) = "#status"
    BY <1>8 DEF LastCall
  <2> QED  BY <1>8, <2>1 DEF AdminLists, NextCall
<1>9. CASE l = <<"#deleted", "purge", "unregister", "lift", "rmtree">>
  <2>1. /\ Head(l) = "#deleted" /\ Tail(l) = <<"purge", "unregister", "lift", "rmtree">> /\ Tail(l) # <<>> /\ Head(Tail(l)) = "purge"
        /\ LastCall(l) = "rmtree" /\ LastCall(Tail(l)) = "rmtree"
    BY <1>9 DEF LastCall
  <2> QED  BY <1>9, <2>1 DEF AdminLists, NextCall
<1>10. CASE l = <<"purge", "unregister", "lift", "rmtree">>
  <2>1. /\ Head(l) = "purge" /\ Tail(l) = <<"unregister", "lift", "rmtree">> /\ Tail(l) # <<>> /\ Head(Tail(l)) = "unregister"
        /\ LastCall(l) = "rmtree" /\ LastCall(Tail(l)) = "rmtree"
    BY <1>10 DEF LastCall
  <2> QED  BY <1>10, <2>1 DEF AdminLists, NextCall
<1>11. CASE l = <<"unregister", "lift", "rmtree">>
  <2>1. /\ Head(l) = "unregister" /\ Tail(l) = <<"lift", "rmtree">> /\ Tail(l) # <<>> /\ Head(Tail(l)) = "lift"
        /\ LastCall(l) = "rmtree" /\ LastCall(Tail(l)) = "rmtree"
    BY <1>11 DEF LastCall
  <2> QED  BY <1>11, <2>1 DEF AdminLists, NextCall
<1>12. CASE l = <<"lift", "rmtree">>
  <2>1. /\ Head(l) = "lift" /\ Tail(l) = <<"rmtree">> /\ Tail(l) # <<>> /\ Head(Tail(l)) = "rmtree"
        /\ LastCall(l) = "rmtree" /\ LastCall(Tail(l)) = "rmtree"
    BY <1>12 DEF LastCall
  <2> QED  BY <1>12, <2>1 DEF AdminLists, NextCall
<1>13. CASE l = <<"rmtree">>
  <2>1. /\ Head(l) = "rmtree" /\ Tail(l) = <<>>
        /\ LastCall(l) = "rmtree"
    BY <1>13 DEF LastCall
  <2> QED  BY <1>13, <2>1 DEF AdminLists, NextCall
<1> QED  BY <1>1, <1>2, <1>3, <1>4, <1>5, <1>6, <1>7, <1>8, <1>9, <1>10, <1>11, <1>12, <1>13 DEF AdminLists

\* A call put before the announcement of an activation.
LEMMA Prefixed ==
    ASSUME NEW S, NEW a \in S, NEW b \in S, NEW c \in S, NEW d \in S
    PROVE  <<a>> \o <<b, c, d>> = <<a, b, c, d>>
<1> DEFINE s == <<a>>
           t == <<b, c, d>>
           u == <<a, b, c, d>>
<1>1. /\ s \in Seq(S) /\ t \in Seq(S) /\ u \in Seq(S) /\ Len(s) = 1 /\ Len(t) = 3 /\ Len(u) = 4
      /\ s[1] = a /\ t[1] = b /\ t[2] = c /\ t[3] = d
      /\ u[1] = a /\ u[2] = b /\ u[3] = c /\ u[4] = d
  OBVIOUS
<1> HIDE DEF s, t, u
<1>2. /\ s \o t \in Seq(S) /\ Len(s \o t) = Len(s) + Len(t)
      /\ \A i \in 1..Len(s) + Len(t) : (s \o t)[i] = IF i <= Len(s) THEN s[i] ELSE t[i - Len(s)]
  BY <1>1, ConcatProperties
<1>3. Len(s \o t) = Len(u) /\ \A i \in 1..4 : (s \o t)[i] = u[i]
  BY <1>1, <1>2
<1>4. s \o t = u
  BY <1>1, <1>2, <1>3, SeqEqual
<1> QED  BY <1>4 DEF s, t, u

\* How the holder's requests begin.
LEMMA UserStarts ==
    /\ create_account_calls \in UserLists /\ create_account_calls # <<>>
    /\ NextCall(create_account_calls) = "register"
    /\ \A l \in {deactivate_account_calls, activate_account_calls, delete_account_calls} :
          l \in UserLists /\ l # <<>> /\ NextCall(l) \in {"activate", "deactivate"}
<1>1. /\ create_account_calls = <<"register", "#identity", "#active", "#sync">>
      /\ activate_account_calls = <<"activate", "#identity", "#active", "#sync">>
  <2> DEFINE S == {"register", "activate", "#identity", "#active", "#sync"}
  <2>1. \A a \in S : <<a>> \o <<"#identity", "#active", "#sync">> = <<a, "#identity", "#active", "#sync">>
    <3>1. "#identity" \in S /\ "#active" \in S /\ "#sync" \in S
      OBVIOUS
    <3> HIDE DEF S
    <3> QED  BY <3>1, Prefixed
  <2> QED  BY <2>1 DEF create_account_calls, activate_account_calls, account_activation_calls
<1>2. /\ deactivate_account_calls = <<"deactivate", "#deactivated">>
      /\ delete_account_calls = <<"deactivate", "unregister", "lift", "#deleted", "purge">>
  BY DEF deactivate_account_calls, delete_account_calls
<1>3. create_account_calls \in UserLists /\ create_account_calls # <<>> /\ NextCall(create_account_calls) = "register"
  BY <1>1 DEF UserLists, NextCall
<1>4. activate_account_calls \in UserLists /\ activate_account_calls # <<>> /\ NextCall(activate_account_calls) = "activate"
  BY <1>1 DEF UserLists, NextCall
<1>5. deactivate_account_calls \in UserLists /\ deactivate_account_calls # <<>> /\ NextCall(deactivate_account_calls) = "deactivate"
  BY <1>2 DEF UserLists, NextCall
<1>6. delete_account_calls \in UserLists /\ delete_account_calls # <<>> /\ NextCall(delete_account_calls) = "deactivate"
  BY <1>2 DEF UserLists, NextCall
<1> QED  BY <1>3, <1>4, <1>5, <1>6

\* How an administrator's begin.
LEMMA AdminStarts ==
    ASSUME NEW l \in update_subject_status \cup {admin_delete_account_calls}
    PROVE  /\ l \in AdminLists /\ l # <<>>
           /\ \/ LastCall(l) = "#status" /\ NextCall(l) \notin {"purge", "unregister", "rmtree"}
              \/ NextCall(l) = "#deleted"
<1>1. CASE l = admin_delete_account_calls
  BY <1>1 DEF admin_delete_account_calls, AdminLists, NextCall
<1>2. CASE l \in update_subject_status
  <2>1. l \in AdminLists /\ l # <<>>
    BY <1>2 DEF update_subject_status, AdminLists
  <2>2. \/ l = <<"takedown", "#status">> \/ l = <<"lift", "#status">>
        \/ l = <<"tryDeactivate", "#status">> \/ l = <<"tryActivate", "#status">>
        \/ l = <<"takedown", "tryDeactivate", "#status">>
        \/ l = <<"lift", "tryDeactivate", "#status">> \/ l = <<"lift", "tryActivate", "#status">>
    BY <1>2 DEF update_subject_status
  <2>3. LastCall(l) = "#status"
    BY <2>2 DEF LastCall
  <2>4. NextCall(l) \notin {"purge", "unregister", "rmtree"}
    BY <2>2 DEF NextCall
  <2> QED  BY <2>1, <2>3, <2>4
<1> QED  BY <1>1, <1>2

\* A record's write.
LEMMA WriterCalls ==
    /\ write_record \in WriterLists
    /\ \A l \in WriterLists : l # <<>> => Tail(l) \in WriterLists /\ Head(l) \in {"commit", "#commit"}
  BY DEF WriterLists, write_record

\* A thread without a list has no next and no last call.
LEMMA EmptyList == NextCall(<<>>) = "none" /\ LastCall(<<>>) = "none"
  BY DEF NextCall, LastCall

(***************************************************************************)
(* One call of a request.                                                  *)
(***************************************************************************)

\* An event that is appended is the newest of its account.
LEMMA AppendedLog ==
    ASSUME Types, LogInv, NEW d \in Identities, NEW kind, NEW status, Appended(d, kind, status)
    PROVE  /\ LogInv' /\ nseq' \in Nat
           /\ \A e : e # d => OfAccount(rows', e) = OfAccount(rows, e)
           /\ \E x \in OfAccount(rows', d) :
                /\ x.kind = kind /\ x.status = status
                /\ \A q \in rows' : q.seq <= x.seq
                /\ OfAccount(rows', d) = OfAccount(rows, d) \cup {x}
<1> DEFINE x == [seq |-> nseq + 1, did |-> d, kind |-> kind, status |-> status, rev |-> head[d]]
<1>1. rows' = rows \cup {x} /\ nseq' = nseq + 1 /\ nseq \in Nat
  BY DEF Appended, Types
<1>2. x.seq = nseq + 1 /\ x.did = d /\ x.kind = kind /\ x.status = status
  OBVIOUS
<1> HIDE DEF x
<1>3. LogInv' /\ nseq' \in Nat
  BY <1>1, <1>2 DEF LogInv
<1>4. \A e : e # d => OfAccount(rows', e) = OfAccount(rows, e)
  BY <1>1, <1>2 DEF OfAccount
<1>5. x \in OfAccount(rows', d) /\ OfAccount(rows', d) = OfAccount(rows, d) \cup {x}
  BY <1>1, <1>2 DEF OfAccount
<1>6. \A q \in rows' : q.seq <= x.seq
  BY <1>1, <1>2 DEF LogInv
<1> QED  BY <1>2, <1>3, <1>4, <1>5, <1>6

\* What is said of an account depends on its own rows and flag.
LEMMA AgreesFrame ==
    ASSUME NEW e, OfAccount(rows', e) = OfAccount(rows, e), active'[e] = active[e]
    PROVE  /\ Agrees(e)' = Agrees(e) /\ AnnouncedLast(e)' = AnnouncedLast(e)
           /\ OneRow(e)' = OneRow(e)
<1>1. Agrees(e)' = Agrees(e)
  BY DEF Agrees, Newest
<1>2. AnnouncedLast(e)' = AnnouncedLast(e)
  BY DEF AnnouncedLast
<1>3. OneRow(e)' = OneRow(e)
  BY DEF OneRow, OfAccount
<1> QED  BY <1>1, <1>2, <1>3

\* Events of other kinds do not change what is said of the account's status.
LEMMA OtherKinds ==
    ASSUME NEW d, NEW x, OfAccount(rows', d) = OfAccount(rows, d) \cup {x},
           x.kind # "account", active'[d] = active[d], Agrees(d)
    PROVE  Agrees(d)'
<1>1. Newest(d, {"account"})' = Newest(d, {"account"})
  BY DEF Newest
<1> QED  BY <1>1 DEF Agrees

\* An #account event that gives the account's status makes it agree.
LEMMA Announced ==
    ASSUME NEW d, NEW x \in OfAccount(rows', d), x.kind = "account",
           \A q \in rows' : q.seq <= x.seq, (x.status = "active") <=> active'[d]
    PROVE  Agrees(d)'
<1>1. x \in Newest(d, {"account"})'
  BY DEF Newest, OfAccount
<1> QED  BY <1>1 DEF Agrees

\* A call changes its own account, and keeps the log in order.
LEMMA CallFrame ==
    ASSUME Types, LogInv, NEW d \in Identities, NEW step, Call(step, d)
    PROVE  /\ LogInv' /\ nseq' \in Nat /\ head' \in [Identities -> Nat] /\ active' \in [Identities -> BOOLEAN]
           /\ minted' = minted
           /\ \A e \in Identities : e # d =>
                /\ OfAccount(rows', e) = OfAccount(rows, e) /\ active'[e] = active[e]
                /\ e \in registered' <=> e \in registered
                /\ e \in takedown' <=> e \in takedown
<1> DEFINE Log == /\ LogInv' /\ nseq' \in Nat
                  /\ \A e \in Identities : e # d => OfAccount(rows', e) = OfAccount(rows, e)
<1>1. ASSUME UNCHANGED logVars
      PROVE  Log
  BY <1>1 DEF logVars, LogInv, OfAccount, Types
<1>2. ASSUME NEW kind, NEW status, Announce(d, kind, status)
      PROVE  Log /\ UNCHANGED dataVars
  <2>1. Appended(d, kind, status) /\ UNCHANGED dataVars
    BY <1>2 DEF Announce
  <2> QED  BY <2>1, AppendedLog
<1>3. ASSUME rows' = rows \ Superseded(rows, d), nseq' = nseq
      PROVE  Log
  BY <1>3 DEF LogInv, OfAccount, Superseded, Types
<1> HIDE DEF Log
<1>4. Log
  BY <1>1, <1>2, <1>3 DEF Call, SetFlag, Skip
<1>5. /\ head' \in [Identities -> Nat] /\ active' \in [Identities -> BOOLEAN] /\ minted' = minted
      /\ \A e \in Identities : e # d => /\ active'[e] = active[e]
                                        /\ e \in registered' <=> e \in registered
                                        /\ e \in takedown' <=> e \in takedown
  <2>1. CASE UNCHANGED dataVars
    BY <2>1 DEF dataVars, Types
  <2>2. CASE SetFlag(d, TRUE)
    BY <2>2 DEF SetFlag, Types
  <2>3. CASE SetFlag(d, FALSE)
    BY <2>3 DEF SetFlag, Types
  <2>4. CASE /\ registered' = IF step = "register" THEN registered \cup {d} ELSE registered \ {d}
             /\ UNCHANGED <<minted, active, takedown, head, logVars>>
    BY <2>4 DEF Types
  <2>5. CASE /\ takedown' = IF step = "takedown" THEN takedown \cup {d} ELSE takedown \ {d}
             /\ UNCHANGED <<minted, registered, active, head, logVars>>
    BY <2>5 DEF Types
  <2>6. CASE /\ head' = [head EXCEPT ![d] = @ + 1]
             /\ UNCHANGED <<minted, registered, active, takedown, logVars>>
    BY <2>6 DEF Types
  <2> QED  BY <1>2, <2>1, <2>2, <2>3, <2>4, <2>5, <2>6 DEF Call, Skip
<1> QED  BY <1>4, <1>5 DEF Log

\* What the calls do to the account's flag, its registry row and its takedown.
LEMMA CallData ==
    ASSUME Types, NEW d \in Identities, NEW step, Call(step, d)
    PROVE  /\ step \notin {"register", "unregister"} => registered' = registered
           /\ step = "register" => registered' = registered \cup {d}
           /\ step = "unregister" => registered' = registered \ {d}
           /\ step \notin {"takedown", "lift"} => takedown' = takedown
           /\ step \notin {"activate", "deactivate", "tryActivate", "tryDeactivate"} => active' = active
           /\ step = "activate" => active'[d] /\ active'[d] \in BOOLEAN
           /\ step = "deactivate" => ~active'[d]
           /\ step \in {"register", "unregister", "lift", "rmtree", "commit"} => rows' = rows
<1>1. /\ step \notin {"register", "unregister"} => registered' = registered
      /\ step = "register" => registered' = registered \cup {d}
      /\ step = "unregister" => registered' = registered \ {d}
      /\ step \notin {"takedown", "lift"} => takedown' = takedown
      /\ step \notin {"activate", "deactivate", "tryActivate", "tryDeactivate"} => active' = active
  BY DEF Call, SetFlag, Announce, Skip, dataVars
<1>2. step \in {"activate", "deactivate"} =>
        active' = [active EXCEPT ![d] = (step = "activate")]
  BY DEF Call, SetFlag
<1>3. active \in [Identities -> BOOLEAN]
  BY DEF Types
<1>4. step \in {"register", "unregister", "lift", "rmtree", "commit"} => rows' = rows
  BY DEF Call, Skip, logVars
<1> QED  BY <1>1, <1>2, <1>3, <1>4

\* What they do to what the log says of it.
LEMMA CallLog ==
    ASSUME Types, LogInv, NEW d \in Identities, NEW step, Call(step, d)
    PROVE  /\ (step \in {"#sync", "commit", "#commit"} /\ Agrees(d)) => Agrees(d)'
           /\ (step = "#active" /\ active[d]) => Agrees(d)'
           /\ (step = "#deactivated" /\ ~active[d]) => Agrees(d)'
           /\ (step = "#status" /\ d \in registered \ takedown) => Agrees(d)'
           /\ step = "#deleted" => AnnouncedLast(d)'
           /\ (step = "purge" /\ AnnouncedLast(d)) => OneRow(d)'
<1>1. ASSUME step \in {"#sync", "commit", "#commit"}, Agrees(d)
      PROVE  Agrees(d)'
  <2>1. active' = active
    BY <1>1, CallData
  <2>2. \/ rows' = rows
        \/ \E kind \in {"sync", "commit"} : Appended(d, kind, "active")
    BY <1>1 DEF Call, Skip, Announce, logVars
  <2>3. CASE rows' = rows
    BY <1>1, <2>1, <2>3, AgreesFrame
  <2>4. ASSUME NEW kind \in {"sync", "commit"}, Appended(d, kind, "active")
        PROVE  Agrees(d)'
    <3>1. PICK x : x.kind = kind /\ OfAccount(rows', d) = OfAccount(rows, d) \cup {x}
      BY <2>4, AppendedLog
    <3> QED  BY <1>1, <2>1, <3>1, OtherKinds
  <2> QED  BY <2>2, <2>3, <2>4
<1>2. ASSUME NEW status, Announce(d, "account", status), (status = "active") <=> active[d]
      PROVE  Agrees(d)'
  <2>1. Appended(d, "account", status) /\ active' = active
    BY <1>2 DEF Announce, dataVars
  <2>2. PICK x \in OfAccount(rows', d) :
           x.kind = "account" /\ x.status = status /\ \A q \in rows' : q.seq <= x.seq
    BY <2>1, AppendedLog
  <2> QED  BY <1>2, <2>1, <2>2, Announced
<1>3. step = "#active" => Announce(d, "account", "active")
  BY DEF Call
<1>4. step = "#deactivated" => Announce(d, "account", "deactivated")
  BY DEF Call
<1>5. (step = "#status" /\ d \in registered \ takedown) => Announce(d, "account", account_status_string(d))
  BY DEF Call
<1>6. d \in registered \ takedown => ((account_status_string(d) = "active") <=> active[d])
  BY DEF account_status_string
<1>7. step = "#deleted" => AnnouncedLast(d)'
  <2>1. SUFFICES ASSUME step = "#deleted" PROVE AnnouncedLast(d)'
    OBVIOUS
  <2>2. Appended(d, "account", "deleted")
    BY <2>1 DEF Call, Announce
  <2>3. PICK x \in OfAccount(rows', d) : x.status = "deleted" /\ \A q \in rows' : q.seq <= x.seq
    BY <2>2, AppendedLog
  <2> QED  BY <2>3 DEF AnnouncedLast, OfAccount
<1>8. (step = "purge" /\ AnnouncedLast(d)) => OneRow(d)'
  <2>1. SUFFICES ASSUME step = "purge", AnnouncedLast(d) PROVE OneRow(d)'
    OBVIOUS
  <2>2. rows' = rows \ Superseded(rows, d)
    BY <2>1 DEF Call
  <2>3. PICK r \in OfAccount(rows, d) : r.status = "deleted" /\ \A q \in OfAccount(rows, d) : q.seq <= r.seq
    BY <2>1 DEF AnnouncedLast
  <2>4. \A q \in OfAccount(rows, d) : q # r => q.seq < r.seq
    BY <2>3 DEF LogInv, OfAccount
  <2>5. r \in rows' /\ OfAccount(rows', d) = {r}
    BY <2>2, <2>3, <2>4 DEF OfAccount, Superseded, LogInv
  <2> QED  BY <2>3, <2>5 DEF OneRow
<1> QED  BY <1>1, <1>2, <1>3, <1>4, <1>5, <1>6, <1>7, <1>8


(***************************************************************************)
(* The invariant is inductive.                                             *)
(***************************************************************************)

\* A step that leaves an account and its requests alone leaves its invariant.
LEMMA AccountFrame ==
    ASSUME NEW e, AccountInv(e), OfAccount(rows', e) = OfAccount(rows, e),
           active'[e] = active[e], e \in registered' <=> e \in registered,
           e \in takedown' <=> e \in takedown, e \in minted' <=> e \in minted,
           e \in overlap' <=> e \in overlap, e \in raced' <=> e \in raced,
           user'[e] = user[e], admin'[e] = admin[e], writer'[e] = writer[e], state' = state
    PROVE  AccountInv(e)'
<1>1. Agrees(e)' = Agrees(e) /\ AnnouncedLast(e)' = AnnouncedLast(e) /\ OneRow(e)' = OneRow(e)
  BY AgreesFrame
<1>2. /\ NextCall(user[e])' = NextCall(user[e]) /\ NextCall(admin[e])' = NextCall(admin[e])
      /\ LastCall(admin[e])' = LastCall(admin[e])
  BY DEF NextCall, LastCall
<1>3. RunInv(e)'
  BY DEF AccountInv, RunInv
<1>4. UserInv(e)' = UserInv(e)
  BY <1>1, <1>2 DEF UserInv
<1>5. AdminInv(e)' = AdminInv(e)
  BY <1>1, <1>2 DEF AdminInv
<1>6. StatusInv(e)'
  BY <1>4, <1>5 DEF AccountInv, StatusInv
<1>7. DeleteInv(e)'
  BY <1>1, <1>2 DEF AccountInv, DeleteInv
<1> QED  BY <1>3, <1>6, <1>7 DEF AccountInv

\* Without a request on it, an account's invariant is what is said of it.
LEMMA IdleAccount ==
    ASSUME NEW e, user[e] = <<>>, admin[e] = <<>>, writer[e] = <<>>,
           e \notin minted => active[e],
           (state = "up" /\ e \in registered) => Agrees(e)
    PROVE  AccountInv(e)
<1>1. /\ NextCall(user[e]) = "none" /\ NextCall(admin[e]) = "none" /\ LastCall(admin[e]) = "none"
  BY EmptyList
<1>2. RunInv(e)
  BY DEF RunInv
<1>3. state = "up" => UserInv(e) /\ AdminInv(e)
  BY <1>1 DEF UserInv, AdminInv
<1>4. DeleteInv(e)
  BY <1>1 DEF DeleteInv
<1> QED  BY <1>2, <1>3, <1>4 DEF AccountInv, StatusInv

\* A request of the holder comes in.
LEMMA UserRequestInv ==
    ASSUME LifeInv, NEW d \in Identities, UserRequest(d)
    PROVE  LifeInv'
<1> USE DEF LifeInv
<1>1. /\ state = "up" /\ user[d] = <<>> /\ UNCHANGED <<state, todo, registered, active, takedown, head, rows, nseq, admin, writer>>
      /\ overlap' = IF admin[d] # <<>> THEN overlap \cup {d} ELSE overlap
      /\ raced' = IF writer[d] # <<>> THEN raced \cup {d} ELSE raced
  BY DEF UserRequest, Received, hostVars, logVars
<1>2. AccountInv(d)
  OBVIOUS
<1>3. PICK list \in UserLists :
        /\ list # <<>> /\ user' = [user EXCEPT ![d] = list]
        /\ \/ d \notin minted /\ minted' = minted \cup {d} /\ NextCall(list) = "register"
           \/ d \in minted /\ minted' = minted /\ NextCall(list) \in {"activate", "deactivate"}
  <2>1. CASE d \notin minted /\ minted' = minted \cup {d} /\ user' = [user EXCEPT ![d] = create_account_calls]
    BY <2>1, UserStarts
  <2>2. CASE /\ d \in Resolves /\ UNCHANGED minted
             /\ \E list \in {deactivate_account_calls, activate_account_calls, delete_account_calls} :
                   user' = [user EXCEPT ![d] = list]
    <3>1. d \in minted
      BY <2>2 DEF Resolves, Types
    <3> QED  BY <2>2, <3>1, UserStarts
  <2> QED  BY <2>1, <2>2 DEF UserRequest
<1>4. user'[d] = list /\ NextCall(user'[d]) = NextCall(list) /\ \A e \in Identities : e # d => user'[e] = user[e]
  BY <1>3 DEF Types
<1>5. Types'
  <2>1. user' \in [Identities -> UserLists]
    BY <1>3 DEF Types
  <2>2. registered' \subseteq minted' /\ minted' \subseteq Identities
    BY <1>1, <1>3 DEF Types
  <2> QED  BY <1>1, <2>1, <2>2 DEF Types
<1>6. LogInv' /\ StartInv'
  BY <1>1 DEF LogInv, StartInv
<1>7. AccountInv(d)'
  <2>1. RunInv(d)'
    BY <1>1, <1>2, <1>3, <1>4 DEF AccountInv, RunInv
  <2>2. d \notin overlap' => admin'[d] = <<>> /\ NextCall(admin'[d]) = "none" /\ LastCall(admin'[d]) = "none"
    BY <1>1, EmptyList
  <2>3. NextCall(list) = "register" => d \notin registered' /\ active'[d]
    BY <1>1, <1>2, <1>3 DEF AccountInv, RunInv, Types
  <2>4. UserInv(d)'
    BY <1>3, <1>4, <2>3 DEF UserInv
  <2>5. d \notin overlap' => AdminInv(d)'
    BY <1>3, <1>4, <2>2 DEF AdminInv
  <2>6. DeleteInv(d)'
    BY <1>3, <1>4, <2>2 DEF DeleteInv
  <2> QED  BY <2>1, <2>4, <2>5, <2>6 DEF AccountInv, StatusInv
<1>8. ASSUME NEW e \in Identities, e # d
      PROVE  AccountInv(e)'
  <2>1. /\ e \in minted' <=> e \in minted
        /\ e \in overlap' <=> e \in overlap
        /\ e \in raced' <=> e \in raced
    BY <1>1, <1>3, <1>8
  <2>2. OfAccount(rows', e) = OfAccount(rows, e)
    BY <1>1
  <2> QED  BY <1>1, <1>4, <1>8, <2>1, <2>2, AccountFrame
<1> QED  BY <1>5, <1>6, <1>7, <1>8

\* One of an administrator does.
LEMMA AdminRequestInv ==
    ASSUME LifeInv, NEW d \in Identities, AdminRequest(d)
    PROVE  LifeInv'
<1> USE DEF LifeInv
<1>1. /\ state = "up" /\ admin[d] = <<>> /\ d \in minted
      /\ UNCHANGED <<state, todo, minted, registered, active, takedown, head, rows, nseq, user, writer>>
      /\ overlap' = IF user[d] # <<>> THEN overlap \cup {d} ELSE overlap
      /\ raced' = IF writer[d] # <<>> THEN raced \cup {d} ELSE raced
  BY DEF AdminRequest, Received, hostVars, logVars, dataVars
<1>2. AccountInv(d)
  OBVIOUS
<1>3. PICK list \in update_subject_status \cup {admin_delete_account_calls} : admin' = [admin EXCEPT ![d] = list]
  BY DEF AdminRequest
<1>4. /\ list \in AdminLists /\ list # <<>>
      /\ \/ LastCall(list) = "#status" /\ NextCall(list) \notin {"purge", "unregister", "rmtree"}
         \/ NextCall(list) = "#deleted"
  BY AdminStarts
<1>5. admin'[d] = list /\ \A e \in Identities : e # d => admin'[e] = admin[e]
  BY <1>3 DEF Types
<1>6. Types'
  <2>1. admin' \in [Identities -> AdminLists]
    BY <1>3, <1>4 DEF Types
  <2> QED  BY <1>1, <2>1 DEF Types
<1>7. LogInv' /\ StartInv'
  BY <1>1 DEF LogInv, StartInv
<1>8. AccountInv(d)'
  <2>1. RunInv(d)'
    BY <1>1, <1>2, <1>4, <1>5 DEF AccountInv, RunInv
  <2>2. d \notin overlap' => user'[d] = <<>> /\ NextCall(user'[d]) = "none"
    BY <1>1, EmptyList
  <2>3. NextCall(admin'[d]) = NextCall(list) /\ LastCall(admin'[d]) = LastCall(list)
    BY <1>5
  <2>4. d \notin overlap' => UserInv(d)'
    BY <2>2 DEF UserInv
  <2>5. AdminInv(d)'
    BY <1>4, <1>5, <2>3 DEF AdminInv
  <2>6. DeleteInv(d)'
    BY <1>4, <1>5, <2>2, <2>3 DEF DeleteInv
  <2> QED  BY <2>1, <2>4, <2>5, <2>6 DEF AccountInv, StatusInv
<1>9. ASSUME NEW e \in Identities, e # d
      PROVE  AccountInv(e)'
  <2>1. /\ e \in overlap' <=> e \in overlap
        /\ e \in raced' <=> e \in raced
    BY <1>1, <1>9
  <2>2. OfAccount(rows', e) = OfAccount(rows, e)
    BY <1>1
  <2> QED  BY <1>1, <1>5, <1>9, <2>1, <2>2, AccountFrame
<1> QED  BY <1>6, <1>7, <1>8, <1>9

\* A write does.
LEMMA WriteRequestInv ==
    ASSUME LifeInv, NEW d \in Identities, WriteRequest(d)
    PROVE  LifeInv'
<1> USE DEF LifeInv
<1>1. /\ state = "up" /\ d \in minted
      /\ UNCHANGED <<state, todo, minted, registered, active, takedown, head, rows, nseq, user, admin, overlap>>
      /\ raced' = IF user[d] # <<>> \/ admin[d] # <<>> THEN raced \cup {d} ELSE raced
      /\ writer' = [writer EXCEPT ![d] = write_record]
  BY DEF WriteRequest, Received, Resolves, Types, hostVars, logVars, dataVars
<1>2. AccountInv(d)
  OBVIOUS
<1>3. \A e \in Identities : e # d => writer'[e] = writer[e]
  BY <1>1 DEF Types
<1>4. Types'
  <2>1. writer' \in [Identities -> WriterLists]
    BY <1>1, WriterCalls DEF Types
  <2> QED  BY <1>1, <2>1 DEF Types
<1>5. LogInv' /\ StartInv'
  BY <1>1 DEF LogInv, StartInv
<1>6. AccountInv(d)'
  <2>1. RunInv(d)'
    BY <1>1, <1>2 DEF AccountInv, RunInv
  <2>2. Agrees(d)' = Agrees(d) /\ AnnouncedLast(d)' = AnnouncedLast(d) /\ OneRow(d)' = OneRow(d)
    BY <1>1, AgreesFrame
  <2>3. UserInv(d)' = UserInv(d) /\ AdminInv(d)' = AdminInv(d)
    BY <1>1, <2>2 DEF UserInv, AdminInv
  <2>4. StatusInv(d)'
    BY <1>1, <1>2, <2>3 DEF AccountInv, StatusInv
  <2>5. DeleteInv(d)'
    BY <1>1, <1>2, <2>2 DEF AccountInv, DeleteInv
  <2> QED  BY <2>1, <2>4, <2>5 DEF AccountInv
<1>7. ASSUME NEW e \in Identities, e # d
      PROVE  AccountInv(e)'
  <2>1. e \in raced' <=> e \in raced
    BY <1>1, <1>7
  <2>2. OfAccount(rows', e) = OfAccount(rows, e)
    BY <1>1
  <2> QED  BY <1>1, <1>3, <1>7, <2>1, <2>2, AccountFrame
<1> QED  BY <1>4, <1>5, <1>6, <1>7


\* A request of the holder makes its next call.
LEMMA UserStepInv ==
    ASSUME LifeInv, NEW d \in Identities, UserStep(d)
    PROVE  LifeInv'
<1> USE DEF LifeInv
<1> DEFINE l == user[d]
           step == Head(l)
<1>1. /\ l # <<>> /\ Call(step, d) /\ user' = [user EXCEPT ![d] = Tail(l)]
      /\ UNCHANGED <<state, todo, admin, writer, overlap, raced>>
  BY DEF UserStep, hostVars
<1>2. AccountInv(d) /\ l \in UserLists /\ d \in minted /\ state = "up"
  BY <1>1 DEF AccountInv, RunInv, Types
<1>3. user'[d] = Tail(l) /\ \A e \in Identities : e # d => user'[e] = user[e]
  BY <1>1 DEF Types
<1>4. /\ LogInv' /\ nseq' \in Nat /\ head' \in [Identities -> Nat] /\ active' \in [Identities -> BOOLEAN]
      /\ minted' = minted
      /\ \A e \in Identities : e # d =>
           /\ OfAccount(rows', e) = OfAccount(rows, e) /\ active'[e] = active[e]
           /\ e \in registered' <=> e \in registered
           /\ e \in takedown' <=> e \in takedown
  BY <1>1, CallFrame
<1>5. Types'
  <2>1. user' \in [Identities -> UserLists]
    BY <1>1, <1>2, UserCalls DEF Types
  <2>2. registered' \subseteq minted'
    BY <1>1, <1>2, <1>4, CallData DEF Types
  <2> QED  BY <1>1, <1>4, <2>1, <2>2 DEF Types
<1>6. StartInv'
  BY <1>1, <1>2 DEF StartInv
<1>7. AccountInv(d)'
  <2>1. RunInv(d)'
    BY <1>1, <1>2, <1>3, <1>4 DEF AccountInv, RunInv
  <2>2. d \notin overlap => admin[d] = <<>> /\ NextCall(admin[d]) = "none" /\ LastCall(admin[d]) = "none"
    BY <1>1, <1>2, EmptyList DEF AccountInv, RunInv
  <2>3. d \notin overlap => UserInv(d)
    BY <1>2 DEF AccountInv, StatusInv
  <2>4. d \notin overlap => UserInv(d)'
    <3>1. SUFFICES ASSUME d \notin overlap PROVE UserInv(d)'
      OBVIOUS
    <3>2. /\ NextCall(Tail(l)) = "register" => FALSE
          /\ NextCall(Tail(l)) \in {"#identity", "#active"} => active'[d]
      BY <1>1, <1>2, <2>3, <3>1, UserCalls, CallData, EmptyList DEF UserInv
    <3>3. NextCall(Tail(l)) = "#sync" => Agrees(d)'
      BY <1>1, <1>2, <2>3, <3>1, UserCalls, CallLog, EmptyList DEF UserInv
    <3>4. /\ NextCall(Tail(l)) = "#deactivated" => ~active'[d]
          /\ NextCall(Tail(l)) \in {"lift", "#deleted", "purge"} => d \notin registered'
      BY <1>1, <1>2, <2>3, <3>1, UserCalls, CallData, EmptyList DEF UserInv
    <3> QED  BY <1>3, <3>2, <3>3, <3>4 DEF UserInv
  <2>5. d \notin overlap => AdminInv(d)'
    <3>1. SUFFICES ASSUME d \notin overlap PROVE AdminInv(d)'
      OBVIOUS
    <3>2. (Tail(l) = <<>> /\ d \in registered' \ takedown') => Agrees(d)'
      <4>1. SUFFICES ASSUME Tail(l) = <<>>, d \in registered' PROVE Agrees(d)'
        OBVIOUS
      <4>2. step \in {"#sync", "#deactivated", "purge"}
        BY <1>1, <1>2, <4>1, UserCalls, EmptyList
      <4>3. step # "purge"
        BY <1>1, <1>2, <2>3, <3>1, <4>1, UserCalls, CallData DEF UserInv
      <4> QED  BY <1>1, <1>2, <2>3, <3>1, <4>2, <4>3, UserCalls, CallLog DEF UserInv
    <3> QED  BY <1>1, <1>3, <2>2, <3>1, <3>2 DEF AdminInv
  <2>6. DeleteInv(d)'
    <3>1. NextCall(Tail(l)) = "purge" => AnnouncedLast(d)'
      <4>1. NextCall(Tail(l)) = "purge" => step = "#deleted"
        BY <1>1, <1>2, UserCalls, EmptyList
      <4> QED  BY <1>1, <4>1, CallLog
    <3> QED  BY <1>1, <1>3, <2>2, <3>1 DEF DeleteInv
  <2> QED  BY <1>1, <2>1, <2>4, <2>5, <2>6 DEF AccountInv, StatusInv
<1>8. ASSUME NEW e \in Identities, e # d
      PROVE  AccountInv(e)'
  BY <1>1, <1>3, <1>4, <1>8, AccountFrame
<1> QED  BY <1>4, <1>5, <1>6, <1>7, <1>8

\* One of an administrator does.
LEMMA AdminStepInv ==
    ASSUME LifeInv, NEW d \in Identities, AdminStep(d)
    PROVE  LifeInv'
<1> USE DEF LifeInv
<1> DEFINE l == admin[d]
           step == Head(l)
<1>1. /\ l # <<>> /\ Call(step, d) /\ admin' = [admin EXCEPT ![d] = Tail(l)]
      /\ UNCHANGED <<state, todo, user, writer, overlap, raced>>
  BY DEF AdminStep, hostVars
<1>2. AccountInv(d) /\ l \in AdminLists /\ d \in minted /\ state = "up"
  BY <1>1 DEF AccountInv, RunInv, Types
<1>3. admin'[d] = Tail(l) /\ \A e \in Identities : e # d => admin'[e] = admin[e]
  BY <1>1 DEF Types
<1>4. /\ LogInv' /\ nseq' \in Nat /\ head' \in [Identities -> Nat] /\ active' \in [Identities -> BOOLEAN]
      /\ minted' = minted
      /\ \A e \in Identities : e # d =>
           /\ OfAccount(rows', e) = OfAccount(rows, e) /\ active'[e] = active[e]
           /\ e \in registered' <=> e \in registered
           /\ e \in takedown' <=> e \in takedown
  BY <1>1, CallFrame
<1>5. Types'
  <2>1. admin' \in [Identities -> AdminLists]
    BY <1>1, <1>2, AdminCalls DEF Types
  <2>2. registered' \subseteq minted'
    BY <1>1, <1>2, <1>4, CallData DEF Types
  <2> QED  BY <1>1, <1>4, <2>1, <2>2 DEF Types
<1>6. StartInv'
  BY <1>1, <1>2 DEF StartInv
<1>7. AccountInv(d)'
  <2>1. RunInv(d)'
    BY <1>1, <1>2, <1>3, <1>4 DEF AccountInv, RunInv
  <2>2. d \notin overlap => user[d] = <<>> /\ NextCall(user[d]) = "none"
    BY <1>1, <1>2, EmptyList DEF AccountInv, RunInv
  <2>3. d \notin overlap => AdminInv(d)
    BY <1>2 DEF AccountInv, StatusInv
  <2>4. d \notin overlap => UserInv(d)'
    BY <1>1, <2>2 DEF UserInv
  <2>5. d \notin overlap => AdminInv(d)'
    <3>1. SUFFICES ASSUME d \notin overlap PROVE AdminInv(d)'
      OBVIOUS
    <3>2. (NextCall(Tail(l)) = "lift" /\ LastCall(Tail(l)) = "rmtree") => d \notin registered'
      <4>1. SUFFICES ASSUME NextCall(Tail(l)) = "lift", LastCall(Tail(l)) = "rmtree"
                     PROVE  d \notin registered'
        OBVIOUS
      <4>2. step = "unregister"
        BY <1>1, <1>2, <4>1, AdminCalls, EmptyList
      <4> QED  BY <1>1, <4>2, CallData
    <3>3. NextCall(Tail(l)) = "rmtree" => d \notin registered'
      <4>1. SUFFICES ASSUME NextCall(Tail(l)) = "rmtree" PROVE d \notin registered'
        OBVIOUS
      <4>2. step = "lift" /\ LastCall(l) = "rmtree"
        BY <1>1, <1>2, <4>1, AdminCalls, EmptyList
      <4>3. d \notin registered
        BY <1>1, <1>2, <2>3, <3>1, <4>2, AdminCalls DEF AdminInv
      <4> QED  BY <1>1, <4>2, <4>3, CallData
    <3>4. (Tail(l) = <<>> /\ d \in registered' \ takedown') => Agrees(d)'
      <4>1. SUFFICES ASSUME Tail(l) = <<>>, d \in registered' \ takedown' PROVE Agrees(d)'
        OBVIOUS
      <4>2. step \in {"#status", "rmtree"} /\ NextCall(l) = step
        BY <1>1, <1>2, <4>1, AdminCalls
      <4>3. registered' = registered /\ takedown' = takedown
        BY <1>1, <4>2, CallData
      <4>4. step # "rmtree"
        BY <2>3, <3>1, <4>1, <4>2, <4>3 DEF AdminInv
      <4> QED  BY <1>1, <4>1, <4>2, <4>3, <4>4, CallLog
    <3> QED  BY <1>3, <3>2, <3>3, <3>4 DEF AdminInv
  <2>6. DeleteInv(d)'
    <3>1. SUFFICES ASSUME d \notin overlap \cup raced
                   PROVE  /\ NextCall(Tail(l)) = "purge" => AnnouncedLast(d)'
                          /\ (LastCall(Tail(l)) = "rmtree" /\ NextCall(Tail(l)) \in {"unregister", "lift", "rmtree"})
                                => OneRow(d)'
      BY <1>1, <1>3, <2>2 DEF DeleteInv
    <3>2. NextCall(Tail(l)) = "purge" => AnnouncedLast(d)'
      <4>1. NextCall(Tail(l)) = "purge" => step = "#deleted"
        BY <1>1, <1>2, AdminCalls, EmptyList
      <4> QED  BY <1>1, <4>1, CallLog
    <3>3. ASSUME LastCall(Tail(l)) = "rmtree", NextCall(Tail(l)) \in {"unregister", "lift", "rmtree"}
          PROVE  OneRow(d)'
      <4>1. LastCall(l) = "rmtree" /\ step \in {"purge", "unregister", "lift"} /\ NextCall(l) = step
        BY <1>1, <1>2, <3>3, AdminCalls, EmptyList
      <4>2. CASE step = "purge"
        BY <1>1, <1>2, <3>1, <4>1, <4>2, CallLog DEF AccountInv, DeleteInv
      <4>3. CASE step \in {"unregister", "lift"}
        <5>1. OneRow(d)
          BY <1>2, <3>1, <4>1, <4>3 DEF AccountInv, DeleteInv
        <5>2. rows' = rows
          BY <1>1, <4>3, CallData
        <5> QED  BY <5>1, <5>2 DEF OneRow
      <4> QED  BY <4>1, <4>2, <4>3
    <3> QED  BY <3>2, <3>3
  <2> QED  BY <1>1, <2>1, <2>4, <2>5, <2>6 DEF AccountInv, StatusInv
<1>8. ASSUME NEW e \in Identities, e # d
      PROVE  AccountInv(e)'
  BY <1>1, <1>3, <1>4, <1>8, AccountFrame
<1> QED  BY <1>4, <1>5, <1>6, <1>7, <1>8

\* A write does.
LEMMA WriteStepInv ==
    ASSUME LifeInv, NEW d \in Identities, WriteStep(d)
    PROVE  LifeInv'
<1> USE DEF LifeInv
<1> DEFINE step == Head(writer[d])
<1>1. /\ writer[d] # <<>> /\ Call(step, d) /\ writer' = [writer EXCEPT ![d] = Tail(writer[d])]
      /\ UNCHANGED <<state, todo, user, admin, overlap, raced>>
  BY DEF WriteStep, hostVars, histVars
<1>2. AccountInv(d) /\ writer[d] \in WriterLists /\ state = "up"
  BY <1>1 DEF AccountInv, RunInv, Types
<1>3. \A e \in Identities : e # d => writer'[e] = writer[e]
  BY <1>1 DEF Types
<1>4. /\ LogInv' /\ nseq' \in Nat /\ head' \in [Identities -> Nat] /\ active' \in [Identities -> BOOLEAN]
      /\ minted' = minted
      /\ \A e \in Identities : e # d =>
           /\ OfAccount(rows', e) = OfAccount(rows, e) /\ active'[e] = active[e]
           /\ e \in registered' <=> e \in registered
           /\ e \in takedown' <=> e \in takedown
  BY <1>1, CallFrame
<1>5. step \in {"commit", "#commit"}
  BY <1>1, <1>2, WriterCalls
<1>6. registered' = registered /\ takedown' = takedown /\ active' = active
  BY <1>1, <1>5, CallData
<1>7. Types'
  <2>1. writer' \in [Identities -> WriterLists]
    BY <1>1, <1>2, WriterCalls DEF Types
  <2> QED  BY <1>1, <1>4, <1>6, <2>1 DEF Types
<1>8. StartInv'
  BY <1>1, <1>2 DEF StartInv
<1>9. AccountInv(d)'
  <2>1. RunInv(d)'
    BY <1>1, <1>2, <1>4, <1>6 DEF AccountInv, RunInv
  <2>2. Agrees(d) => Agrees(d)'
    BY <1>1, <1>5, CallLog
  <2>3. StatusInv(d)'
    <3>1. UserInv(d) => UserInv(d)'
      BY <1>1, <1>6, <2>2 DEF UserInv
    <3>2. AdminInv(d) => AdminInv(d)'
      BY <1>1, <1>6, <2>2 DEF AdminInv
    <3> QED  BY <1>1, <1>2, <3>1, <3>2 DEF AccountInv, StatusInv
  <2>4. DeleteInv(d)'
    <3>1. d \notin raced' => NextCall(user'[d]) = "none" /\ NextCall(admin'[d]) = "none"
      BY <1>1, <1>2, EmptyList DEF AccountInv, RunInv
    <3> QED  BY <3>1 DEF DeleteInv
  <2> QED  BY <2>1, <2>3, <2>4 DEF AccountInv
<1>10. ASSUME NEW e \in Identities, e # d
       PROVE  AccountInv(e)'
  BY <1>1, <1>3, <1>4, <1>10, AccountFrame
<1> QED  BY <1>4, <1>7, <1>8, <1>9, <1>10


\* The server starts, or dies.
LEMMA ProcessInv ==
    ASSUME LifeInv, Start \/ Crash
    PROVE  LifeInv'
<1> USE DEF LifeInv
<1>1. /\ state' # "up" /\ UNCHANGED <<minted, registered, active, head, rows, nseq>>
      /\ state' = "starting" => todo' = registered
      /\ state' \in {"down", "starting"}
  BY DEF Start, Crash, dataVars, logVars
<1>2. \A d \in Identities : user'[d] = <<>> /\ admin'[d] = <<>> /\ writer'[d] = <<>>
  <2>1. CASE Start
    BY <2>1 DEF Start, reqVars, AccountInv, RunInv
  <2>2. CASE Crash
    BY <2>2 DEF Crash
  <2> QED  BY <2>1, <2>2
<1>3. Types'
  <2>1. /\ user' \in [Identities -> UserLists] /\ admin' \in [Identities -> AdminLists]
        /\ writer' \in [Identities -> WriterLists]
    <3>1. CASE Start
      BY <3>1 DEF Start, reqVars, Types
    <3>2. CASE Crash
      <4>1. <<>> \in UserLists /\ <<>> \in AdminLists /\ <<>> \in WriterLists
        BY DEF UserLists, AdminLists, WriterLists
      <4> QED  BY <3>2, <4>1 DEF Crash
    <3> QED  BY <3>1, <3>2
  <2> QED  BY <1>1, <2>1 DEF Types
<1>4. LogInv'
  BY <1>1 DEF LogInv
<1>5. StartInv'
  BY <1>1 DEF StartInv
<1>6. ASSUME NEW d \in Identities
      PROVE  AccountInv(d)'
  <2>1. RunInv(d)'
    BY <1>1, <1>2 DEF AccountInv, RunInv
  <2>2. StatusInv(d)'
    BY <1>1 DEF StatusInv
  <2>3. NextCall(user'[d]) = "none" /\ NextCall(admin'[d]) = "none"
    BY <1>2, EmptyList
  <2>4. DeleteInv(d)'
    BY <2>3 DEF DeleteInv
  <2> QED  BY <2>1, <2>2, <2>4 DEF AccountInv
<1> QED  BY <1>3, <1>4, <1>5, <1>6

\* The routes are registered, once every account is reconciled.
LEMMA ServeInv ==
    ASSUME LifeInv, Serve
    PROVE  LifeInv'
<1> USE DEF LifeInv
<1>1. /\ state = "starting" /\ todo = {} /\ state' = "up"
      /\ UNCHANGED <<minted, registered, active, takedown, head, rows, nseq, user, admin, writer, raced>>
  BY DEF Serve, dataVars, logVars, reqVars
<1>2. Types' /\ LogInv' /\ StartInv'
  BY <1>1 DEF Types, LogInv, StartInv
<1>3. ASSUME NEW d \in Identities
      PROVE  AccountInv(d)'
  <2>1. user'[d] = <<>> /\ admin'[d] = <<>> /\ writer'[d] = <<>>
    BY <1>1 DEF AccountInv, RunInv
  <2>2. d \notin minted' => active'[d]
    BY <1>1 DEF AccountInv, RunInv
  <2>3. d \in registered' => Agrees(d)'
    <3>1. d \in registered => Agrees(d)
      BY <1>1 DEF StartInv
    <3>2. OfAccount(rows', d) = OfAccount(rows, d)
      BY <1>1
    <3> QED  BY <1>1, <3>1, <3>2, AgreesFrame
  <2>4. NextCall(user'[d]) = "none" /\ NextCall(admin'[d]) = "none" /\ LastCall(admin'[d]) = "none"
    BY <2>1, EmptyList
  <2>5. RunInv(d)'
    BY <2>1, <2>2 DEF RunInv
  <2>6. UserInv(d)' /\ AdminInv(d)'
    BY <2>3, <2>4 DEF UserInv, AdminInv
  <2>7. DeleteInv(d)'
    BY <2>4 DEF DeleteInv
  <2> QED  BY <2>5, <2>6, <2>7 DEF AccountInv, StatusInv
<1> QED  BY <1>2, <1>3

\* A starting server reconciles an account, or its repository.
LEMMA ReconcileInv ==
    ASSUME LifeInv, NEW d \in Identities, reconcile_account(d) \/ reconcile_repo(d)
    PROVE  LifeInv'
<1> USE DEF LifeInv
<1>1. /\ state = "starting"
      /\ UNCHANGED <<state, minted, registered, active, takedown, head, user, admin, writer, overlap, raced>>
  BY DEF reconcile_account, reconcile_repo, dataVars, reqVars, histVars
<1>2. UNCHANGED logVars \/ \E kind, status : Appended(d, kind, status)
  BY DEF reconcile_account, reconcile_repo
<1>3. /\ LogInv' /\ nseq' \in Nat
      /\ \A e \in Identities : e # d => OfAccount(rows', e) = OfAccount(rows, e)
  <2>1. CASE UNCHANGED logVars
    BY <2>1 DEF logVars, LogInv, Types
  <2>2. CASE \E kind, status : Appended(d, kind, status)
    BY <2>2, AppendedLog
  <2> QED  BY <1>2, <2>1, <2>2
<1>4. Types'
  BY <1>1, <1>3 DEF Types
<1>5. d \in registered \ todo' => Agrees(d)'
  <2>1. CASE reconcile_account(d)
    <3>1. \/ UNCHANGED logVars /\ Agrees(d)
          \/ Appended(d, "account", IF active[d] THEN "active" ELSE "deactivated")
      BY <2>1 DEF reconcile_account, Agrees
    <3>2. CASE UNCHANGED logVars /\ Agrees(d)
      BY <1>1, <3>2, AgreesFrame DEF logVars
    <3>3. CASE Appended(d, "account", IF active[d] THEN "active" ELSE "deactivated")
      <4> DEFINE status == IF active[d] THEN "active" ELSE "deactivated"
      <4>1. (status = "active") <=> active'[d]
        BY <1>1
      <4> HIDE DEF status
      <4>2. Appended(d, "account", status)
        BY <3>3 DEF status
      <4>3. PICK x \in OfAccount(rows', d) :
               x.kind = "account" /\ x.status = status /\ \A q \in rows' : q.seq <= x.seq
        BY <4>2, AppendedLog
      <4> QED  BY <4>1, <4>3, Announced
    <3> QED  BY <3>1, <3>2, <3>3
  <2>2. CASE reconcile_repo(d)
    <3>1. /\ todo' = todo
          /\ UNCHANGED logVars \/ Appended(d, "sync", "active")
      BY <2>2 DEF reconcile_repo
    <3>2. d \in registered \ todo' => Agrees(d)
      BY <1>1, <3>1 DEF StartInv
    <3>3. CASE UNCHANGED logVars
      BY <1>1, <3>2, <3>3, AgreesFrame DEF logVars
    <3>4. CASE Appended(d, "sync", "active")
      <4>1. PICK x : x.kind = "sync" /\ OfAccount(rows', d) = OfAccount(rows, d) \cup {x}
        BY <3>4, AppendedLog
      <4> QED  BY <1>1, <3>2, <4>1, OtherKinds
    <3> QED  BY <3>1, <3>3, <3>4
  <2> QED  BY <2>1, <2>2
<1>6. StartInv'
  <2>1. ASSUME NEW e \in registered \ todo', e # d
        PROVE  Agrees(e)'
    <3>1. e \notin todo
      BY <2>1 DEF reconcile_account, reconcile_repo
    <3>2. Agrees(e) /\ e \in Identities
      BY <1>1, <2>1, <3>1 DEF StartInv, Types
    <3> QED  BY <1>1, <1>3, <2>1, <3>2, AgreesFrame
  <2> QED  BY <1>1, <1>5, <2>1 DEF StartInv
<1>7. ASSUME NEW e \in Identities
      PROVE  AccountInv(e)'
  <2>1. user'[e] = <<>> /\ admin'[e] = <<>> /\ writer'[e] = <<>>
    BY <1>1 DEF AccountInv, RunInv
  <2>2. RunInv(e)'
    BY <1>1, <2>1 DEF AccountInv, RunInv
  <2>3. StatusInv(e)'
    BY <1>1 DEF StatusInv
  <2>4. NextCall(user'[e]) = "none" /\ NextCall(admin'[e]) = "none"
    BY <2>1, EmptyList
  <2>5. DeleteInv(e)'
    BY <2>4 DEF DeleteInv
  <2> QED  BY <2>2, <2>3, <2>5 DEF AccountInv
<1> QED  BY <1>3, <1>4, <1>6, <1>7

\* Nothing happens.
LEMMA StutterInv ==
    ASSUME LifeInv, UNCHANGED vars
    PROVE  LifeInv'
<1>1. UNCHANGED <<state, todo, minted, registered, active, takedown, head, rows, nseq,
                  user, admin, writer, overlap, raced>>
  BY DEF vars, hostVars, dataVars, logVars, reqVars, histVars
<1>2. Types' /\ LogInv' /\ StartInv'
  BY <1>1 DEF LifeInv, Types, LogInv, StartInv, Agrees, Newest
<1>3. ASSUME NEW e \in Identities
      PROVE  AccountInv(e)'
  BY <1>1, AccountFrame DEF LifeInv
<1> QED  BY <1>2, <1>3 DEF LifeInv

\* A host without accounts.
LEMMA InitInv ==
    ASSUME Init
    PROVE  LifeInv
<1>1. Types
  <2>1. <<>> \in UserLists /\ <<>> \in AdminLists /\ <<>> \in WriterLists
    BY DEF UserLists, AdminLists, WriterLists
  <2> QED  BY <2>1 DEF Init, Types
<1>2. LogInv /\ StartInv
  BY DEF Init, LogInv, StartInv
<1>3. ASSUME NEW d \in Identities
      PROVE  AccountInv(d)
  BY IdleAccount DEF Init
<1> QED  BY <1>1, <1>2, <1>3 DEF LifeInv

\* Each request has established, before each of its calls, what the ones after it
\* rely on, whatever the other requests, the crashes and the starts between.
THEOREM LifecycleInvariant == Spec => []LifeInv
<1>1. Init => LifeInv
  BY InitInv
<1>2. LifeInv /\ [Next]_vars => LifeInv'
  <2>1. SUFFICES ASSUME LifeInv, [Next]_vars
                 PROVE  LifeInv'
    OBVIOUS
  <2>2. CASE \E d \in Identities : UserRequest(d)
    BY <2>1, <2>2, UserRequestInv
  <2>3. CASE \E d \in Identities : AdminRequest(d)
    BY <2>1, <2>3, AdminRequestInv
  <2>4. CASE \E d \in Identities : WriteRequest(d)
    BY <2>1, <2>4, WriteRequestInv
  <2>5. CASE \E d \in Identities : UserStep(d)
    BY <2>1, <2>5, UserStepInv
  <2>6. CASE \E d \in Identities : AdminStep(d)
    BY <2>1, <2>6, AdminStepInv
  <2>7. CASE \E d \in Identities : WriteStep(d)
    BY <2>1, <2>7, WriteStepInv
  <2>8. CASE \E d \in Identities : reconcile_account(d) \/ reconcile_repo(d)
    BY <2>1, <2>8, ReconcileInv
  <2>9. CASE Start \/ Crash
    BY <2>1, <2>9, ProcessInv
  <2>10. CASE Serve
    BY <2>1, <2>10, ServeInv
  <2>11. CASE UNCHANGED vars
    BY <2>1, <2>11, StutterInv
  <2> QED  BY <2>1, <2>2, <2>3, <2>4, <2>5, <2>6, <2>7, <2>8, <2>9, <2>10, <2>11 DEF Next
<1> QED  BY <1>1, <1>2, PTL DEF Spec

\* The firehose says of an account that no request is changing, and that is not
\* taken down, what its flag says, after any crashes and restarts in the middle
\* of the requests that changed it (create, activate, deactivate of
\* account_routes.c; updateSubjectStatus; the reconciliation of server.c).
THEOREM StatusIsAnnounced == Spec => []StatusAnnounced
<1>1. LifeInv => StatusAnnounced
  <2>1. SUFFICES ASSUME LifeInv, NEW d \in registered \ (takedown \cup overlap),
                        state = "up", user[d] = <<>>, admin[d] = <<>>
                 PROVE  Agrees(d)
    BY DEF StatusAnnounced, Agrees
  <2>2. AccountInv(d)
    BY <2>1 DEF LifeInv, Types
  <2>3. AdminInv(d)
    BY <2>1, <2>2 DEF AccountInv, StatusInv
  <2> QED  BY <2>1, <2>3 DEF AdminInv
<1> QED  BY <1>1, LifecycleInvariant, PTL

\* A deletion that returns (delete_account_calls of account_routes.c, or the one of
\* admin_routes.c) has left the account one row in the log, the one that
\* announces the deletion, unless requests on the account overlapped or a crash
\* had cut an earlier deletion short.
THEOREM DeletionsLeaveOneRow == Spec => DeletionLeavesOneRow
<1> DEFINE Left == \A d \in deleted' \ (deleted \cup overlap \cup raced \cup halfway) :
                      \E r \in rows' : OfAccount(rows', d) = {r} /\ r.status = "deleted"
<1>1. LifeInv /\ [Next]_vars => [Left]_vars
  <2>1. SUFFICES ASSUME LifeInv, Next,
                        NEW d \in deleted' \ (deleted \cup overlap \cup raced \cup halfway)
                 PROVE  OneRow(d)'
    BY DEF OneRow
  <2>2. \/ d \in Identities /\ UserStep(d) /\ user[d] = <<"purge">>
        \/ d \in Identities /\ AdminStep(d) /\ admin[d] = <<"rmtree">>
    BY <2>1 DEF Next, Start, Serve, Crash, UserRequest, AdminRequest, WriteRequest, UserStep,
                AdminStep, WriteStep, reconcile_account, reconcile_repo, histVars
  <2>3. AccountInv(d) /\ LogInv /\ Types
    BY <2>1, <2>2 DEF LifeInv
  <2>4. CASE d \in Identities /\ UserStep(d) /\ user[d] = <<"purge">>
    <3>1. NextCall(user[d]) = "purge" /\ Head(user[d]) = "purge"
      BY <2>4 DEF NextCall
    <3>2. AnnouncedLast(d)
      BY <2>1, <2>3, <3>1 DEF AccountInv, DeleteInv
    <3> QED  BY <2>3, <2>4, <3>1, <3>2, CallLog DEF UserStep
  <2>5. CASE d \in Identities /\ AdminStep(d) /\ admin[d] = <<"rmtree">>
    <3>1. NextCall(admin[d]) = "rmtree" /\ Head(admin[d]) = "rmtree" /\ LastCall(admin[d]) = "rmtree"
      BY <2>5 DEF NextCall, LastCall
    <3>2. OneRow(d)
      BY <2>1, <2>3, <3>1 DEF AccountInv, DeleteInv
    <3>3. rows' = rows
      BY <2>3, <2>5, <3>1, CallData DEF AdminStep
    <3> QED  BY <3>2, <3>3 DEF OneRow
  <2> QED  BY <2>2, <2>4, <2>5
<1> QED  BY <1>1, LifecycleInvariant, PTL DEF Spec, DeletionLeavesOneRow


-----------------------------------------------------------------------------
(* Sign-up, handles and deletion (Accounts), for any requests, accounts,   *)
(* handles and invite codes: AccountsInv states the inductive invariant.   *)
(*                                                                         *)
(* A step of a request touches its own account and its own names only, so  *)
(* that what any other request has established is kept (Spared); what is   *)
(* left to show of each step is what it establishes itself.                *)

\* How a request's record may go on.
Follows(p, q) ==
    /\ RequestShape(p)
    /\ p.kind = q.kind /\ p.did = q.did /\ p.handle = q.handle /\ p.names = q.names
    /\ p.call = q.call /\ p.code = q.code
    /\ StageOk(p)
    /\ p.at \in Unregistered => q.at \in Unregistered
    /\ p.at \in Unwritten => q.at \in Unwritten
    /\ p.old = q.old \/ (p.kind # "signup" /\ p.old = ctx[q.did])
    /\ p.rec = q.rec \/ p.rec = None \/ \E z \in zone : p.rec = z.id

\* What a request may do to the stores of its account, and to no other's.
StoresStep(d, h) ==
    /\ registry' \in [Dids -> Names] /\ repo' \in [Dids -> Names]
    /\ ctx' \in [Dids -> Names] /\ plc' \in [Dids -> Names]
    /\ announced' \in [Dids -> Names]
    /\ \A e \in Dids : e # d => /\ registry'[e] = registry[e] /\ repo'[e] = repo[e]
                                /\ ctx'[e] = ctx[e] /\ plc'[e] = plc[e]
                                /\ announced'[e] = announced[e]
    /\ \/ registry'[d] \in {registry[d], None}
       \/ registry'[d] = h /\ h # None /\ \A e \in Dids : registry[e] = h => e = d
    /\ ctx'[d] \in {ctx[d], h}

\* A step of the request s that is under way.
StepBy(s) ==
    /\ s \in Active
    /\ DOMAIN req' = Requests /\ \A r \in Requests : r # s => req'[r] = req[r]
    /\ req'[s] = Idle \/ Follows(req'[s], req[s])
    /\ StoresStep(req[s].did, req[s].handle)
    /\ blurred \subseteq blurred' /\ calls' = calls /\ provider' = provider
    /\ invites' = invites /\ DOMAIN admitted' = Dids
    /\ \A e \in Dids :
          \/ admitted'[e] = admitted[e]
          \/ e = req[s].did /\ req[s].at = "register" /\ admitted'[e] = req[s].code
    /\ \A n \in Handles : n \notin req[s].names \cup blurred => At(n)' = At(n)

LEMMA IdleIsIdle == Idle.at = "idle" /\ RequestShape(Idle)
BY DEF Idle, RequestShape

LEMMA ActiveRequests ==
    /\ \A r : r \in Active <=> r \in Requests /\ req[r].at # "idle"
    /\ \A r : r \in Active' <=> r \in Requests /\ req'[r].at # "idle"
BY DEF Active

LEMMA StagesAreNotIdle == ASSUME NEW q, StageOk(q) PROVE q.at # "idle"
BY DEF StageOk

\* The requests under way after the step: s or not, and those that were before.
LEMMA StillActive ==
    ASSUME NEW s, StepBy(s)
    PROVE  /\ \A r : r \in Active' => r \in Active
           /\ \A r : r # s => (r \in Active' <=> r \in Active)
           /\ s \in Active' <=> Follows(req'[s], req[s])
           /\ s \notin Active' => req'[s] = Idle
           /\ s \in Requests
<1>1. s \in Requests /\ s \in Active
  BY ActiveRequests DEF StepBy
<1>2. Follows(req'[s], req[s]) => req'[s].at # "idle"
  BY StagesAreNotIdle DEF Follows
<1>3. Follows(req'[s], req[s]) <=> req'[s].at # "idle"
  BY <1>2, IdleIsIdle DEF StepBy
<1> QED
  BY <1>1, <1>3, ActiveRequests DEF StepBy


\* What the invariant says of a request that is under way.
LEMMA RequestFacts ==
    ASSUME Parameters, AccountsInvariant, NEW s \in Active
    PROVE  /\ s \in Requests /\ RequestShape(req[s]) /\ StageOk(req[s])
           /\ req[s].did \in Dids /\ req[s].names \subseteq Handles /\ None \notin Handles
           /\ req[s].old \in Names /\ req[s].handle \in Names
           /\ req[s].handle # None => req[s].handle \in Handles /\ req[s].handle \in req[s].names
           /\ req[s].handle = None <=> req[s].kind \in {"delete", "admin_delete"}
           /\ req[s].call \in 1..calls /\ calls \in Nat
           /\ req[s].rec \in Ids \cup {None} /\ None \notin Ids
           /\ req[s].rec # None => req[s].rec[1] <= calls
           /\ req[s].kind = "signup" => req[s].code \in Codes /\ req[s].old = None
           /\ registry[req[s].did] \in req[s].names \cup blurred \cup {None}
           /\ ctx[req[s].did] \in req[s].names \cup blurred \cup {None}
           /\ req[s].old \in req[s].names \cup blurred \cup {None}
<1>1. RequestOk(req[s]) /\ s \in Requests /\ RequestShape(req[s]) /\ calls \in Nat
  BY ActiveRequests DEF AccountsInvariant, AccountTypes
<1>2. Covered(req[s])
  BY DEF AccountsInvariant, NameInv
<1>3. None \notin Handles /\ None \notin Ids
  BY DEF Parameters, Ids
<1> QED
  BY <1>1, <1>2, <1>3 DEF RequestOk, Covered, Names

LEMMA StoreTypes ==
    ASSUME AccountsInvariant
    PROVE  /\ registry \in [Dids -> Names] /\ repo \in [Dids -> Names]
           /\ ctx \in [Dids -> Names] /\ plc \in [Dids -> Names]
           /\ announced \in [Dids -> Names] /\ DOMAIN req = Requests
           /\ DOMAIN admitted = Dids /\ provider \in {"records", "rrset"}
BY DEF AccountsInvariant, AccountTypes

\* Nobody gains or loses a name that the request does not work on.
LEMMA RegistryFrame ==
    ASSUME Parameters, AccountsInvariant, NEW s, StepBy(s),
           NEW n \in Handles, n \notin req[s].names \cup blurred, NEW e \in Dids
    PROVE  registry'[e] = n <=> registry[e] = n
<1>1. s \in Active /\ StoresStep(req[s].did, req[s].handle)
  BY DEF StepBy
<1>2. CASE e # req[s].did
  BY <1>1, <1>2 DEF StoresStep
<1>3. CASE e = req[s].did
  <2>1. /\ registry[e] # n /\ n # None
        /\ req[s].handle # None => req[s].handle # n
    BY <1>1, <1>3, RequestFacts
  <2> QED
    BY <1>1, <1>3, <2>1 DEF StoresStep
<1> QED
  BY <1>2, <1>3

LEMMA NamesFrame ==
    ASSUME NEW n, At(n)' = At(n),
           \A e \in Dids : registry'[e] = n <=> registry[e] = n
    PROVE  /\ Settled(n)' <=> Settled(n)
           /\ Owned(n)' <=> Owned(n)
           /\ \A d : Single(n, d)' <=> Single(n, d)
BY DEF Settled, Owned, Single


LEMMA StepTypes ==
    ASSUME Parameters, AccountsInvariant, ZoneInv, NEW s, StepBy(s)
    PROVE  AccountTypes'
<1>1. /\ s \in Active /\ DOMAIN req' = Requests
      /\ \A r \in Requests : r # s => req'[r] = req[r]
      /\ req'[s] = Idle \/ Follows(req'[s], req[s])
      /\ calls' = calls /\ provider' = provider /\ invites' = invites /\ DOMAIN admitted' = Dids
      /\ StoresStep(req[s].did, req[s].handle)
  BY DEF StepBy
<1>2. ASSUME NEW r \in Requests PROVE RequestShape(req[r])'
  <2>1. RequestShape(req'[r])
    <3>1. CASE r # s
      BY <1>1, <3>1 DEF AccountsInvariant, AccountTypes
    <3>2. CASE r = s
      BY <1>1, <3>2, IdleIsIdle DEF Follows
    <3> QED
      BY <3>1, <3>2
  <2> QED
    BY <2>1 DEF RequestShape
<1>3. ASSUME NEW r \in Active' PROVE RequestOk(req[r])'
  <2>1. CASE r # s
    <3>1. r \in Active /\ req'[r] = req[r]
      BY <1>1, <2>1, StillActive, ActiveRequests
    <3>2. RequestOk(req[r])
      BY <3>1 DEF AccountsInvariant, AccountTypes
    <3> QED
      BY <1>1, <3>1, <3>2 DEF RequestOk, StageOk
  <2>2. CASE r = s
    <3>1. Follows(req'[s], req[s])
      BY <2>2, StillActive
    <3>2. RequestOk(req[s])
      BY <1>1 DEF AccountsInvariant, AccountTypes
    <3>3. req'[s].old \in Names /\ (req'[s].kind = "signup" => req'[s].old = None)
      BY <3>1, <3>2, StoreTypes DEF Follows, RequestOk
    <3>4. req'[s].rec \in Ids \cup {None} /\ (req'[s].rec # None => req'[s].rec[1] <= calls)
      <4>1. CASE req'[s].rec = req[s].rec \/ req'[s].rec = None
        BY <3>2, <4>1 DEF RequestOk
      <4>2. CASE \E z \in zone : req'[s].rec = z.id
        BY <4>2 DEF ZoneInv
      <4> QED
        BY <3>1, <4>1, <4>2 DEF Follows
    <3>5. /\ StageOk(req'[s]) /\ req'[s].did \in Dids /\ req'[s].names \subseteq Handles
          /\ req'[s].call \in 1..calls'
          /\ IF req'[s].kind \in {"delete", "admin_delete"} THEN req'[s].handle = None
             ELSE req'[s].handle \in Handles /\ req'[s].handle \in req'[s].names
          /\ req'[s].kind = "signup" => req'[s].code \in Codes
      BY <1>1, <3>1, <3>2 DEF Follows, RequestOk
    <3> QED
      BY <1>1, <2>2, <3>3, <3>4, <3>5 DEF RequestOk, StageOk
  <2> QED
    BY <2>1, <2>2
<1>5. /\ calls' \in Nat /\ provider' \in {"records", "rrset"} /\ DOMAIN invites' = Codes
      /\ \A c \in Codes : CodeShape(invites[c])'
  BY <1>1 DEF AccountsInvariant, AccountTypes, CodeShape
<1> QED
  BY <1>1, <1>2, <1>3, <1>5 DEF AccountTypes, StoresStep

LEMMA StepRows ==
    ASSUME RowsInv, AccountsInvariant, NEW s, StepBy(s) PROVE RowsInv'
<1>1. StoresStep(req[s].did, req[s].handle)
  BY DEF StepBy
<1>2. ASSUME NEW d \in Dids, NEW e \in Dids, registry'[d] # None, registry'[d] = registry'[e], d # e
      PROVE  FALSE
  <2>1. CASE d # req[s].did /\ e # req[s].did
    BY <1>1, <1>2, <2>1 DEF StoresStep, RowsInv
  <2>2. CASE d = req[s].did
    BY <1>1, <1>2, <2>2 DEF StoresStep, RowsInv
  <2>3. CASE e = req[s].did
    BY <1>1, <1>2, <2>3 DEF StoresStep, RowsInv
  <2> QED
    BY <2>1, <2>2, <2>3
<1> QED
  BY <1>2 DEF RowsInv

LEMMA StepInvites ==
    ASSUME Parameters, AccountsInvariant, NEW s, StepBy(s) PROVE InviteInv'
<1>1. /\ s \in Active /\ \A r \in Requests : r # s => req'[r] = req[r]
      /\ req'[s] = Idle \/ Follows(req'[s], req[s])
      /\ invites' = invites
      /\ \A e \in Dids :
            \/ admitted'[e] = admitted[e]
            \/ e = req[s].did /\ req[s].at = "register" /\ admitted'[e] = req[s].code
  BY DEF StepBy
<1>2. ASSUME NEW r \in Pending'
      PROVE  /\ r \in Pending
             /\ req'[r].did = req[r].did /\ req'[r].code = req[r].code
  <2>1. r \in Requests /\ req'[r].at \in Unregistered
    BY DEF Pending, Unregistered
  <2>2. CASE r # s
    BY <1>1, <2>1, <2>2 DEF Pending, Unregistered
  <2>3. CASE r = s
    <3>1. Follows(req'[s], req[s])
      BY <1>1, <2>1, <2>3, IdleIsIdle DEF Unregistered
    <3> QED
      BY <2>1, <2>3, <3>1 DEF Follows, Pending, Unregistered
  <2> QED
    BY <2>2, <2>3
<1>3. ASSUME NEW c \in Codes
      PROVE  Holders(c)' \subseteq Holders(c)
  <2>1. ASSUME NEW d \in Dids, admitted'[d] = c PROVE d \in Holders(c)
    <3>1. CASE admitted'[d] = admitted[d]
      BY <2>1, <3>1 DEF Holders
    <3>2. CASE d = req[s].did /\ req[s].at = "register" /\ admitted'[d] = req[s].code
      <4>1. s \in Pending /\ req[s].code = c
        BY <1>1, <2>1, <3>2, ActiveRequests DEF Pending
      <4> QED
        BY <3>2, <4>1 DEF Holders
    <3> QED
      BY <1>1, <3>1, <3>2
  <2>2. ASSUME NEW r \in Pending', req'[r].code = c PROVE req'[r].did \in Holders(c)
    BY <1>2, <2>2 DEF Holders
  <2> QED
    BY <2>1, <2>2 DEF Holders
<1>4. ASSUME NEW c \in Codes
      PROVE  /\ IsFiniteSet(Holders(c)') /\ Cardinality(Holders(c)') \in Nat
             /\ Cardinality(Holders(c)') <= invites[c].used
             /\ invites[c].left \in Nat /\ invites[c].used \in Nat
             /\ IF invites[c].made THEN invites[c].left + invites[c].used = Uses
                ELSE invites[c].used = 0
  <2>1. /\ IsFiniteSet(Holders(c)) /\ Cardinality(Holders(c)) <= invites[c].used
        /\ invites[c].left \in Nat /\ invites[c].used \in Nat
        /\ IF invites[c].made THEN invites[c].left + invites[c].used = Uses
           ELSE invites[c].used = 0
    BY DEF AccountsInvariant, InviteInv
  <2>2. /\ IsFiniteSet(Holders(c)') /\ Cardinality(Holders(c)') <= Cardinality(Holders(c))
        /\ Cardinality(Holders(c)') \in Nat /\ Cardinality(Holders(c)) \in Nat
    BY <1>3, <2>1, FS_Subset, FS_CardinalityType
  <2> QED
    BY <2>1, <2>2
<1> QED
  BY <1>1, <1>4 DEF InviteInv

LEMMA StepMeets ==
    ASSUME AccountsInvariant, NEW s, StepBy(s) PROVE MeetInv' /\ AloneInv'
<1>1. /\ \A r \in Requests : r # s => req'[r] = req[r]
      /\ blurred \subseteq blurred'
  BY DEF StepBy
<1>2. ASSUME NEW r \in Active'
      PROVE  /\ r \in Active /\ req'[r].did = req[r].did /\ req'[r].names = req[r].names
             /\ req'[r].at \in Unregistered => req[r].at \in Unregistered
  <2>1. r \in Active /\ r \in Requests
    BY StillActive, ActiveRequests
  <2>2. CASE r = s
    BY <2>1, <2>2, StillActive DEF Follows
  <2>3. CASE r # s
    BY <1>1, <2>1, <2>3
  <2> QED
    BY <2>2, <2>3
<1>3. MeetInv'
  <2> SUFFICES ASSUME NEW r \in Active', NEW t \in Active', r # t,
                      req'[r].did = req'[t].did \/ req'[r].names \cap req'[t].names # {}
               PROVE  req'[r].names \subseteq blurred'
    BY DEF MeetInv
  <2> QED
    BY <1>1, <1>2 DEF AccountsInvariant, NameInv, MeetInv
<1>4. AloneInv'
  <2> SUFFICES ASSUME NEW r \in Active', NEW t \in Active', r # t,
                      req'[r].did = req'[t].did
               PROVE  req'[r].did \in blurred' /\ {req'[r].at, req'[t].at} \cap Unregistered = {}
    BY DEF AloneInv
  <2>1. req[r].did \in blurred /\ {req[r].at, req[t].at} \cap Unregistered = {}
    BY <1>2 DEF AccountsInvariant, AloneInv
  <2> QED
    BY <1>1, <1>2, <2>1
<1> QED
  BY <1>3, <1>4

\* The names of a request go on covering what it may still write.
LEMMA StepCovers ==
    ASSUME Parameters, AccountsInvariant, NEW s, StepBy(s), NEW r \in Active'
    PROVE  Covered(req[r])'
<1>1. /\ \A t \in Requests : t # s => req'[t] = req[t]
      /\ blurred \subseteq blurred' /\ s \in Active
      /\ StoresStep(req[s].did, req[s].handle)
  BY DEF StepBy
<1>2. /\ r \in Active /\ r \in Requests /\ req'[r].did = req[r].did /\ req[r].did \in Dids
      /\ req'[r].names = req[r].names
      /\ req'[r].old = req[r].old \/ req'[r].old = ctx[req[r].did]
  <2>1. r \in Active /\ r \in Requests
    BY StillActive, ActiveRequests
  <2>2. CASE r = s
    BY <2>1, <2>2, StillActive, RequestFacts DEF Follows
  <2>3. CASE r # s
    BY <1>1, <2>1, <2>3, RequestFacts
  <2> QED
    BY <2>2, <2>3
<1>3. /\ registry[req[r].did] \in req[r].names \cup blurred \cup {None}
      /\ ctx[req[r].did] \in req[r].names \cup blurred \cup {None}
      /\ req[r].old \in req[r].names \cup blurred \cup {None}
  BY <1>2, RequestFacts
<1>4. /\ registry'[req[r].did] \in req[r].names \cup blurred \cup {None}
      /\ ctx'[req[r].did] \in req[r].names \cup blurred \cup {None}
  <2>1. CASE req[r].did # req[s].did
    BY <1>1, <1>2, <1>3, <2>1 DEF StoresStep
  <2>2. CASE req[r].did = req[s].did
    <3>1. req[s].handle \in req[r].names \cup blurred \cup {None}
      <4>1. req[s].handle \in req[s].names \cup {None}
        BY <1>1, RequestFacts
      <4>2. CASE r = s
        BY <4>1, <4>2
      <4>3. CASE r # s
        <5>1. req[s].names \subseteq blurred
          BY <1>1, <1>2, <2>2, <4>3 DEF AccountsInvariant, NameInv, MeetInv
        <5> QED
          BY <4>1, <5>1
      <4> QED
        BY <4>2, <4>3
    <3> QED
      BY <1>1, <1>3, <2>2, <3>1 DEF StoresStep
  <2> QED
    BY <2>1, <2>2
<1> QED
  BY <1>1, <1>2, <1>3, <1>4 DEF Covered


\* A step that leaves the request r, its account and its names alone.
Spared(r) ==
    /\ req'[r] = req[r] /\ blurred \subseteq blurred'
    /\ registry'[req[r].did] = registry[req[r].did] /\ ctx'[req[r].did] = ctx[req[r].did]
    /\ req[r].did \notin blurred' => /\ plc'[req[r].did] = plc[req[r].did]
                                     /\ announced'[req[r].did] = announced[req[r].did]
    /\ \A n \in req[r].names : n \notin blurred' =>
          At(n)' = At(n) /\ \A e \in Dids : registry'[e] = n <=> registry[e] = n
    /\ \A e \in Dids : registry'[e] = req[r].handle /\ e # req[r].did =>
                          registry[e] = req[r].handle \/ req[r].handle = None

LEMMA SparedClean ==
    ASSUME Parameters, AccountsInvariant, NEW r \in Active, Spared(r),
           Clean(req[r])
    PROVE  Clean(req[r])'
<1>1. /\ req'[r] = req[r] /\ blurred \subseteq blurred'
      /\ registry'[req[r].did] = registry[req[r].did] /\ ctx'[req[r].did] = ctx[req[r].did]
  BY DEF Spared
<1>2. /\ req[r].did \in Dids /\ req[r].names \subseteq Handles
      /\ req[r].handle \in Handles => req[r].handle \in req[r].names
      /\ None \notin Handles
  BY RequestFacts
<1>3. ASSUME NEW n \in req[r].names, n \notin blurred'
      PROVE  /\ Settled(n)' <=> Settled(n)
             /\ Owned(n)' <=> Owned(n)
             /\ \A d : Single(n, d)' <=> Single(n, d)
             /\ At(n)' = At(n)
  <2>1. At(n)' = At(n) /\ \A e \in Dids : registry'[e] = n <=> registry[e] = n
    BY <1>3 DEF Spared
  <2> QED
    BY <2>1, NamesFrame
<1>4. Aligned(req[r].did) => Aligned(req[r].did)'
  BY <1>1 DEF Aligned
<1>5. req[r].handle # None /\ ~TakenByOther(req[r].did, req[r].handle) =>
        ~TakenByOther(req[r].did, req[r].handle)'
  <2>1. \A e \in Dids : registry'[e] = req[r].handle /\ e # req[r].did =>
                          registry[e] = req[r].handle \/ req[r].handle = None
    BY DEF Spared
  <2> QED
    BY <1>1, <2>1 DEF TakenByOther, find_by_handle
<1>6. Before(req[r])' <=> Before(req[r])
  BY <1>1 DEF Before
<1>7. Leaving(req[r])' = Leaving(req[r])
  BY <1>1 DEF Leaving
<1>14. req[r].at \in Unregistered => req[r].handle # None
  BY RequestFacts DEF StageOk, Unregistered
<1>8. req[r].handle # None /\ SignupOk(req[r]) => SignupOk(req[r])'
  BY <1>1, <1>3, <1>5 DEF SignupOk
<1>9. BeforeOk(req[r]) => BeforeOk(req[r])'
  BY <1>1, <1>3, <1>4, <1>5 DEF BeforeOk
<1>10. ASSUME req[r].handle \in Handles, req[r].handle \notin blurred', NewNameOk(req[r])
       PROVE  NewNameOk(req[r])'
  <2>1. At(req[r].handle)' = At(req[r].handle)
    BY <1>1, <1>2, <1>10 DEF Spared, At
  <2>2. /\ Single(req[r].handle, req[r].did)' <=> Single(req[r].handle, req[r].did)
        /\ At(req[r].handle)' = At(req[r].handle)
    BY <1>1, <2>1 DEF Single
  <2> QED
    BY <1>1, <1>7, <1>10, <2>2 DEF NewNameOk
<1>11. ASSUME NEW n \in req[r].names, n \notin blurred', OldNameOk(req[r], n)
       PROVE  OldNameOk(req[r], n)'
  <2>1. /\ Owned(n)' <=> Owned(n)
        /\ Single(n, req[r].did)' <=> Single(n, req[r].did)
        /\ At(n)' = At(n)
    BY <1>1, <1>3, <1>11
  <2> QED
    BY <1>1, <1>11, <2>1 DEF OldNameOk
<1>12. AfterOk(req[r]) => AfterOk(req[r])'
  BY <1>1, <1>7, <1>10, <1>11 DEF AfterOk
<1>13. req[r].did \notin blurred' /\ ToldOk(req[r]) => ToldOk(req[r])'
  <2> SUFFICES ASSUME req[r].did \notin blurred', ToldOk(req[r]) PROVE ToldOk(req[r])'
    OBVIOUS
  <2>1. plc'[req[r].did] = plc[req[r].did] /\ announced'[req[r].did] = announced[req[r].did]
    BY DEF Spared
  <2> QED
    BY <1>1, <1>6, <2>1 DEF ToldOk
<1> QED
  BY <1>1, <1>6, <1>8, <1>9, <1>12, <1>13, <1>14 DEF Clean


LEMMA OthersAreSpared ==
    ASSUME Parameters, AccountsInvariant, NEW s, StepBy(s),
           NEW r \in Active, r # s, ~(req[r].names \subseteq blurred')
    PROVE  Spared(r)
<1>1. /\ s \in Active /\ r \in Requests /\ req'[r] = req[r] /\ blurred \subseteq blurred'
      /\ StoresStep(req[s].did, req[s].handle)
  BY ActiveRequests DEF StepBy
<1>2. /\ req[r].did # req[s].did /\ req[r].names \cap req[s].names = {}
      /\ ~(req[r].names \subseteq blurred)
  BY <1>1 DEF AccountsInvariant, NameInv, MeetInv
<1>3. req[r].did \in Dids /\ req[r].names \subseteq Handles
  BY RequestFacts
<1>4. ASSUME NEW n \in req[r].names, n \notin blurred'
      PROVE  At(n)' = At(n) /\ \A e \in Dids : registry'[e] = n <=> registry[e] = n
  <2>1. n \in Handles /\ n \notin req[s].names \cup blurred
    BY <1>1, <1>2, <1>3, <1>4
  <2> QED
    BY <2>1, RegistryFrame DEF StepBy
<1>5. ASSUME NEW e \in Dids, registry'[e] = req[r].handle, e # req[r].did
      PROVE  registry[e] = req[r].handle \/ req[r].handle = None
  <2>1. req[r].handle # None => req[r].handle \in req[r].names
    BY RequestFacts
  <2>2. req[s].handle # None => req[s].handle \in req[s].names
    BY <1>1, RequestFacts
  <2> QED
    BY <1>1, <1>2, <1>5, <2>1, <2>2 DEF StoresStep
<1> QED
  BY <1>1, <1>2, <1>3, <1>4, <1>5 DEF Spared, StoresStep

\* What a step of s has to establish itself: of its names and its account, for
\* its next step or for those who come after it.
Establishes(s) ==
    /\ s \in Active' => req'[s].names \subseteq blurred' \/ Clean(req[s])'
    /\ s \notin Active' =>
         /\ \A n \in req[s].names : n \notin blurred' => Settled(n)'
         /\ (\A r \in Active : r # s => req[r].did # req[s].did) =>
               \A e \in Dids : e = req[s].did => RestOk(e)'

LEMMA StepNames ==
    ASSUME Parameters, AccountsInvariant, NEW s, StepBy(s), ZoneInv',
           Establishes(s)
    PROVE  NameInv'
<1>1. /\ s \in Active /\ \A r \in Requests : r # s => req'[r] = req[r]
      /\ blurred \subseteq blurred' /\ StoresStep(req[s].did, req[s].handle)
  BY DEF StepBy
<1>2. \A r \in Active' : Covered(req[r])'
  BY StepCovers
<1>3. MeetInv'
  BY StepMeets
<1>4. ASSUME NEW r \in Active' PROVE req'[r].names \subseteq blurred' \/ Clean(req[r])'
  <2>1. CASE r = s
    BY <1>4, <2>1 DEF Establishes
  <2>2. CASE r # s
    <3>1. r \in Active /\ req'[r] = req[r]
      BY <1>1, <2>2, StillActive, ActiveRequests
    <3>2. CASE req[r].names \subseteq blurred'
      BY <3>1, <3>2
    <3>3. CASE ~(req[r].names \subseteq blurred')
      <4>1. Spared(r)
        BY <2>2, <3>1, <3>3, OthersAreSpared
      <4>2. Clean(req[r])
        BY <1>1, <3>1, <3>3 DEF AccountsInvariant, NameInv
      <4> QED
        BY <3>1, <4>1, <4>2, SparedClean
    <3> QED
      BY <3>2, <3>3
  <2> QED
    BY <2>1, <2>2
<1>5. ASSUME NEW d \in Dids, AtRest(d)' PROVE RestOk(d)'
  <2>1. \A r \in Active : r # s => req[r].did # d
    BY <1>1, <1>5, StillActive, ActiveRequests DEF AtRest
  <2>2. CASE d = req[s].did
    <3>1. s \notin Active'
      BY <1>5, <2>2, StillActive DEF AtRest, Follows
    <3> QED
      BY <2>1, <2>2, <3>1 DEF Establishes
  <2>3. CASE d # req[s].did
    <3>1. AtRest(d)
      BY <2>1, <2>3 DEF AtRest
    <3>2. RestOk(d)
      BY <3>1 DEF AccountsInvariant, NameInv
    <3>3. /\ registry'[d] = registry[d] /\ ctx'[d] = ctx[d] /\ plc'[d] = plc[d]
          /\ announced'[d] = announced[d]
      BY <1>1, <2>3 DEF StoresStep
    <3> QED
      BY <1>1, <3>2, <3>3 DEF RestOk, Aligned
  <2> QED
    BY <2>2, <2>3
<1>6. ASSUME NEW n \in Handles \ blurred', \A r \in Active' : n \notin req'[r].names
      PROVE  Settled(n)'
  <2>1. n \in Handles /\ n \notin blurred /\ n \notin blurred'
    BY <1>1
  <2>2. CASE n \in req[s].names
    <3>1. s \notin Active'
      BY <1>6, <2>2, StillActive DEF Follows
    <3> QED
      BY <2>1, <2>2, <3>1 DEF Establishes
  <2>3. CASE n \notin req[s].names
    <3>1. \A r \in Active : n \notin req[r].names
      BY <1>1, <1>6, <2>3, StillActive, ActiveRequests
    <3>2. Settled(n)
      BY <2>1, <3>1 DEF AccountsInvariant, NameInv
    <3>3. n \notin req[s].names \cup blurred
      BY <2>1, <2>3
    <3>4. At(n)' = At(n)
      BY <2>1, <3>3 DEF StepBy
    <3>5. \A e \in Dids : registry'[e] = n <=> registry[e] = n
      BY <2>1, <3>3, RegistryFrame
    <3> QED
      BY <3>2, <3>4, <3>5, NamesFrame
  <2> QED
    BY <2>2, <2>3
<1> QED
  BY <1>2, <1>3, <1>4, <1>5, <1>6 DEF NameInv

\* And of the handles that this host keeps for the account.
KeepsLocal(s) ==
    \A d \in Dids : d = req[s].did /\ d \notin blurred' =>
        IF s \in Active' THEN LocalOk(req[s])'
        ELSE registry'[d] # None => repo'[d] = registry'[d] /\ ctx'[d] = registry'[d]

LEMMA StepLocal ==
    ASSUME Parameters, AccountsInvariant, NEW s, StepBy(s), KeepsLocal(s)
    PROVE  LocalInv'
<1>1. /\ s \in Active /\ \A r \in Requests : r # s => req'[r] = req[r]
      /\ blurred \subseteq blurred' /\ StoresStep(req[s].did, req[s].handle)
  BY DEF StepBy
<1>2. ASSUME NEW r \in Active', req'[r].did \notin blurred' PROVE LocalOk(req[r])'
  <2>1. CASE r = s
    BY <1>1, <1>2, <2>1, StillActive, RequestFacts DEF KeepsLocal, Follows
  <2>2. CASE r # s
    <3>1. r \in Active /\ req'[r] = req[r] /\ req[r].did \in Dids
      BY <1>1, <2>2, StillActive, ActiveRequests, RequestFacts
    <3>2. LocalOk(req[r]) /\ req[r].did # req[s].did
      BY <1>1, <1>2, <2>2, <3>1 DEF AccountsInvariant, LocalInv, AloneInv
    <3> QED
      BY <1>1, <3>1, <3>2 DEF LocalOk, StoresStep
  <2> QED
    BY <2>1, <2>2
<1>3. ASSUME NEW d \in Dids, registry'[d] # None, AtRest(d)', d \notin blurred'
      PROVE  repo'[d] = registry'[d] /\ ctx'[d] = registry'[d]
  <2>1. \A r \in Active : r # s => req[r].did # d
    BY <1>1, <1>3, StillActive, ActiveRequests DEF AtRest
  <2>2. CASE d = req[s].did
    <3>1. s \notin Active'
      BY <1>3, <2>2, StillActive DEF AtRest, Follows
    <3> QED
      BY <1>3, <2>2, <3>1 DEF KeepsLocal
  <2>3. CASE d # req[s].did
    <3>1. AtRest(d)
      BY <2>1, <2>3 DEF AtRest
    <3> QED
      BY <1>1, <1>3, <2>3, <3>1 DEF StoresStep, AccountsInvariant, LocalInv, LocalAgree
  <2> QED
    BY <2>2, <2>3
<1> QED
  BY <1>2, <1>3 DEF LocalInv, LocalAgree


\* A request whose names are all blurred has nothing to establish.
LEMMA BlurredEstablishes ==
    ASSUME Parameters, AccountsInvariant, NEW s, StepBy(s), BornInv',
           req[s].names \subseteq blurred'
    PROVE  Establishes(s)
<1>1. s \in Active /\ blurred \subseteq blurred' /\ StoresStep(req[s].did, req[s].handle)
  BY DEF StepBy
<1>2. s \in Active' => req'[s].names \subseteq blurred'
  BY StillActive DEF Follows
<1>3. ASSUME NEW e \in Dids, e = req[s].did PROVE RestOk(e)'
  <2>1. registry'[e] \in blurred' \cup {None} /\ ctx'[e] \in blurred' \cup {None}
    BY <1>1, <1>3, RequestFacts DEF StoresStep
  <2>2. registry'[e] # None => ctx'[e] # None
    BY DEF BornInv
  <2> QED
    BY <2>1, <2>2 DEF RestOk, Aligned
<1> QED
  BY <1>2, <1>3 DEF Establishes

LEMMA CleanBefore ==
    ASSUME AccountsInvariant, NEW s, StepBy(s), ~(req[s].names \subseteq blurred')
    PROVE  Clean(req[s])
BY DEF StepBy, AccountsInvariant, NameInv

\* The step writes no record, and the record it has looked up is at the name.
LEMMA ZoneUnwritten ==
    ASSUME Parameters, AccountsInvariant, NEW s, StepBy(s), zone' = zone,
           \A z \in zone : s \in Active' /\ z.id = req'[s].rec =>
              /\ req'[s].at = "write" => z.name = req[s].handle
              /\ req'[s].at = "erase" => z.name = req'[s].old
    PROVE  ZoneInv'
<1>1. /\ \A r \in Requests : r # s => req'[r] = req[r]
      /\ calls' = calls /\ s \in Active
  BY DEF StepBy
<1>2. ZoneInv
  BY DEF AccountsInvariant, NameInv
<1>3. ASSUME NEW r \in Active'
      PROVE  /\ r \in Active /\ req'[r].call = req[r].call /\ req'[r].did = req[r].did
             /\ req'[r].handle = req[r].handle
             /\ req'[r].at \in Unwritten => req[r].at \in Unwritten
             /\ \/ req'[r].rec = req[r].rec
                \/ req'[r].rec = None
                \/ \E z \in zone : req'[r].rec = z.id
             /\ r # s => req'[r] = req[r]
  <2>1. r \in Active /\ r \in Requests
    BY StillActive, ActiveRequests
  <2>2. CASE r = s
    BY <2>1, <2>2, StillActive DEF Follows
  <2>3. CASE r # s
    BY <1>1, <2>1, <2>3
  <2> QED
    BY <2>2, <2>3
<1>4. \A r, t \in Active' : r # t => req'[r].call # req'[t].call
  BY <1>2, <1>3 DEF ZoneInv
<1>5. ASSUME NEW r \in Active', req'[r].at \in Unwritten
      PROVE  /\ \A z \in zone : z.id # NewId(req[r])'
             /\ \A t \in Active' : req'[t].rec # NewId(req[r])'
  <2>1. NewId(req[r])' = NewId(req[r])
    BY <1>3 DEF NewId
  <2>2. r \in Active /\ req[r].at \in Unwritten
    BY <1>3, <1>5
  <2>3. /\ \A z \in zone : z.id # NewId(req[r])
        /\ \A t \in Active : req[t].rec # NewId(req[r])
    BY <1>2, <2>2 DEF ZoneInv
  <2>4. NewId(req[r]) # None
    BY <2>2, RequestFacts DEF NewId, Ids
  <2> QED
    BY <1>3, <2>1, <2>3, <2>4
<1>6. ASSUME NEW r \in Active', NEW z \in zone, z.id = req'[r].rec
      PROVE  /\ req'[r].at = "write" => z.name = req'[r].handle
             /\ req'[r].at = "erase" => z.name = req'[r].old
  <2>1. CASE r = s
    BY <1>3, <1>6, <2>1
  <2>2. CASE r # s
    BY <1>2, <1>3, <1>6, <2>2 DEF ZoneInv
  <2> QED
    BY <2>1, <2>2
<1>7. /\ \A z \in zone' : RecordShape(z)
      /\ \A z \in zone' : z.id \in Ids /\ z.id[1] <= calls' /\ z.did \in Dids
      /\ \A y, z \in zone' : y.id = z.id => y = z
  BY <1>1, <1>2 DEF ZoneInv
<1> QED
  BY <1>4, <1>5, <1>6, <1>7 DEF ZoneInv, RecordShape

\* The account keeps its repository and its context, or gets them.
LEMMA StepBorn ==
    ASSUME Parameters, AccountsInvariant, NEW s, StepBy(s),
           NEW d, d = req[s].did,
           repo'[d] = repo[d] \/ repo'[d] # None,
           ctx'[d] = ctx[d] \/ (ctx'[d] # None /\ repo'[d] # None),
           registry'[d] \in {registry[d], None} \/ ctx'[d] # None,
           s \in Active' =>
             /\ IF req'[s].at \in Unregistered
                THEN /\ registry'[d] = None /\ ctx'[d] = None
                     /\ req'[s].at = "register" => repo'[d] = req[s].handle
                ELSE ctx'[d] # None
             /\ req'[s].kind = "rename" /\ req'[s].at = "registry" => req'[s].old # None
    PROVE  BornInv'
<1>1. /\ s \in Active /\ \A r \in Requests : r # s => req'[r] = req[r]
      /\ StoresStep(req[s].did, req[s].handle) /\ d \in Dids
  BY RequestFacts DEF StepBy
<1>2. BornInv /\ AloneInv
  BY DEF AccountsInvariant
<1>3. ASSUME NEW e \in Dids
      PROVE  (registry'[e] # None => ctx'[e] # None) /\ (ctx'[e] # None => repo'[e] # None)
  BY <1>1, <1>2 DEF StoresStep, BornInv
<1>4. ASSUME NEW r \in Active'
      PROVE  /\ IF req'[r].at \in Unregistered
                THEN /\ registry'[req'[r].did] = None /\ ctx'[req'[r].did] = None
                     /\ req'[r].at = "register" => repo'[req'[r].did] = req'[r].handle
                ELSE ctx'[req'[r].did] # None
             /\ req'[r].kind = "rename" /\ req'[r].at = "registry" => req'[r].old # None
  <2>1. r \in Active /\ r \in Requests /\ req[r].did \in Dids
    BY StillActive, ActiveRequests, RequestFacts
  <2>2. CASE r = s
    <3>1. req'[r].did = d /\ req'[r].handle = req[s].handle
      BY <1>4, <2>2, StillActive DEF Follows
    <3> QED
      BY <1>4, <2>2, <3>1
  <2>3. CASE r # s
    <3>1. req'[r] = req[r]
      BY <1>1, <2>1, <2>3
    <3>2. CASE req[r].did # d
      <4>1. /\ registry'[req[r].did] = registry[req[r].did] /\ ctx'[req[r].did] = ctx[req[r].did]
            /\ repo'[req[r].did] = repo[req[r].did]
        BY <1>1, <2>1, <3>2 DEF StoresStep
      <4> QED
        BY <1>2, <2>1, <3>1, <4>1 DEF BornInv
    <3>3. CASE req[r].did = d
      <4>1. req[r].at \notin Unregistered
        BY <1>1, <1>2, <2>1, <2>3, <3>3 DEF AloneInv
      <4>2. ctx[d] # None
        BY <1>2, <2>1, <3>3, <4>1 DEF BornInv
      <4> QED
        BY <1>2, <2>1, <3>1, <3>3, <4>1, <4>2 DEF BornInv
    <3> QED
      BY <3>2, <3>3
  <2> QED
    BY <2>2, <2>3
<1> QED
  BY <1>3, <1>4 DEF BornInv

LEMMA StepDone ==
    ASSUME Parameters, AccountsInvariant, NEW s, StepBy(s), ZoneInv', BornInv',
           ~(req[s].names \subseteq blurred') => Establishes(s), KeepsLocal(s)
    PROVE  AccountsInvariant'
<1>1. Establishes(s)
  BY BlurredEstablishes
<1>2. RowsInv /\ ZoneInv
  BY DEF AccountsInvariant, NameInv
<1> QED
  BY <1>1, <1>2, StepTypes, StepInvites, StepRows, StepMeets, StepLocal, StepNames
  DEF AccountsInvariant


\* The request s goes on at a, with the old name o and the record c.
Moved(s, a, o, c) ==
    /\ DOMAIN req' = Requests /\ \A r \in Requests : r # s => req'[r] = req[r]
    /\ RequestShape(req'[s])
    /\ req'[s].at = a /\ req'[s].old = o /\ req'[s].rec = c
    /\ req'[s].kind = req[s].kind /\ req'[s].did = req[s].did /\ req'[s].handle = req[s].handle
    /\ req'[s].names = req[s].names /\ req'[s].call = req[s].call /\ req'[s].code = req[s].code

Ended(s) ==
    /\ DOMAIN req' = Requests /\ \A r \in Requests : r # s => req'[r] = req[r]
    /\ req'[s] = Idle

LEMMA GotoMoves ==
    ASSUME Parameters, AccountsInvariant, NEW s \in Active, NEW a, NEW o, NEW c,
           \/ req' = [req EXCEPT ![s].at = a] /\ o = req[s].old /\ c = req[s].rec
           \/ req' = [req EXCEPT ![s].at = a, ![s].old = o] /\ c = req[s].rec
           \/ req' = [req EXCEPT ![s].at = a, ![s].rec = c] /\ o = req[s].old
    PROVE  Moved(s, a, o, c)
<1>1. s \in Requests /\ DOMAIN req = Requests /\ RequestShape(req[s])
  BY RequestFacts, StoreTypes
<1>2. DOMAIN req' = Requests /\ \A r \in Requests : r # s => req'[r] = req[r]
  BY <1>1
<1>3. \/ req'[s] = [req[s] EXCEPT !.at = a] /\ o = req[s].old /\ c = req[s].rec
      \/ req'[s] = [req[s] EXCEPT !.at = a, !.old = o] /\ c = req[s].rec
      \/ req'[s] = [req[s] EXCEPT !.at = a, !.rec = c] /\ o = req[s].old
  BY <1>1
<1>4. /\ RequestShape(req'[s]) /\ req'[s].at = a /\ req'[s].old = o /\ req'[s].rec = c
      /\ req'[s].kind = req[s].kind /\ req'[s].did = req[s].did
      /\ req'[s].handle = req[s].handle /\ req'[s].names = req[s].names
      /\ req'[s].call = req[s].call /\ req'[s].code = req[s].code
  <2> SUFFICES ASSUME NEW q, q = req[s], NEW p, p = req'[s]
               PROVE  /\ RequestShape(p) /\ p.at = a /\ p.old = o /\ p.rec = c
                      /\ p.kind = q.kind /\ p.did = q.did /\ p.handle = q.handle
                      /\ p.names = q.names /\ p.call = q.call /\ p.code = q.code
    BY DEF RequestShape
  <2>1. RequestShape(q)
    BY <1>1 DEF RequestShape
  <2>2. \/ p = [q EXCEPT !.at = a] /\ o = q.old /\ c = q.rec
        \/ p = [q EXCEPT !.at = a, !.old = o] /\ c = q.rec
        \/ p = [q EXCEPT !.at = a, !.rec = c] /\ o = q.old
    BY <1>3
  <2>3. q \in [at : {q.at}, kind : {q.kind}, did : {q.did}, handle : {q.handle},
               old : {q.old}, rec : {q.rec}, code : {q.code}, call : {q.call},
               names : {q.names}]
    BY <2>1 DEF RequestShape
  <2>4. p \in [at : {a}, kind : {q.kind}, did : {q.did}, handle : {q.handle}, old : {o},
               rec : {c}, code : {q.code}, call : {q.call}, names : {q.names}]
    <3>1. CASE p = [q EXCEPT !.at = a] /\ o = q.old /\ c = q.rec
      BY <2>3, <3>1
    <3>2. CASE p = [q EXCEPT !.at = a, !.old = o] /\ c = q.rec
      BY <2>3, <3>2
    <3>3. CASE p = [q EXCEPT !.at = a, !.rec = c] /\ o = q.old
      BY <2>3, <3>3
    <3> QED
      BY <2>2, <3>1, <3>2, <3>3
  <2>5. /\ p.at = a /\ p.old = o /\ p.rec = c
        /\ p.kind = q.kind /\ p.did = q.did /\ p.handle = q.handle
        /\ p.names = q.names /\ p.call = q.call /\ p.code = q.code
    BY <2>4
  <2> QED
    BY <2>4, <2>5 DEF RequestShape
<1> QED
  BY <1>2, <1>4 DEF Moved

LEMMA FinishEnds ==
    ASSUME Parameters, AccountsInvariant, NEW s \in Active, Finish(s)
    PROVE  Ended(s)
<1>1. s \in Requests /\ DOMAIN req = Requests
  BY RequestFacts, StoreTypes
<1> QED
  BY <1>1 DEF Finish, Ended

LEMMA MovedFollows ==
    ASSUME NEW s, NEW a, NEW o, NEW c, Moved(s, a, o, c), StageOk(req'[s]),
           a \in Unregistered => req[s].at \in Unregistered,
           a \in Unwritten => req[s].at \in Unwritten,
           o = req[s].old \/ (req[s].kind # "signup" /\ o = ctx[req[s].did]),
           c = req[s].rec \/ c = None \/ \E z \in zone : c = z.id
    PROVE  Follows(req'[s], req[s])
BY DEF Moved, Follows

\* The parts of a step that most handlers' steps have in common.
LEMMA StepShape ==
    ASSUME AccountsInvariant, NEW s \in Active,
           Ended(s) \/ (Follows(req'[s], req[s]) /\ DOMAIN req' = Requests
                          /\ \A r \in Requests : r # s => req'[r] = req[r]),
           StoresStep(req[s].did, req[s].handle),
           NoFault \/ Fault(s), zone' = zone
    PROVE  StepBy(s)
<1>1. /\ blurred \subseteq blurred' /\ calls' = calls /\ provider' = provider
      /\ invites' = invites /\ admitted' = admitted
  BY DEF NoFault, Fault
<1>2. \A n \in Handles : At(n)' = At(n)
  BY DEF At
<1> QED
  BY <1>1, <1>2, StoreTypes DEF StepBy, Ended

LEMMA StoresSame ==
    ASSUME Parameters, AccountsInvariant, NEW s \in Active, UNCHANGED stores
    PROVE  /\ StoresStep(req[s].did, req[s].handle)
           /\ registry' = registry /\ repo' = repo /\ ctx' = ctx /\ plc' = plc
           /\ announced' = announced
BY StoreTypes, RequestFacts DEF StoresStep, stores

LEMMA FaultBlurs ==
    ASSUME NEW s, Fault(s)
    PROVE  req[s].names \subseteq blurred' /\ req[s].did \in blurred' /\ KeepsLocal(s)
BY DEF Fault, KeepsLocal


\* What a request has established, read from its record.
LEMMA ReadNext ==
    ASSUME NEW s, NEW p, p = req'[s]
    PROVE  /\ Clean(p)' => Clean(req[s])'
           /\ LocalOk(p)' => LocalOk(req[s])'
<1>1. /\ TakenByOther(req[s].did, req[s].handle)' <=> TakenByOther(p.did, p.handle)'
      /\ Aligned(req[s].did)' <=> Aligned(p.did)'
      /\ Before(req[s])' <=> Before(p)'
      /\ Leaving(req[s])' = Leaving(p)'
  BY DEF TakenByOther, find_by_handle, Aligned, Before, Leaving
<1>2. At(req[s].handle)' = At(p.handle)'
  BY DEF At
<1>3. /\ Single(req[s].handle, req[s].did)' <=> Single(p.handle, p.did)'
      /\ Owned(req[s].handle)' <=> Owned(p.handle)'
  BY <1>2 DEF Single, Owned
<1>4. Settled(req[s].handle)' <=> Settled(p.handle)'
  <2>1. \A d : Single(req[s].handle, d)' <=> Single(p.handle, d)'
    BY <1>2 DEF Single
  <2> QED
    BY <1>2, <1>3, <2>1 DEF Settled
<1>5. SignupOk(p)' => SignupOk(req[s])'
  BY <1>1, <1>4 DEF SignupOk
<1>6. BeforeOk(p)' => BeforeOk(req[s])'
  BY <1>1 DEF BeforeOk
<1>7. NewNameOk(p)' => NewNameOk(req[s])'
  BY <1>1, <1>2, <1>3 DEF NewNameOk
<1>8. \A n : OldNameOk(p, n)' => OldNameOk(req[s], n)'
  <2> TAKE n
  <2>1. Single(n, req[s].did)' <=> Single(n, p.did)'
    BY DEF Single
  <2> QED
    BY <2>1 DEF OldNameOk
<1>9. AfterOk(p)' => AfterOk(req[s])'
  BY <1>1, <1>7, <1>8 DEF AfterOk
<1>10. ToldOk(p)' => ToldOk(req[s])'
  BY <1>1 DEF ToldOk
<1>11. LocalOk(p)' => LocalOk(req[s])'
  BY DEF LocalOk
<1> QED
  BY <1>1, <1>5, <1>6, <1>9, <1>10, <1>11 DEF Clean

\* A step that goes on.
LEMMA MoveDone ==
    ASSUME Parameters, AccountsInvariant, NEW s, StepBy(s), ZoneInv', BornInv',
           NEW q, q = req[s], NEW p, p = req'[s], s \in Active',
           ~(q.names \subseteq blurred') /\ Clean(q) => Clean(p)',
           q.did \notin blurred' /\ LocalOk(q) => LocalOk(p)'
    PROVE  AccountsInvariant'
<1>1. ~(req[s].names \subseteq blurred') => Establishes(s)
  <2> SUFFICES ASSUME ~(req[s].names \subseteq blurred') PROVE Establishes(s)
    OBVIOUS
  <2>1. Clean(p)'
    BY CleanBefore
  <2> QED
    BY <2>1, ReadNext DEF Establishes
<1>2. KeepsLocal(s)
  <2> SUFFICES ASSUME NEW d \in Dids, d = req[s].did, d \notin blurred' PROVE LocalOk(req[s])'
    BY DEF KeepsLocal
  <2>1. LocalOk(q)
    BY DEF StepBy, AccountsInvariant, LocalInv
  <2> QED
    BY <2>1, ReadNext
<1> QED
  BY <1>1, <1>2, StepDone

\* A step that is the request's last.
LEMMA EndDone ==
    ASSUME Parameters, AccountsInvariant, NEW s, StepBy(s), ZoneInv', BornInv',
           NEW q, q = req[s], s \notin Active',
           ~(q.names \subseteq blurred') /\ Clean(q) =>
             /\ \A n \in q.names : n \notin blurred' => Settled(n)'
             /\ RestOk(q.did)',
           q.did \notin blurred' /\ LocalOk(q) /\ registry'[q.did] # None =>
             repo'[q.did] = registry'[q.did] /\ ctx'[q.did] = registry'[q.did]
    PROVE  AccountsInvariant'
<1>1. ~(req[s].names \subseteq blurred') => Establishes(s)
  <2> SUFFICES ASSUME ~(req[s].names \subseteq blurred') PROVE Establishes(s)
    OBVIOUS
  <2>1. Clean(q)
    BY CleanBefore
  <2>2. /\ \A n \in q.names : n \notin blurred' => Settled(n)'
        /\ \A e : e = q.did => RestOk(e)'
    BY <2>1
  <2> QED
    BY <2>2 DEF Establishes
<1>2. KeepsLocal(s)
  <2> SUFFICES ASSUME NEW d \in Dids, d = req[s].did, d \notin blurred', registry'[d] # None
               PROVE  repo'[d] = registry'[d] /\ ctx'[d] = registry'[d]
    BY DEF KeepsLocal
  <2>1. LocalOk(q)
    BY DEF StepBy, AccountsInvariant, LocalInv
  <2> QED
    BY <2>1
<1> QED
  BY <1>1, <1>2, StepDone

LEMMA FaultDone ==
    ASSUME Parameters, AccountsInvariant, NEW s, StepBy(s), ZoneInv', BornInv',
           Fault(s)
    PROVE  AccountsInvariant'
BY FaultBlurs, StepDone

\* The step leaves the names as they are.
LEMMA QuietNames ==
    ASSUME zone' = zone, registry' = registry, NEW n, NEW d
    PROVE  /\ At(n)' = At(n)
           /\ Settled(n)' <=> Settled(n)
           /\ Owned(n)' <=> Owned(n)
           /\ Single(n, d)' <=> Single(n, d)
           /\ TakenByOther(d, n)' <=> TakenByOther(d, n)
<1>1. At(n)' = At(n)
  BY DEF At
<1>2. TakenByOther(d, n)' <=> TakenByOther(d, n)
  BY DEF TakenByOther, find_by_handle
<1> QED
  BY <1>1, <1>2, NamesFrame

\* A request goes on and writes no record.
LEMMA QuietMove ==
    ASSUME Parameters, AccountsInvariant, NEW s \in Active, NEW a, NEW o, NEW c,
           Moved(s, a, o, c), StageOk(req'[s]),
           a \in Unregistered => req[s].at \in Unregistered,
           a \in Unwritten => req[s].at \in Unwritten,
           o = req[s].old \/ (req[s].kind # "signup" /\ o = ctx[req[s].did]),
           c = req[s].rec \/ c = None \/ \E z \in zone : c = z.id,
           \A z \in zone : z.id = c => /\ a = "write" => z.name = req[s].handle
                                       /\ a = "erase" => z.name = o,
           StoresStep(req[s].did, req[s].handle), NoFault \/ Fault(s), zone' = zone
    PROVE  StepBy(s) /\ s \in Active' /\ ZoneInv'
<1>1. Follows(req'[s], req[s])
  BY MovedFollows
<1>2. DOMAIN req' = Requests /\ \A r \in Requests : r # s => req'[r] = req[r]
  BY DEF Moved
<1>3. StepBy(s)
  BY <1>1, <1>2, StepShape
<1>4. s \in Active'
  BY <1>1, <1>3, StillActive
<1>5. req'[s].at = a /\ req'[s].old = o /\ req'[s].rec = c
  BY DEF Moved
<1> QED
  BY <1>3, <1>4, <1>5, ZoneUnwritten

\* A request ends and writes no record.
LEMMA QuietEnd ==
    ASSUME Parameters, AccountsInvariant, NEW s \in Active, Ended(s),
           StoresStep(req[s].did, req[s].handle), NoFault \/ Fault(s), zone' = zone
    PROVE  StepBy(s) /\ s \notin Active' /\ ZoneInv'
<1>1. StepBy(s)
  BY StepShape
<1>2. s \notin Active'
  BY IdleIsIdle, ActiveRequests DEF Ended
<1> QED
  BY <1>1, <1>2, ZoneUnwritten

\* The invariant's say of the stages of a sign-up before the account's row.
LEMMA SignupFacts ==
    ASSUME Parameters, AccountsInvariant, NEW s \in Active,
           req[s].at \in Unregistered
    PROVE  /\ registry[req[s].did] = None /\ ctx[req[s].did] = None
           /\ req[s].kind = "signup" /\ req[s].handle \in Handles /\ req[s].old = None
           /\ req[s].at = "register" => repo[req[s].did] = req[s].handle
           /\ Clean(req[s]) <=>
                SignupOk(req[s]) /\ (req[s].did \notin blurred => ToldOk(req[s]))
<1>1. /\ registry[req[s].did] = None /\ ctx[req[s].did] = None
      /\ req[s].at = "register" => repo[req[s].did] = req[s].handle
  BY DEF AccountsInvariant, BornInv
<1>2. req[s].kind = "signup"
  BY RequestFacts DEF StageOk, Unregistered
<1>3. req[s].handle \in Handles /\ req[s].old = None
  BY <1>2, RequestFacts
<1> QED
  BY <1>1, <1>2, <1>3 DEF Clean

LEMMA SignupRefusedStep ==
    ASSUME Parameters, AccountsInvariant, NEW s \in Requests, SignupRefused(s)
    PROVE  AccountsInvariant'
<1>1. s \in Active /\ req[s].at \in Unregistered /\ NoFault /\ zone' = zone
      /\ UNCHANGED stores /\ Finish(s)
  BY ActiveRequests DEF SignupRefused, Unregistered
<1>2. StepBy(s) /\ s \notin Active' /\ ZoneInv'
  BY <1>1, FinishEnds, StoresSame, QuietEnd
<1>3. BornInv'
  BY <1>1, <1>2, StoresSame, StepBorn
<1> SUFFICES ASSUME NEW q, q = req[s] PROVE AccountsInvariant'
  OBVIOUS
<1>4. Clean(q) => \A n \in q.names : n \notin blurred' => Settled(n)'
  BY <1>1, SignupFacts, StoresSame, QuietNames DEF SignupOk, NoFault
<1>5. registry'[q.did] = None
  BY <1>1, SignupFacts, StoresSame
<1>6. RestOk(q.did)'
  BY <1>5 DEF RestOk, Aligned
<1> QED
  BY <1>1, <1>2, <1>3, <1>4, <1>5, <1>6, EndDone

\* A sign-up goes on, still without a row.
LEMMA SignupMove ==
    ASSUME Parameters, AccountsInvariant, NEW s \in Active, NEW q, q = req[s],
           q.at \in Unregistered, NEW a \in {"mint", "open", "register"},
           Moved(s, a, q.old, q.rec), NoFault, zone' = zone, registry' = registry,
           ctx' = ctx, StoresStep(q.did, q.handle),
           repo'[q.did] = q.handle \/ (a # "register" /\ repo'[q.did] = repo[q.did]),
           Clean(q) => ~TakenByOther(q.did, q.handle),
           Clean(q) /\ q.did \in PlcDids \ blurred /\ a # "mint" =>
             plc'[q.did] = q.handle
    PROVE  AccountsInvariant'
<1>1. /\ registry[q.did] = None /\ ctx[q.did] = None /\ q.kind = "signup"
      /\ q.handle \in Handles /\ None \notin Handles
      /\ Clean(q) => SignupOk(q) /\ (q.did \notin blurred => ToldOk(q))
  BY SignupFacts, RequestFacts
<1> SUFFICES ASSUME NEW p, p = req'[s] PROVE AccountsInvariant'
  OBVIOUS
<1>2. /\ p.at = a /\ p.old = q.old /\ p.rec = q.rec /\ p.kind = q.kind /\ p.did = q.did
      /\ p.handle = q.handle /\ p.names = q.names
  BY DEF Moved
<1>3. StepBy(s) /\ s \in Active' /\ ZoneInv'
  <2>1. StageOk(req'[s])
    BY <1>1, <1>2 DEF StageOk
  <2>2. a # "write" /\ a # "erase"
    OBVIOUS
  <2>3. a \in Unregistered => q.at \in Unregistered
    OBVIOUS
  <2>4. a \in Unwritten => q.at \in Unwritten
    BY DEF Unregistered, Unwritten
  <2> QED
    BY <2>1, <2>2, <2>3, <2>4, QuietMove
<1>4. BornInv'
  <2>1. a \in Unregistered
    BY DEF Unregistered
  <2>2. repo'[q.did] = repo[q.did] \/ repo'[q.did] # None
    BY <1>1
  <2> QED
    BY <1>1, <1>2, <1>3, <2>1, <2>2, StepBorn
<1>5. Clean(q) => Clean(p)'
  <2> SUFFICES ASSUME Clean(q) PROVE Clean(p)'
    OBVIOUS
  <2>1. blurred' = blurred
    BY DEF NoFault
  <2>2. SignupOk(p)'
    BY <1>1, <1>2, <2>1, QuietNames DEF SignupOk
  <2>3. p.did \notin blurred' => ToldOk(p)'
    BY <1>1, <1>2, <2>1 DEF ToldOk
  <2>4. p.at \in Unregistered
    BY <1>2 DEF Unregistered
  <2> QED
    BY <2>2, <2>3, <2>4 DEF Clean
<1>6. LocalOk(p)'
  BY <1>1, <1>2 DEF LocalOk
<1> QED
  BY <1>3, <1>4, <1>5, <1>6, MoveDone

LEMMA SignupCheckedStep ==
    ASSUME Parameters, AccountsInvariant, NEW s \in Requests, SignupChecked(s)
    PROVE  AccountsInvariant'
<1>1. s \in Active /\ req[s].at \in Unregistered /\ NoFault /\ zone' = zone
      /\ UNCHANGED stores
  BY ActiveRequests DEF SignupChecked, Unregistered
<1> SUFFICES ASSUME NEW q, q = req[s] PROVE AccountsInvariant'
  OBVIOUS
<1>2. Moved(s, "mint", q.old, q.rec)
  BY <1>1, GotoMoves DEF SignupChecked, Goto
<1>3. ~TakenByOther(q.did, q.handle)
  BY DEF SignupChecked, TakenByOther, find_by_handle
<1> QED
  BY <1>1, <1>2, <1>3, SignupMove, StoresSame

LEMMA MintStep ==
    ASSUME Parameters, AccountsInvariant, NEW s \in Requests, mint_plc_did(s)
    PROVE  AccountsInvariant'
<1>1. /\ s \in Active /\ req[s].at = "mint" /\ NoFault /\ zone' = zone
      /\ UNCHANGED <<registry, repo, ctx, announced>>
  BY ActiveRequests DEF mint_plc_did
<1> SUFFICES ASSUME NEW q, q = req[s] PROVE AccountsInvariant'
  OBVIOUS
<1>2. Moved(s, "open", q.old, q.rec)
  BY <1>1, GotoMoves DEF mint_plc_did, Goto
<1>3. /\ q.did \in Dids /\ q.handle \in Names
  BY <1>1, RequestFacts
<1>4. /\ plc' \in [Dids -> Names] /\ \A e \in Dids : e # q.did => plc'[e] = plc[e]
      /\ q.did \in PlcDids => plc'[q.did] = q.handle
  BY <1>3, StoreTypes DEF mint_plc_did
<1>5. StoresStep(q.did, q.handle)
  BY <1>1, <1>3, <1>4, StoreTypes DEF StoresStep
<1>6. q.at \in Unregistered /\ q.at # "check"
  BY <1>1 DEF Unregistered
<1>7. Clean(q) => ~TakenByOther(q.did, q.handle)
  BY <1>1, <1>6, SignupFacts DEF SignupOk
<1> QED
  BY <1>1, <1>2, <1>4, <1>5, <1>6, <1>7, SignupMove

LEMMA ContextOpenStep ==
    ASSUME Parameters, AccountsInvariant, NEW s \in Requests, context_open(s)
    PROVE  AccountsInvariant'
<1>1. /\ s \in Active /\ req[s].at = "open" /\ NoFault /\ zone' = zone
      /\ UNCHANGED <<registry, ctx, plc, announced>>
  BY ActiveRequests DEF context_open
<1> SUFFICES ASSUME NEW q, q = req[s] PROVE AccountsInvariant'
  OBVIOUS
<1>2. Moved(s, "register", q.old, q.rec)
  BY <1>1, GotoMoves DEF context_open, Goto
<1>3. /\ q.did \in Dids /\ q.handle \in Names
  BY <1>1, RequestFacts
<1>4. /\ repo' \in [Dids -> Names] /\ \A e \in Dids : e # q.did => repo'[e] = repo[e]
      /\ repo'[q.did] = q.handle
  BY <1>3, StoreTypes DEF context_open
<1>5. StoresStep(q.did, q.handle)
  BY <1>1, <1>3, <1>4, StoreTypes DEF StoresStep
<1>6. q.at \in Unregistered /\ q.at # "check" /\ q.at # "mint"
  BY <1>1 DEF Unregistered
<1>7. Clean(q) => ~TakenByOther(q.did, q.handle)
  BY <1>1, <1>6, SignupFacts DEF SignupOk
<1>8. Clean(q) /\ q.did \in PlcDids \ blurred => plc'[q.did] = q.handle
  BY <1>1, <1>6, SignupFacts DEF ToldOk
<1> QED
  BY <1>1, <1>2, <1>4, <1>5, <1>6, <1>7, <1>8, SignupMove

LEMMA ProvisionFailsStep ==
    ASSUME Parameters, AccountsInvariant, NEW s \in Requests, ProvisionFails(s)
    PROVE  AccountsInvariant'
<1>1. s \in Active /\ Fault(s) /\ zone' = zone /\ UNCHANGED stores
      /\ Finish(s)
  BY ActiveRequests DEF ProvisionFails
<1>2. StepBy(s) /\ s \notin Active' /\ ZoneInv'
  BY <1>1, FinishEnds, StoresSame, QuietEnd
<1>3. BornInv'
  BY <1>1, <1>2, StoresSame, StepBorn
<1> QED
  BY <1>1, <1>2, <1>3, FaultDone

LEMMA AddWithEmailStep ==
    ASSUME Parameters, AccountsInvariant, NEW s \in Requests, add_with_email(s)
    PROVE  AccountsInvariant'
<1>1. /\ s \in Active /\ req[s].at = "register" /\ zone' = zone /\ blurred' = blurred
      /\ UNCHANGED <<repo, plc, announced, invites, calls, faults, provider>>
  BY ActiveRequests DEF add_with_email
<1> SUFFICES ASSUME NEW q, q = req[s] PROVE AccountsInvariant'
  OBVIOUS
<1>2. q.at \in Unregistered
  BY <1>1 DEF Unregistered
<1>3. /\ registry[q.did] = None /\ ctx[q.did] = None /\ q.kind = "signup"
      /\ q.handle \in Handles /\ repo[q.did] = q.handle
      /\ Clean(q) => SignupOk(q) /\ (q.did \notin blurred => ToldOk(q))
  BY <1>1, <1>2, SignupFacts
<1>4. q.did \in Dids /\ None \notin Handles /\ q.handle \in Names /\ q.old = None
  BY <1>1, <1>3, RequestFacts
<1>5. \A n \in Handles : At(n)' = At(n)
  BY <1>1 DEF At
<1>6. Clean(q) => ~TakenByOther(q.did, q.handle)
  BY <1>1, <1>3 DEF SignupOk
<1>7. CASE TakenByOther(q.did, q.handle)
  <2>1. Finish(s) /\ UNCHANGED <<registry, ctx, admitted>>
    BY <1>7 DEF add_with_email
  <2>2. Ended(s)
    BY <1>1, <2>1, FinishEnds
  <2>3. StoresStep(q.did, q.handle)
    BY <1>1, <1>4, <2>1, StoreTypes DEF StoresStep
  <2>4. StepBy(s)
    BY <1>1, <1>5, <2>1, <2>2, <2>3, StoreTypes DEF StepBy, Ended
  <2>5. s \notin Active'
    BY <2>2, IdleIsIdle, ActiveRequests DEF Ended
  <2>6. ZoneInv'
    BY <1>1, <2>4, <2>5, ZoneUnwritten
  <2>7. BornInv'
    BY <1>1, <2>1, <2>4, <2>5, StepBorn
  <2> QED
    BY <1>3, <1>6, <1>7, <2>1, <2>4, <2>5, <2>6, <2>7, EndDone
<1>8. CASE ~TakenByOther(q.did, q.handle)
  <2>1. /\ registry' = [registry EXCEPT ![q.did] = q.handle]
        /\ ctx' = [ctx EXCEPT ![q.did] = q.handle]
        /\ admitted' = [admitted EXCEPT ![q.did] = q.code]
        /\ req' = [req EXCEPT ![s].at = "activate"]
    BY <1>8 DEF add_with_email, registry_add, Goto
  <2>2. Moved(s, "activate", q.old, q.rec)
    BY <1>1, <2>1, GotoMoves
  <2> SUFFICES ASSUME NEW p, p = req'[s] PROVE AccountsInvariant'
    OBVIOUS
  <2>3. /\ p.at = "activate" /\ p.old = q.old /\ p.rec = q.rec /\ p.kind = q.kind
        /\ p.did = q.did /\ p.handle = q.handle /\ p.names = q.names
    BY <2>2 DEF Moved
  <2>4. \A e \in Dids : registry[e] = q.handle => e = q.did
    BY <1>8 DEF TakenByOther, find_by_handle
  <2>5. /\ registry'[q.did] = q.handle /\ ctx'[q.did] = q.handle
        /\ StoresStep(q.did, q.handle)
    <3>1. /\ registry' \in [Dids -> Names] /\ ctx' \in [Dids -> Names]
          /\ registry'[q.did] = q.handle /\ ctx'[q.did] = q.handle
          /\ \A e \in Dids : e # q.did => registry'[e] = registry[e] /\ ctx'[e] = ctx[e]
      BY <1>4, <2>1, StoreTypes
    <3> QED
      BY <1>1, <1>3, <1>4, <2>4, <3>1, StoreTypes DEF StoresStep
  <2>6. Follows(req'[s], req[s])
    <3>1. StageOk(req'[s])
      BY <1>3, <2>3 DEF StageOk
    <3>2. /\ "activate" \notin Unregistered
          /\ req[s].at \in Unwritten
      BY <1>1 DEF Unregistered, Unwritten
    <3> QED
      BY <2>2, <3>1, <3>2, MovedFollows
  <2>7. /\ DOMAIN admitted' = Dids
        /\ \A e \in Dids : \/ admitted'[e] = admitted[e]
                           \/ e = q.did /\ admitted'[e] = q.code
    BY <1>4, <2>1, StoreTypes
  <2>8. StepBy(s)
    BY <1>1, <1>5, <2>2, <2>5, <2>6, <2>7 DEF StepBy, Moved
  <2>9. s \in Active'
    BY <2>6, <2>8, StillActive
  <2>10. ZoneInv'
    BY <1>1, <2>3, <2>8, ZoneUnwritten
  <2>11. BornInv'
    <3>1. "activate" \notin Unregistered
      BY DEF Unregistered
    <3> QED
      BY <1>1, <1>3, <1>4, <2>3, <2>5, <2>8, <3>1, StepBorn
  <2>12. Clean(q) => Clean(p)'
    <3> SUFFICES ASSUME Clean(q) PROVE Clean(p)'
      OBVIOUS
    <3>1. /\ q.names = {q.handle}
          /\ q.handle \notin blurred => Settled(q.handle)
          /\ q.did \in PlcDids /\ q.did \notin blurred => plc[q.did] = q.handle
      BY <1>1, <1>3 DEF SignupOk, ToldOk
    <3>2. q.handle \notin blurred => At(q.handle)' = {}
      <4>1. ~ \E e \in Dids : registry[e] = q.handle
        BY <1>3, <1>4, <2>4
      <4>2. q.handle \notin blurred => At(q.handle) = {}
        BY <3>1, <4>1 DEF Settled
      <4> QED
        BY <1>3, <1>5, <4>2
    <3>3. q.handle \notin blurred => NewNameOk(p)'
      <4>1. Leaving(p)' = None
        BY <1>4, <2>3 DEF Leaving
      <4>2. p.at \in {"activate", "context", "publish"} /\ p.handle = q.handle /\ p.handle # None
        BY <1>3, <1>4, <2>3
      <4> QED
        BY <3>2, <4>1, <4>2 DEF NewNameOk
    <3>4. AfterOk(p)'
      <4>1. /\ registry'[p.did] = p.handle /\ ctx'[p.did] = p.handle /\ p.names = {p.handle}
            /\ p.handle \notin blurred' => NewNameOk(p)'
        BY <1>1, <2>3, <2>5, <3>1, <3>3
      <4> QED
        BY <4>1 DEF AfterOk
    <3>5. q.did \notin blurred => ToldOk(p)'
      BY <1>1, <1>3, <2>3, <2>5, <3>1 DEF ToldOk, Before
    <3>6. p.at \notin Unregistered /\ ~Before(p)'
      BY <1>3, <2>3 DEF Unregistered, Before
    <3> QED
      BY <1>1, <2>3, <3>4, <3>5, <3>6 DEF Clean
  <2>13. LocalOk(p)'
    BY <1>1, <1>3, <2>3, <2>5 DEF LocalOk
  <2> QED
    BY <2>8, <2>9, <2>10, <2>11, <2>12, <2>13, MoveDone
<1> QED
  BY <1>7, <1>8

\* Among the parts of Clean, the one that applies at a later stage.
LEMMA AfterFacts ==
    ASSUME AccountsInvariant, NEW s \in Active, NEW q, q = req[s],
           q.at \notin Unregistered, ~Before(q)
    PROVE  /\ Clean(q) <=> AfterOk(q) /\ (q.did \notin blurred => ToldOk(q))
           /\ ctx[q.did] # None
BY DEF Clean, AccountsInvariant, BornInv

LEMMA AfterNext ==
    ASSUME NEW p, p.at \notin Unregistered, ~Before(p)', AfterOk(p)',
           p.did \notin blurred' => ToldOk(p)'
    PROVE  Clean(p)'
BY DEF Clean

LEMMA AccountActivationStep ==
    ASSUME Parameters, AccountsInvariant, NEW s \in Requests, account_activation(s)
    PROVE  AccountsInvariant'
<1>1. /\ s \in Active /\ req[s].at = "activate" /\ zone' = zone
      /\ UNCHANGED <<registry, repo, ctx, plc>>
      /\ NoFault \/ Fault(s)
  BY ActiveRequests DEF account_activation
<1> SUFFICES ASSUME NEW q, q = req[s], NEW p, p = req'[s] PROVE AccountsInvariant'
  OBVIOUS
<1>2. Moved(s, "publish", q.old, q.rec)
  BY <1>1, GotoMoves DEF account_activation, Goto
<1>3. /\ p.at = "publish" /\ p.old = q.old /\ p.rec = q.rec /\ p.kind = q.kind
      /\ p.did = q.did /\ p.handle = q.handle /\ p.names = q.names
  BY <1>2 DEF Moved
<1>4. /\ q.kind = "signup" /\ q.handle \in Handles /\ q.did \in Dids /\ None \notin Handles
      /\ q.handle \in Names /\ q.old = None
  <2>1. q.kind = "signup"
    BY <1>1, RequestFacts DEF StageOk
  <2> QED
    BY <1>1, <2>1, RequestFacts
<1>5. /\ StoresStep(q.did, q.handle)
      /\ announced'[q.did] = q.handle \/ Fault(s)
  <2>1. /\ announced' \in [Dids -> Names]
        /\ \A e \in Dids : e # q.did => announced'[e] = announced[e]
        /\ announced'[q.did] = q.handle \/ Fault(s)
    BY <1>4, StoreTypes DEF account_activation
  <2> QED
    BY <1>1, <1>4, <2>1, StoreTypes DEF StoresStep
<1>6. p.at \notin Unregistered /\ q.at \notin Unregistered /\ q.at \in Unwritten
  BY <1>1, <1>3 DEF Unregistered, Unwritten
<1>7. StepBy(s) /\ s \in Active' /\ ZoneInv'
  <2>1. StageOk(req'[s])
    BY <1>3, <1>4 DEF StageOk
  <2> QED
    BY <1>1, <1>2, <1>3, <1>5, <1>6, <2>1, QuietMove
<1>8. BornInv'
  <2>1. ctx[q.did] # None
    BY <1>1, <1>6 DEF AccountsInvariant, BornInv
  <2> QED
    BY <1>1, <1>3, <1>6, <1>7, <2>1, StepBorn
<1>9. CASE Fault(s)
  BY <1>7, <1>8, <1>9, FaultDone
<1>10. CASE NoFault /\ announced'[q.did] = q.handle
  <2>1. blurred' = blurred
    BY <1>10 DEF NoFault
  <2>2. ~Before(q) /\ ~Before(p)'
    BY <1>3, <1>4 DEF Before
  <2>3. Clean(q) => Clean(p)'
    <3> SUFFICES ASSUME Clean(q) PROVE Clean(p)'
      OBVIOUS
    <3>1. AfterOk(q) /\ (q.did \notin blurred => ToldOk(q))
      BY <1>1, <1>6, <2>2, AfterFacts
    <3>2. Leaving(p)' = None /\ Leaving(q) = None
      BY <1>1, <1>3, <1>4 DEF Leaving
    <3>3. p.handle \notin blurred' => NewNameOk(p)'
      <4>1. q.handle \notin blurred => NewNameOk(q)
        BY <1>4, <3>1 DEF AfterOk
      <4>2. q.handle \notin blurred => At(q.handle) = {}
        BY <1>1, <1>4, <3>2, <4>1 DEF NewNameOk
      <4>3. At(q.handle)' = At(q.handle)
        BY <1>1, QuietNames
      <4> QED
        BY <1>3, <1>4, <2>1, <3>2, <4>2, <4>3 DEF NewNameOk
    <3>4. ASSUME NEW n \in p.names, n \notin blurred', n # p.handle PROVE OldNameOk(p, n)'
      BY <1>3, <1>4, <2>1, <3>1, <3>2, <3>4, RequestFacts, <1>1 DEF AfterOk
    <3>5. AfterOk(p)'
      BY <1>1, <1>3, <1>4, <2>1, <3>1, <3>2, <3>3, <3>4 DEF AfterOk
    <3>6. q.did \notin blurred => ToldOk(p)'
      BY <1>1, <1>3, <1>4, <1>10, <2>1, <2>2, <3>1 DEF ToldOk, AfterOk
    <3> QED
      BY <1>3, <1>6, <2>1, <2>2, <3>5, <3>6, AfterNext
  <2>4. LocalOk(q) => LocalOk(p)'
    BY <1>1, <1>3, <1>4 DEF LocalOk
  <2> QED
    BY <1>7, <1>8, <2>1, <2>3, <2>4, MoveDone
<1> QED
  BY <1>1, <1>5, <1>9, <1>10

\* A request goes on and is still before the change of its row.
LEMMA BeforeMove ==
    ASSUME Parameters, AccountsInvariant, NEW s \in Active, NEW q, q = req[s],
           NEW p, p = req'[s], NEW a, NEW o, Moved(s, a, o, q.rec), StageOk(p),
           Before(q), Before(p), NoFault, zone' = zone, registry' = registry,
           ctx' = ctx, StoresStep(q.did, q.handle),
           repo'[q.did] = repo[q.did] \/ repo'[q.did] # None,
           a \in Unwritten => q.at \in Unwritten,
           IF q.kind = "rename" /\ a = "registry" THEN o = ctx[q.did] ELSE o = q.old,
           ToldOk(q) => ToldOk(p)',
           LocalOk(q) => LocalOk(p)'
    PROVE  AccountsInvariant'
<1>1. /\ p.at = a /\ p.old = o /\ p.rec = q.rec /\ p.kind = q.kind /\ p.did = q.did
      /\ p.handle = q.handle /\ p.names = q.names
  BY DEF Moved
<1>2. a \notin Unregistered /\ q.at \notin Unregistered /\ a # "write" /\ a # "erase"
  BY <1>1 DEF Before, Unregistered
<1>3. ctx[q.did] # None
  BY <1>2 DEF AccountsInvariant, BornInv
<1>4. StepBy(s) /\ s \in Active' /\ ZoneInv'
  BY <1>1, <1>2, QuietMove
<1>5. BornInv'
  BY <1>1, <1>2, <1>3, <1>4, StepBorn
<1>6. blurred' = blurred
  BY DEF NoFault
<1>7. Before(p)'
  BY DEF Before
<1>8. Clean(q) => Clean(p)'
  <2> SUFFICES ASSUME Clean(q) PROVE Clean(p)'
    OBVIOUS
  <2>1. BeforeOk(q) /\ (q.did \notin blurred => ToldOk(q))
    BY <1>2 DEF Clean
  <2>2. Aligned(p.did)'
    BY <1>1, <1>6, <2>1 DEF BeforeOk, Aligned
  <2>3. \A n \in p.names \ blurred' : Settled(n)' /\ n \in {p.handle, registry'[p.did]}
    BY <1>1, <1>6, <2>1, QuietNames DEF BeforeOk
  <2>4. p.handle # None => ~TakenByOther(p.did, p.handle)'
    BY <1>1, <2>1, QuietNames DEF BeforeOk
  <2>5. BeforeOk(p)'
    BY <1>1, <1>6, <2>1, <2>2, <2>3, <2>4 DEF BeforeOk
  <2> QED
    BY <1>1, <1>2, <1>6, <1>7, <2>1, <2>5 DEF Clean
<1> QED
  BY <1>4, <1>5, <1>6, <1>8, MoveDone

LEMMA PlcUpdateStep ==
    ASSUME Parameters, AccountsInvariant, NEW s \in Requests, plc_update_handle(s)
    PROVE  AccountsInvariant'
<1>1. /\ s \in Active /\ req[s].at = "plc" /\ NoFault /\ zone' = zone
      /\ UNCHANGED <<registry, repo, ctx, announced>>
  BY ActiveRequests DEF plc_update_handle
<1> SUFFICES ASSUME NEW q, q = req[s], NEW p, p = req'[s] PROVE AccountsInvariant'
  OBVIOUS
<1>2. q.did \in Dids /\ q.handle \in Names /\ q.kind \in {"rename", "admin_rename"}
  BY <1>1, RequestFacts DEF StageOk
<1> SUFFICES ASSUME NEW a, a = IF q.kind = "rename" THEN "repo" ELSE "registry"
             PROVE  AccountsInvariant'
  OBVIOUS
<1>3. Moved(s, a, q.old, q.rec)
  BY <1>1, GotoMoves DEF plc_update_handle, Goto, AfterPlc
<1>4. /\ p.at = a /\ p.kind = q.kind /\ p.did = q.did /\ p.handle = q.handle
  BY <1>3 DEF Moved
<1>5. /\ plc' \in [Dids -> Names] /\ \A e \in Dids : e # q.did => plc'[e] = plc[e]
      /\ q.did \in PlcDids => plc'[q.did] = q.handle
  BY <1>2, StoreTypes DEF plc_update_handle
<1>6. StoresStep(q.did, q.handle)
  BY <1>1, <1>2, <1>5, StoreTypes DEF StoresStep
<1>7. StageOk(p) /\ Before(q) /\ Before(p) /\ q.at \in Unwritten
  BY <1>1, <1>2, <1>4 DEF StageOk, Before, Unwritten
<1>8. ToldOk(q) => ToldOk(p)'
  <2>1. Before(p)' <=> Before(p)
    BY DEF Before
  <2>2. p.at # "plc" /\ p.kind \notin {"delete", "admin_delete"}
    BY <1>2, <1>4
  <2> QED
    BY <1>1, <1>2, <1>4, <1>5, <1>7, <2>1, <2>2 DEF ToldOk, NoFault
<1>9. LocalOk(q) => LocalOk(p)'
  BY <1>1, <1>2, <1>4 DEF LocalOk
<1> QED
  BY <1>1, <1>2, <1>3, <1>6, <1>7, <1>8, <1>9, BeforeMove

LEMMA PlcFailsStep ==
    ASSUME Parameters, AccountsInvariant, NEW s \in Requests, PlcFails(s)
    PROVE  AccountsInvariant'
<1>1. /\ s \in Active /\ Fault(s) /\ zone' = zone /\ Finish(s)
      /\ UNCHANGED <<registry, repo, ctx, announced>>
  BY ActiveRequests DEF PlcFails
<1>2. req[s].did \in Dids /\ req[s].handle \in Names
  BY <1>1, RequestFacts
<1>3. /\ plc' \in [Dids -> Names]
      /\ \A e \in Dids : e # req[s].did => plc'[e] = plc[e]
  BY <1>2, StoreTypes DEF PlcFails
<1>4. StoresStep(req[s].did, req[s].handle)
  BY <1>1, <1>2, <1>3, StoreTypes DEF StoresStep
<1>5. StepBy(s) /\ s \notin Active' /\ ZoneInv'
  BY <1>1, <1>4, FinishEnds, QuietEnd
<1>6. BornInv'
  BY <1>1, <1>5, StepBorn
<1> QED
  BY <1>1, <1>5, <1>6, FaultDone

LEMMA SetHandleStep ==
    ASSUME Parameters, AccountsInvariant, NEW s \in Requests, set_handle(s)
    PROVE  AccountsInvariant'
<1>1. /\ s \in Active /\ req[s].at = "repo" /\ zone' = zone
      /\ UNCHANGED <<registry, ctx, plc, announced>>
  BY ActiveRequests DEF set_handle
<1> SUFFICES ASSUME NEW q, q = req[s], NEW p, p = req'[s] PROVE AccountsInvariant'
  OBVIOUS
<1>2. q.did \in Dids /\ q.handle \in Handles /\ q.kind = "rename" /\ None \notin Handles
      /\ q.handle \in Names
  <2>1. q.kind = "rename"
    BY <1>1, RequestFacts DEF StageOk
  <2> QED
    BY <1>1, <2>1, RequestFacts
<1>3. CASE NoFault /\ repo' = repo_set_handle(q.did, q.handle)
             /\ req' = [req EXCEPT ![s].at = "registry", ![s].old = ctx[q.did]]
  <2>1. Moved(s, "registry", ctx[q.did], q.rec)
    BY <1>1, <1>3, GotoMoves
  <2>2. /\ p.at = "registry" /\ p.old = ctx[q.did] /\ p.kind = q.kind /\ p.did = q.did
        /\ p.handle = q.handle
    BY <2>1 DEF Moved
  <2>3. /\ repo' \in [Dids -> Names] /\ \A e \in Dids : e # q.did => repo'[e] = repo[e]
        /\ repo'[q.did] = q.handle /\ q.handle # None
    BY <1>2, <1>3, StoreTypes DEF repo_set_handle
  <2>4. StoresStep(q.did, q.handle)
    BY <1>1, <1>2, <2>3, StoreTypes DEF StoresStep
  <2>5. StageOk(p) /\ Before(q) /\ Before(p) /\ q.at \in Unwritten
    BY <1>1, <1>2, <2>2 DEF StageOk, Before, Unwritten
  <2>6. ToldOk(q) => ToldOk(p)'
    <3>1. Before(p)' <=> Before(p)
      BY DEF Before
    <3> QED
      BY <1>1, <1>2, <1>3, <2>2, <2>5, <3>1 DEF ToldOk, NoFault
  <2>7. LocalOk(q) => LocalOk(p)'
    BY <1>1, <1>2, <2>2, <2>3 DEF LocalOk
  <2> QED
    BY <1>1, <1>2, <1>3, <2>1, <2>3, <2>4, <2>5, <2>6, <2>7, BeforeMove
<1>4. CASE UNCHANGED repo /\ Finish(s) /\ Fault(s)
  <2>1. UNCHANGED stores
    BY <1>1, <1>4 DEF stores
  <2>2. StepBy(s) /\ s \notin Active' /\ ZoneInv'
    BY <1>1, <1>4, <2>1, FinishEnds, StoresSame, QuietEnd
  <2>3. BornInv'
    BY <1>1, <1>4, <2>2, StepBorn
  <2> QED
    BY <1>4, <2>2, <2>3, FaultDone
<1> QED
  BY <1>3, <1>4 DEF set_handle

\* The row has the new handle; the name it had is still in the zone.
LEMMA RowChanges ==
    ASSUME Parameters, AccountsInvariant, NEW s \in Active, NEW q, q = req[s],
           NEW p, p.did = q.did, p.handle = q.handle, p.names = q.names, p.kind = q.kind,
           q.at = "registry", BeforeOk(q), blurred' = blurred, zone' = zone, ctx' = ctx,
           registry'[q.did] = q.handle, \A e \in Dids : e # q.did => registry'[e] = registry[e],
           \/ p.kind = "rename" /\ p.at = "publish" /\ p.old = q.old
           \/ p.kind = "admin_rename" /\ p.at = "context"
    PROVE  AfterOk(p)'
<1>1. /\ q.did \in Dids /\ q.handle \in Handles /\ None \notin Handles
      /\ q.names \subseteq Handles /\ q.handle \in q.names
  BY RequestFacts
<1> SUFFICES ASSUME NEW m, m = registry[q.did], NEW d, d = q.did, NEW h, h = q.handle
             PROVE  AfterOk(p)'
  OBVIOUS
<1>2. /\ m # None
      /\ ctx[d] = m \/ {ctx[d], m} \subseteq blurred
      /\ \A n \in q.names \ blurred : Settled(n) /\ n \in {h, m}
      /\ \A e \in Dids : registry[e] = h => e = d
      /\ p.kind = "rename" /\ h \notin blurred => h # ctx[d]
      /\ p.kind = "rename" => q.old = ctx[d]
  BY <1>1 DEF BeforeOk, Aligned, TakenByOther, find_by_handle
<1>3. \A e \in Dids : registry[e] = m => e = d
  BY <1>1, <1>2 DEF AccountsInvariant, RowsInv
<1>4. Leaving(p)' = ctx[d]
  BY <1>2 DEF Leaving
<1>5. \A n : At(n)' = At(n) /\ (Single(n, d)' <=> Single(n, d))
  BY DEF At, Single
<1>6. ASSUME m \notin blurred, m \in q.names PROVE Single(m, d) /\ ctx[d] = m
  <2>1. Settled(m)
    BY <1>2, <1>6
  <2>2. Owned(m)
    BY <1>1 DEF Owned
  <2> QED
    BY <1>2, <1>3, <1>6, <2>1, <2>2 DEF Settled
<1>7. ASSUME h \notin blurred PROVE NewNameOk(p)'
  <2>1. Settled(h)
    BY <1>1, <1>2, <1>7
  <2>2. CASE ctx[d] = h
    <3>1. m = h /\ p.kind = "admin_rename"
      BY <1>2, <1>7, <2>2
    <3>2. Single(h, d)'
      BY <1>1, <1>5, <1>6, <1>7, <3>1
    <3> QED
      BY <1>4, <2>2, <3>1, <3>2 DEF NewNameOk
  <2>3. CASE ctx[d] # h
    <3>1. m # h
      BY <1>2, <1>7, <2>3
    <3>2. ~ \E e \in Dids : registry[e] = h
      BY <1>2, <3>1
    <3>3. At(h)' = {}
      BY <1>5, <2>1, <3>2 DEF Settled
    <3> QED
      BY <1>4, <2>3, <3>3 DEF NewNameOk
  <2> QED
    BY <2>2, <2>3
<1>8. ASSUME NEW n \in q.names, n \notin blurred, n # h PROVE OldNameOk(p, n)'
  <2>1. n = m
    BY <1>2, <1>8
  <2>2. ~Owned(n)'
    BY <1>1, <1>3, <1>8, <2>1 DEF Owned
  <2>3. Single(n, d)'
    BY <1>5, <1>6, <1>8, <2>1
  <2> QED
    BY <2>2, <2>3 DEF OldNameOk
<1>9. \A n \in p.names \ blurred' : n \in {p.handle, ctx[d]}
  BY <1>2, <1>6
<1> QED
  BY <1>4, <1>7, <1>8, <1>9 DEF AfterOk

LEMMA RegistryUpdateStep ==
    ASSUME Parameters, AccountsInvariant, NEW s \in Requests,
           registry_update_handle(s)
    PROVE  AccountsInvariant'
<1>1. /\ s \in Active /\ req[s].at = "registry" /\ zone' = zone /\ NoFault
      /\ UNCHANGED <<ctx, plc, announced>> /\ blurred' = blurred
  BY ActiveRequests DEF registry_update_handle, NoFault
<1> SUFFICES ASSUME NEW q, q = req[s], NEW p, p = req'[s] PROVE AccountsInvariant'
  OBVIOUS
<1>2. q.kind \in {"rename", "admin_rename"}
  BY <1>1, RequestFacts DEF StageOk
<1>3. /\ q.did \in Dids /\ q.handle \in Handles /\ None \notin Handles
      /\ q.handle \in Names /\ q.old \in Names
  BY <1>1, <1>2, RequestFacts
<1>4. ctx[q.did] # None /\ repo[q.did] # None /\ (q.kind = "rename" => q.old # None)
  BY <1>1, <1>3 DEF AccountsInvariant, BornInv, Unregistered
<1>5. /\ q.at \notin Unregistered /\ Before(q)
      /\ Clean(q) => BeforeOk(q) /\ (q.did \notin blurred => ToldOk(q))
  BY <1>1, <1>2 DEF Unregistered, Before, Clean
<1>6. CASE TakenByOther(q.did, q.handle)
  <2>1. Finish(s) /\ registry' = registry /\ repo' = Restored(s)
    BY <1>6 DEF registry_update_handle
  <2>2. /\ repo' \in [Dids -> Names] /\ \A e \in Dids : e # q.did => repo'[e] = repo[e]
        /\ repo'[q.did] = IF q.kind = "rename" THEN q.old ELSE repo[q.did]
    BY <1>3, <2>1, StoreTypes DEF Restored, repo_set_handle
  <2>3. StoresStep(q.did, q.handle)
    BY <1>1, <1>3, <2>1, <2>2, StoreTypes DEF StoresStep
  <2>4. StepBy(s) /\ s \notin Active' /\ ZoneInv'
    BY <1>1, <2>1, <2>3, FinishEnds, QuietEnd
  <2>5. BornInv'
    BY <1>1, <1>4, <2>1, <2>2, <2>4, StepBorn
  <2>6. ~Clean(q)
    BY <1>3, <1>5, <1>6 DEF BeforeOk
  <2>7. LocalOk(q) /\ registry'[q.did] # None =>
          repo'[q.did] = registry'[q.did] /\ ctx'[q.did] = registry'[q.did]
    BY <1>1, <1>2, <2>1, <2>2 DEF LocalOk
  <2> QED
    BY <2>4, <2>5, <2>6, <2>7, EndDone
<1>7. CASE ~TakenByOther(q.did, q.handle)
  <2> SUFFICES ASSUME NEW a, a = IF q.kind = "rename" THEN "publish" ELSE "context"
               PROVE  AccountsInvariant'
    OBVIOUS
  <2>1. Goto(s, a) /\ repo' = repo
    BY <1>7 DEF registry_update_handle
  <2>2. Moved(s, a, q.old, q.rec)
    BY <1>1, <2>1, GotoMoves DEF Goto
  <2>3. /\ p.at = a /\ p.old = q.old /\ p.kind = q.kind /\ p.did = q.did
        /\ p.handle = q.handle /\ p.names = q.names
    BY <2>2 DEF Moved
  <2>4. /\ registry' \in [Dids -> Names]
        /\ \A e \in Dids : e # q.did => registry'[e] = registry[e]
        /\ registry'[q.did] = IF registry[q.did] = None THEN None ELSE q.handle
    BY <1>3, <1>7, StoreTypes DEF registry_update_handle
  <2>5. \A e \in Dids : registry[e] = q.handle => e = q.did
    BY <1>7 DEF TakenByOther, find_by_handle
  <2>6. StoresStep(q.did, q.handle)
    BY <1>1, <1>3, <2>1, <2>4, <2>5, StoreTypes DEF StoresStep
  <2>7. StageOk(p) /\ p.at \notin Unregistered /\ q.at \in Unwritten
        /\ ~Before(p)'
    BY <1>1, <1>2, <2>3 DEF StageOk, Unregistered, Unwritten, Before
  <2>8. StepBy(s) /\ s \in Active' /\ ZoneInv'
    BY <1>1, <2>2, <2>3, <2>6, <2>7, QuietMove
  <2>9. BornInv'
    BY <1>1, <1>2, <1>4, <2>1, <2>3, <2>7, <2>8, StepBorn
  <2>10. Clean(q) => Clean(p)'
    <3> SUFFICES ASSUME Clean(q) PROVE Clean(p)'
      OBVIOUS
    <3>1. BeforeOk(q) /\ registry'[q.did] = q.handle
      BY <1>5, <2>4 DEF BeforeOk
    <3>2. AfterOk(p)'
      BY <1>1, <1>2, <2>3, <2>4, <3>1, RowChanges
    <3>3. q.did \notin blurred => ToldOk(p)'
      <4>1. q.did \in PlcDids \ blurred => plc[q.did] = q.handle
        BY <1>1, <1>2, <1>5 DEF ToldOk
      <4> QED
        BY <1>1, <1>2, <2>3, <2>7, <4>1 DEF ToldOk
    <3> QED
      BY <1>1, <2>3, <2>7, <3>2, <3>3, AfterNext
  <2>11. LocalOk(q) => LocalOk(p)'
    BY <1>1, <1>2, <2>1, <2>3, <2>4 DEF LocalOk
  <2> QED
    BY <1>1, <2>8, <2>9, <2>10, <2>11, MoveDone
<1> QED
  BY <1>6, <1>7

\* The name a request is to retract, and the one it publishes, at its next stage.
LEMMA AfterClean ==
    ASSUME AccountsInvariant, NEW s \in Active, NEW q, q = req[s],
           NEW p, p.did = q.did, p.handle = q.handle, p.names = q.names, p.kind = q.kind,
           q.at \notin Unregistered, ~Before(q),
           p.at \notin Unregistered, ~Before(p),
           Clean(q), blurred' = blurred, registry'[q.did] = registry[q.did],
           p.kind = "signup" \/ (p.kind = "admin_rename" /\ p.at # "context") =>
             ctx'[q.did] = q.handle \/ (ctx'[q.did] = ctx[q.did] /\ q.at # "context"),
           Leaving(p)' = Leaving(q),
           q.handle \in Handles \ blurred /\ NewNameOk(q) => NewNameOk(p)',
           \A n \in q.names \ (blurred \cup {q.handle}) :
             n = Leaving(q) /\ OldNameOk(q, n) => OldNameOk(p, n)',
           AfterOk(q) /\ ToldOk(q) => ToldOk(p)'
    PROVE  Clean(p)'
<1>1. AfterOk(q) /\ (q.did \notin blurred => ToldOk(q))
  BY AfterFacts
<1>2. AfterOk(p)'
  <2>1. \A n \in q.names \ blurred : n \in {q.handle, Leaving(q)}
    BY <1>1 DEF AfterOk
  <2>2. \A n \in q.names \ (blurred \cup {q.handle}) : OldNameOk(p, n)'
    BY <1>1, <2>1 DEF AfterOk
  <2>3. p.kind = "signup" \/ (p.kind = "admin_rename" /\ p.at # "context") =>
          ctx'[p.did] = p.handle
    BY <1>1 DEF AfterOk
  <2> QED
    BY <1>1, <2>1, <2>2, <2>3 DEF AfterOk
<1>3. ~Before(p)'
  BY DEF Before
<1> QED
  BY <1>1, <1>2, <1>3, AfterNext

LEMMA SetContextStep ==
    ASSUME Parameters, AccountsInvariant, NEW s \in Requests, SetContext(s)
    PROVE  AccountsInvariant'
<1>1. /\ s \in Active /\ req[s].at = "context" /\ zone' = zone /\ NoFault
      /\ UNCHANGED <<registry, plc, announced>> /\ blurred' = blurred
  BY ActiveRequests DEF SetContext, NoFault
<1> SUFFICES ASSUME NEW q, q = req[s], NEW p, p = req'[s] PROVE AccountsInvariant'
  OBVIOUS
<1>2. q.kind = "admin_rename"
  BY <1>1, RequestFacts DEF StageOk
<1>3. /\ q.did \in Dids /\ q.handle \in Handles /\ None \notin Handles
      /\ q.handle \in Names
  BY <1>1, <1>2, RequestFacts
<1>4. Moved(s, "publish", ctx[q.did], q.rec)
  BY <1>1, GotoMoves DEF SetContext
<1>5. /\ p.at = "publish" /\ p.old = ctx[q.did] /\ p.kind = q.kind /\ p.did = q.did
      /\ p.handle = q.handle /\ p.names = q.names
  BY <1>4 DEF Moved
<1>6. /\ repo' \in [Dids -> Names] /\ ctx' \in [Dids -> Names]
      /\ \A e \in Dids : e # q.did => repo'[e] = repo[e] /\ ctx'[e] = ctx[e]
      /\ repo'[q.did] = q.handle /\ ctx'[q.did] = q.handle
  BY <1>3, StoreTypes DEF SetContext, repo_set_handle
<1>7. StoresStep(q.did, q.handle)
  BY <1>1, <1>3, <1>6, StoreTypes DEF StoresStep
<1>8. /\ StageOk(p) /\ p.at \notin Unregistered /\ q.at \notin Unregistered
      /\ q.at \in Unwritten /\ ~Before(q) /\ ~Before(p)
  BY <1>1, <1>2, <1>5 DEF StageOk, Unregistered, Unwritten, Before
<1>9. StepBy(s) /\ s \in Active' /\ ZoneInv'
  BY <1>1, <1>2, <1>4, <1>5, <1>7, <1>8, QuietMove
<1>10. BornInv'
  BY <1>1, <1>2, <1>3, <1>5, <1>6, <1>8, <1>9, StepBorn
<1>11. Clean(q) => Clean(p)'
  <2> SUFFICES ASSUME Clean(q) PROVE Clean(p)'
    OBVIOUS
  <2>1. Leaving(p)' = ctx[q.did] /\ Leaving(q) = ctx[q.did]
    BY <1>1, <1>2, <1>5 DEF Leaving
  <2>2. \A n, d : At(n)' = At(n) /\ (Single(n, d)' <=> Single(n, d))
                    /\ (Owned(n)' <=> Owned(n))
    BY <1>1, QuietNames
  <2>3. NewNameOk(q) => NewNameOk(p)'
    BY <1>1, <1>5, <2>1, <2>2 DEF NewNameOk
  <2>4. \A n : OldNameOk(q, n) => OldNameOk(p, n)'
    BY <1>1, <1>5, <2>2 DEF OldNameOk
  <2>5. ToldOk(q) => ToldOk(p)'
    <3>1. ~Before(p)'
      BY <1>8 DEF Before
    <3> QED
      BY <1>1, <1>2, <1>5, <3>1 DEF ToldOk
  <2> QED
    BY <1>1, <1>5, <1>6, <1>8, <2>1, <2>3, <2>4, <2>5, AfterClean
<1>12. LocalOk(q) => LocalOk(p)'
  BY <1>1, <1>2, <1>5, <1>6 DEF LocalOk
<1> QED
  BY <1>1, <1>9, <1>10, <1>11, <1>12, MoveDone

LEMMA SequencerIdentityStep ==
    ASSUME Parameters, AccountsInvariant, NEW s \in Requests, sequencer_identity(s)
    PROVE  AccountsInvariant'
<1>1. /\ s \in Active /\ req[s].at = "announce" /\ zone' = zone /\ Finish(s)
      /\ UNCHANGED <<registry, repo, plc>>
      /\ NoFault \/ Fault(s)
  BY ActiveRequests DEF sequencer_identity
<1> SUFFICES ASSUME NEW q, q = req[s] PROVE AccountsInvariant'
  OBVIOUS
<1>2. q.kind \in {"rename", "admin_rename"}
  BY <1>1, RequestFacts DEF StageOk
<1>3. /\ q.did \in Dids /\ q.handle \in Handles /\ None \notin Handles
      /\ q.handle \in Names
  BY <1>1, <1>2, RequestFacts
<1>4. /\ q.at \notin Unregistered /\ ~Before(q)
  BY <1>1 DEF Unregistered, Before
<1>5. /\ announced' \in [Dids -> Names] /\ ctx' \in [Dids -> Names]
      /\ \A e \in Dids : e # q.did => announced'[e] = announced[e] /\ ctx'[e] = ctx[e]
      /\ (announced'[q.did] = q.handle /\ NoFault) \/ Fault(s)
      /\ ctx'[q.did] = IF q.kind = "rename" THEN q.handle ELSE ctx[q.did]
  BY <1>3, StoreTypes DEF sequencer_identity
<1>6. StoresStep(q.did, q.handle)
  BY <1>1, <1>3, <1>5, StoreTypes DEF StoresStep
<1>7. StepBy(s) /\ s \notin Active' /\ ZoneInv'
  BY <1>1, <1>6, FinishEnds, QuietEnd
<1>8. ctx[q.did] # None /\ repo[q.did] # None
  BY <1>1, <1>3, <1>4 DEF AccountsInvariant, BornInv
<1>9. BornInv'
  BY <1>1, <1>3, <1>5, <1>7, <1>8, StepBorn
<1>10. CASE Fault(s)
  BY <1>1, <1>7, <1>9, <1>10, FaultDone
<1>11. CASE NoFault /\ announced'[q.did] = q.handle
  <2>1. blurred' = blurred
    BY <1>11 DEF NoFault
  <2>2. ASSUME Clean(q)
        PROVE  /\ \A n \in q.names : n \notin blurred' => Settled(n)'
               /\ RestOk(q.did)'
    <3>1. AfterOk(q) /\ (q.did \notin blurred => ToldOk(q))
      BY <1>1, <1>4, <2>2, AfterFacts
    <3>2. registry[q.did] = q.handle
      BY <3>1 DEF AfterOk
    <3>3. ASSUME NEW n \in q.names, n \notin blurred' PROVE Settled(n)'
      <4>1. CASE n = q.handle
        <5>1. NewNameOk(q)
          BY <1>3, <2>1, <3>1, <3>3, <4>1 DEF AfterOk
        <5>2. Single(n, q.did)
          BY <1>1, <4>1, <5>1 DEF NewNameOk
        <5>3. Settled(n)
          BY <1>3, <3>2, <4>1, <5>2 DEF Settled
        <5> QED
          BY <1>1, <5>3, QuietNames
      <4>2. CASE n # q.handle
        <5>1. OldNameOk(q, n)
          BY <2>1, <3>1, <3>3, <4>2 DEF AfterOk
        <5>2. Settled(n)
          BY <1>1, <5>1 DEF OldNameOk, Settled
        <5> QED
          BY <1>1, <5>2, QuietNames
      <4> QED
        BY <4>1, <4>2
    <3>4. ctx'[q.did] = q.handle
      BY <1>1, <1>2, <1>5, <3>1 DEF AfterOk
    <3>5. q.did \in PlcDids \ blurred => plc[q.did] = q.handle
      BY <1>1, <1>2, <3>1 DEF ToldOk
    <3> QED
      BY <1>1, <1>11, <2>1, <3>2, <3>3, <3>4, <3>5 DEF RestOk, Aligned
  <2>3. LocalOk(q) /\ registry'[q.did] # None =>
          repo'[q.did] = registry'[q.did] /\ ctx'[q.did] = registry'[q.did]
    BY <1>1, <1>2, <1>5 DEF LocalOk
  <2> QED
    BY <1>7, <1>9, <2>2, <2>3, EndDone
<1> QED
  BY <1>5, <1>10, <1>11

LEMMA RegistryRemoveStep ==
    ASSUME Parameters, AccountsInvariant, NEW s \in Requests, registry_remove(s)
    PROVE  AccountsInvariant'
<1>1. /\ s \in Active /\ req[s].at = "remove" /\ zone' = zone /\ NoFault
      /\ UNCHANGED <<repo, ctx, plc, announced>> /\ blurred' = blurred
  BY ActiveRequests DEF registry_remove, NoFault
<1> SUFFICES ASSUME NEW q, q = req[s], NEW p, p = req'[s],
                    NEW a, a = IF q.kind = "delete" THEN "goodbye" ELSE "retract"
             PROVE  AccountsInvariant'
  OBVIOUS
<1>2. q.kind \in {"delete", "admin_delete"}
  BY <1>1, RequestFacts DEF StageOk
<1>3. /\ q.did \in Dids /\ q.handle = None /\ None \notin Handles /\ q.names \subseteq Handles
  BY <1>1, <1>2, RequestFacts
<1>4. Moved(s, a, q.old, q.rec)
  BY <1>1, GotoMoves DEF registry_remove, Goto
<1>5. /\ p.at = a /\ p.old = q.old /\ p.kind = q.kind /\ p.did = q.did
      /\ p.handle = q.handle /\ p.names = q.names
  BY <1>4 DEF Moved
<1>6. /\ registry' \in [Dids -> Names] /\ registry'[q.did] = None
      /\ \A e \in Dids : e # q.did => registry'[e] = registry[e]
  BY <1>3, StoreTypes DEF registry_remove, Names
<1>7. StoresStep(q.did, q.handle)
  BY <1>1, <1>3, <1>6, StoreTypes DEF StoresStep
<1>8. /\ StageOk(p) /\ p.at \notin Unregistered /\ q.at \notin Unregistered
      /\ p.at \notin Unwritten /\ Before(q) /\ ~Before(p)
  BY <1>1, <1>2, <1>5 DEF StageOk, Unregistered, Unwritten, Before
<1>9. StepBy(s) /\ s \in Active' /\ ZoneInv'
  BY <1>1, <1>2, <1>4, <1>5, <1>7, <1>8, QuietMove
<1>10. ctx[q.did] # None
  BY <1>1, <1>8 DEF AccountsInvariant, BornInv
<1>11. BornInv'
  BY <1>1, <1>2, <1>3, <1>5, <1>6, <1>8, <1>9, <1>10, StepBorn
<1>12. Clean(q) => Clean(p)'
  <2> SUFFICES ASSUME Clean(q), NEW m, m = registry[q.did], NEW d, d = q.did
               PROVE  Clean(p)'
    OBVIOUS
  <2>1. BeforeOk(q)
    BY <1>8 DEF Clean
  <2>2. /\ m # None
        /\ ctx[d] = m \/ {ctx[d], m} \subseteq blurred
        /\ \A n \in q.names \ blurred : Settled(n) /\ n = m
        /\ q.kind = "admin_delete" => q.old = m
    BY <1>3, <2>1 DEF BeforeOk, Aligned
  <2>3. \A e \in Dids : registry[e] = m => e = d
    BY <1>3, <2>2 DEF AccountsInvariant, RowsInv
  <2>4. Leaving(p)' = IF q.kind = "delete" THEN ctx[d] ELSE q.old
    BY <1>1, <1>2, <1>5 DEF Leaving
  <2>5. ASSUME NEW n \in q.names, n \notin blurred
        PROVE  n = Leaving(p)' /\ OldNameOk(p, n)'
    <3>1. n = m /\ Settled(n) /\ ctx[d] = m
      BY <2>2, <2>5
    <3>2. Owned(n)
      BY <1>3, <3>1 DEF Owned
    <3>3. Single(n, d)
      BY <2>3, <3>1, <3>2 DEF Settled
    <3>4. Single(n, d)'
      BY <1>1, <3>3 DEF Single, At
    <3>5. ~Owned(n)'
      BY <1>3, <1>6, <2>2, <2>3, <3>1 DEF Owned
    <3>6. p.at # "erase" /\ p.at # "announce"
      BY <1>5
    <3> QED
      BY <1>2, <1>5, <2>2, <2>4, <3>1, <3>4, <3>5, <3>6 DEF OldNameOk
  <2>6. AfterOk(p)'
    <3>1. \A n \in p.names \ blurred' : n \in {p.handle, Leaving(p)'}
      BY <1>1, <1>5, <2>5
    <3>2. \A n \in p.names \ (blurred' \cup {p.handle}) : OldNameOk(p, n)'
      BY <1>1, <1>5, <2>5
    <3> QED
      BY <1>2, <1>3, <1>5, <1>6, <3>1, <3>2 DEF AfterOk
  <2>7. ToldOk(p)'
    BY <1>2, <1>5, <1>6 DEF ToldOk
  <2>8. ~Before(p)'
    BY <1>8 DEF Before
  <2> QED
    BY <1>8, <2>6, <2>7, <2>8, AfterNext
<1>13. LocalOk(p)'
  BY <1>5, <1>6 DEF LocalOk
<1> QED
  BY <1>1, <1>9, <1>11, <1>12, <1>13, MoveDone

LEMMA AnnounceDeletionStep ==
    ASSUME Parameters, AccountsInvariant, NEW s \in Requests, AnnounceDeletion(s)
    PROVE  AccountsInvariant'
<1>1. /\ s \in Active /\ req[s].at = "goodbye" /\ zone' = zone /\ NoFault
      /\ UNCHANGED <<registry, repo, ctx, plc>> /\ blurred' = blurred
  BY ActiveRequests DEF AnnounceDeletion, NoFault
<1> SUFFICES ASSUME NEW q, q = req[s], NEW p, p = req'[s] PROVE AccountsInvariant'
  OBVIOUS
<1>2. q.kind \in {"delete", "admin_delete"}
  BY <1>1, RequestFacts DEF StageOk
<1>3. q.did \in Dids /\ q.handle = None /\ None \notin Handles
  BY <1>1, <1>2, RequestFacts
<1>4. /\ announced' \in [Dids -> Names] /\ announced'[q.did] = None
      /\ \A e \in Dids : e # q.did => announced'[e] = announced[e]
  BY <1>3, StoreTypes DEF AnnounceDeletion, Names
<1>5. StoresStep(q.did, q.handle)
  BY <1>1, <1>3, <1>4, StoreTypes DEF StoresStep
<1>6. CASE q.kind = "admin_delete"
  <2>1. Moved(s, "remove", q.old, q.rec)
    BY <1>1, <1>6, GotoMoves DEF AnnounceDeletion, Goto
  <2>2. /\ p.at = "remove" /\ p.old = q.old /\ p.kind = q.kind /\ p.did = q.did
        /\ p.handle = q.handle
    BY <2>1 DEF Moved
  <2>3. /\ StageOk(p) /\ Before(q) /\ Before(p)
        /\ "remove" \notin Unwritten
    BY <1>1, <1>6, <2>2 DEF StageOk, Before, Unwritten, Unregistered
  <2>4. ToldOk(q) => ToldOk(p)'
    BY <1>1, <1>6, <2>2 DEF ToldOk
  <2>5. LocalOk(q) => LocalOk(p)'
    BY <1>1, <1>6, <2>2 DEF LocalOk
  <2> QED
    BY <1>1, <1>5, <1>6, <2>1, <2>2, <2>3, <2>4, <2>5, BeforeMove
<1>7. CASE q.kind = "delete"
  <2>1. Moved(s, "retract", ctx[q.did], q.rec)
    BY <1>1, <1>7, GotoMoves DEF AnnounceDeletion
  <2>2. /\ p.at = "retract" /\ p.old = ctx[q.did] /\ p.kind = q.kind /\ p.did = q.did
        /\ p.handle = q.handle /\ p.names = q.names
    BY <2>1 DEF Moved
  <2>3. /\ StageOk(p) /\ ~Before(q) /\ ~Before(p)
        /\ p.at \notin Unwritten /\ p.at \notin Unregistered
        /\ q.at \notin Unregistered
    BY <1>1, <1>7, <2>2 DEF StageOk, Before, Unwritten, Unregistered
  <2>4. StepBy(s) /\ s \in Active' /\ ZoneInv'
    BY <1>1, <1>5, <1>7, <2>1, <2>2, <2>3, QuietMove
  <2>5. BornInv'
    <3>1. ctx[q.did] # None
      BY <1>1, <2>3 DEF AccountsInvariant, BornInv
    <3> QED
      BY <1>1, <1>7, <2>2, <2>3, <2>4, <3>1, StepBorn
  <2>6. Clean(q) => Clean(p)'
    <3> SUFFICES ASSUME Clean(q) PROVE Clean(p)'
      OBVIOUS
    <3>1. Leaving(p)' = ctx[q.did] /\ Leaving(q) = ctx[q.did]
      BY <1>1, <1>7, <2>2 DEF Leaving
    <3>2. \A n, d : At(n)' = At(n) /\ (Single(n, d)' <=> Single(n, d))
                      /\ (Owned(n)' <=> Owned(n))
      BY <1>1, QuietNames
    <3>3. \A n : OldNameOk(q, n) => OldNameOk(p, n)'
      BY <1>1, <2>2, <3>2 DEF OldNameOk
    <3>4. AfterOk(q) => ToldOk(p)'
      <4>1. AfterOk(q) => registry'[p.did] = None
        BY <1>1, <1>3, <2>2 DEF AfterOk
      <4> QED
        BY <1>7, <2>2, <4>1 DEF ToldOk
    <3> QED
      BY <1>1, <1>3, <1>7, <2>2, <2>3, <3>1, <3>3, <3>4, AfterClean
  <2>7. LocalOk(q) => LocalOk(p)'
    BY <1>1, <1>7, <2>2 DEF LocalOk
  <2> QED
    BY <1>1, <2>4, <2>5, <2>6, <2>7, MoveDone
<1> QED
  BY <1>2, <1>6, <1>7

\* The stages at which a request works on the zone.
Naming == {"publish", "write", "retract", "erase"}

LEMMA NamingFacts ==
    ASSUME Parameters, AccountsInvariant, NEW s \in Active, NEW q, q = req[s],
           q.at \in Naming
    PROVE  /\ q.at \notin Unregistered /\ ~Before(q) /\ ctx[q.did] # None
           /\ Leaving(q) = q.old /\ q.did \in Dids /\ q.names \subseteq Handles
           /\ q.at \in {"publish", "write"} => q.kind \in {"signup", "rename", "admin_rename"}
           /\ q.at \in {"retract", "erase"} =>
                q.kind \in {"rename", "admin_rename", "delete", "admin_delete"}
           /\ q.kind \in {"delete", "admin_delete"} => q.handle = None
           /\ q.kind \notin {"delete", "admin_delete"} => q.handle \in Handles
           /\ q.kind = "signup" => q.old = None
           /\ Clean(q) =>
                /\ AfterOk(q) /\ registry[q.did] = q.handle
                /\ q.kind \in {"signup", "admin_rename"} => ctx[q.did] = q.handle
                /\ \A n \in q.names \ blurred : n \in {q.handle, q.old}
                /\ q.handle \in Handles \ blurred => NewNameOk(q)
                /\ \A n \in q.names \ (blurred \cup {q.handle}) : OldNameOk(q, n)
                /\ q.did \notin blurred => ToldOk(q)
<1>1. q.at \notin Unregistered /\ ~Before(q)
  BY DEF Unregistered, Before, Naming
<1>2. /\ q.at \in {"publish", "write"} => q.kind \in {"signup", "rename", "admin_rename"}
      /\ q.at \in {"retract", "erase"} =>
           q.kind \in {"rename", "admin_rename", "delete", "admin_delete"}
  <2>1. StageOk(q)
    BY RequestFacts
  <2> QED
    BY <2>1 DEF StageOk
<1>3. Leaving(q) = q.old
  BY DEF Leaving, Naming
<1>4. /\ q.did \in Dids /\ q.names \subseteq Handles
      /\ q.kind \in {"delete", "admin_delete"} => q.handle = None
      /\ q.kind \notin {"delete", "admin_delete"} => q.handle \in Handles
      /\ q.kind = "signup" => q.old = None
  BY RequestFacts
<1>5. ctx[q.did] # None /\ (Clean(q) <=> AfterOk(q) /\ (q.did \notin blurred => ToldOk(q)))
  BY <1>1, AfterFacts
<1>6. q.at # "context"
  BY DEF Naming
<1> QED
  BY <1>1, <1>2, <1>3, <1>4, <1>5, <1>6 DEF AfterOk

\* A request goes on to another name, or to the announcement.
LEMMA NamingMove ==
    ASSUME Parameters, AccountsInvariant, NEW s \in Active, NEW q, q = req[s],
           q.at \in Naming, NEW a \in Naming \cup {"announce"}, NEW p, p = req'[s], NEW c,
           Moved(s, a, q.old, c), a = "announce" => q.kind \in {"rename", "admin_rename"},
           NoFault, UNCHANGED stores,
           a \in {"publish", "write"} => q.at \in {"publish", "write"},
           StepBy(s), s \in Active', ZoneInv',
           Clean(q) => /\ q.handle \in Handles \ blurred => NewNameOk(p)'
                       /\ \A n \in q.names \ (blurred \cup {q.handle}) :
                            n = q.old => OldNameOk(p, n)'
    PROVE  AccountsInvariant'
<1>1. /\ p.at = a /\ p.old = q.old /\ p.rec = c /\ p.kind = q.kind /\ p.did = q.did
      /\ p.handle = q.handle /\ p.names = q.names
  BY DEF Moved
<1>2. /\ registry' = registry /\ repo' = repo /\ ctx' = ctx /\ plc' = plc
      /\ announced' = announced /\ blurred' = blurred
  BY DEF stores, NoFault
<1>3. /\ q.at \notin Unregistered /\ ~Before(q) /\ ctx[q.did] # None
      /\ Leaving(q) = q.old /\ q.did \in Dids
  BY NamingFacts
<1>4. p.at \notin Unregistered /\ ~Before(p)
  BY <1>1 DEF Unregistered, Before, Naming
<1>5. BornInv'
  <2>1. p.at # "registry"
    BY <1>1 DEF Naming
  <2> QED
    BY <1>1, <1>2, <1>3, <1>4, <2>1, StepBorn
<1>6. Clean(q) => Clean(p)'
  <2> SUFFICES ASSUME Clean(q) PROVE Clean(p)'
    OBVIOUS
  <2>1. Leaving(p)' = q.old
    BY <1>1 DEF Leaving, Naming
  <2>2. /\ q.at # "context" /\ q.at # "plc" /\ q.at # "check" /\ q.at # "mint" /\ p.at # "context"
        /\ p.at # "plc"
    BY <1>1 DEF Naming
  <2>3. ~Before(p)'
    BY <1>4 DEF Before
  <2>4. ToldOk(q) => ToldOk(p)'
    <3>1. p.kind = "signup" /\ p.at \in {"publish", "write"} => q.at \in {"publish", "write"}
      BY <1>1
    <3> QED
      BY <1>1, <1>2, <1>3, <2>2, <2>3, <3>1 DEF ToldOk
  <2>5. ctx'[q.did] = q.handle \/ (ctx'[q.did] = ctx[q.did] /\ q.at # "context")
    BY <1>2, <2>2
  <2> QED
    BY <1>1, <1>2, <1>3, <1>4, <2>1, <2>4, <2>5, AfterClean
<1>7. LocalOk(q) => LocalOk(p)'
  <2>1. /\ q.at \notin {"plc", "repo", "registry", "context"}
        /\ p.at \notin {"plc", "repo", "registry", "context"}
    BY <1>1 DEF Naming
  <2> QED
    BY <1>1, <1>2, <2>1 DEF LocalOk
<1> QED
  BY <1>2, <1>5, <1>6, <1>7, MoveDone

\* A request ends with a name.
LEMMA NamingEnd ==
    ASSUME Parameters, AccountsInvariant, NEW s \in Active, NEW q, q = req[s],
           q.at \in Naming, q.kind \in {"signup", "delete", "admin_delete"},
           NoFault, UNCHANGED stores,
           StepBy(s), s \notin Active', ZoneInv',
           Clean(q) => /\ q.handle \in Handles \ blurred => Settled(q.handle)'
                       /\ \A n \in q.names \ (blurred \cup {q.handle}) :
                            n = q.old => Settled(n)'
    PROVE  AccountsInvariant'
<1>1. /\ registry' = registry /\ repo' = repo /\ ctx' = ctx /\ plc' = plc
      /\ announced' = announced /\ blurred' = blurred
  BY DEF stores, NoFault
<1>2. BornInv'
  BY <1>1, StepBorn
<1>3. ASSUME Clean(q)
      PROVE  /\ \A n \in q.names : n \notin blurred' => Settled(n)'
             /\ RestOk(q.did)'
  <2>1. /\ registry[q.did] = q.handle /\ \A n \in q.names \ blurred : n \in {q.handle, q.old}
        /\ q.kind = "signup" => ctx[q.did] = q.handle /\ q.at \in {"publish", "write"}
        /\ q.kind # "signup" => q.handle = None
        /\ q.did \notin blurred => ToldOk(q)
        /\ q.names \subseteq Handles
    BY <1>3, NamingFacts DEF Naming
  <2>2. \A n \in q.names : n \notin blurred' => Settled(n)'
    BY <1>1, <1>3, <2>1
  <2>3. q.kind = "signup" /\ q.did \notin blurred /\ q.handle \notin blurred \cup {None} =>
          (q.did \in PlcDids => plc[q.did] = q.handle) /\ announced[q.did] = q.handle
    BY <2>1 DEF ToldOk
  <2>4. RestOk(q.did)'
    BY <1>1, <2>1, <2>3 DEF RestOk, Aligned
  <2> QED
    BY <2>2, <2>4
<1>4. LocalOk(q) /\ registry'[q.did] # None =>
        repo'[q.did] = registry'[q.did] /\ ctx'[q.did] = registry'[q.did]
  BY <1>1 DEF LocalOk
<1> QED
  BY <1>2, <1>3, <1>4, EndDone

\* What a lookup finds.
LEMMA LookupFacts ==
    ASSUME Parameters, AccountsInvariant, NEW n, NEW id \in lookup(n)
    PROVE  /\ id = None <=> At(n) = {}
           /\ id # None => \E z \in zone : id = z.id
           /\ \A z \in zone : z.id = id => z \in At(n) /\ z.name = n
           /\ \A z \in zone : z.id = id => DidOf(id) = z.did
<1>1. /\ \A z \in zone : z.id \in Ids
      /\ \A y, z \in zone : y.id = z.id => y = z
  BY DEF AccountsInvariant, NameInv, ZoneInv
<1>2. None \notin Ids
  BY DEF Parameters, Ids
<1>3. At(n) = {} => id = None
  BY DEF lookup
<1>4. At(n) # {} => \E z \in zone : z \in At(n) /\ id = z.id
  BY DEF lookup, RRset, RecordId, At
<1>5. \A z \in At(n) : z \in zone /\ z.name = n
  BY DEF At
<1>6. ASSUME NEW z \in zone, z.id = id PROVE DidOf(id) = z.did
  <2>1. (CHOOSE y \in zone : y.id = id) = z
    BY <1>1, <1>6
  <2> QED
    BY <2>1 DEF DidOf
<1> QED
  BY <1>1, <1>2, <1>3, <1>4, <1>5, <1>6

LEMMA DnsPublishStep ==
    ASSUME Parameters, AccountsInvariant, NEW s \in Requests, handle_dns_publish(s)
    PROVE  AccountsInvariant'
<1>1. /\ s \in Active /\ req[s].at = "publish" /\ zone' = zone /\ NoFault
      /\ UNCHANGED stores
  BY ActiveRequests DEF handle_dns_publish
<1> SUFFICES ASSUME NEW q, q = req[s], NEW p, p = req'[s], NEW h, h = q.handle, NEW d, d = q.did
             PROVE  AccountsInvariant'
  OBVIOUS
<1>2. PICK id \in lookup(h) :
        IF id # None /\ DidOf(id) = d THEN Proceed(s, AfterPublish(s))
        ELSE req' = [req EXCEPT ![s].at = "write", ![s].rec = id]
  BY DEF handle_dns_publish
<1>3. /\ q.at \in Naming /\ q.kind \in {"signup", "rename", "admin_rename"}
      /\ h \in Handles /\ None \notin Handles /\ q.names \subseteq Handles
      /\ q.kind = "signup" => q.old = None
  BY <1>1, NamingFacts, RequestFacts DEF Naming
<1>4. StoresStep(q.did, q.handle)
  BY <1>1, StoresSame
<1>5. /\ id = None <=> At(h) = {}
      /\ id # None => \E z \in zone : id = z.id
      /\ \A z \in zone : z.id = id => z \in At(h) /\ z.name = h /\ DidOf(id) = z.did
  BY LookupFacts
<1>6. Clean(q) => /\ h \notin blurred => IF q.old = h THEN q.kind = "admin_rename"
                                                              /\ Single(h, d)
                                         ELSE At(h) = {}
                  /\ \A n \in q.names \ (blurred \cup {h}) : OldNameOk(q, n)
  <2> SUFFICES ASSUME Clean(q)
               PROVE  /\ h \notin blurred => IF q.old = h THEN q.kind = "admin_rename"
                                                            /\ Single(h, d)
                                             ELSE At(h) = {}
                      /\ \A n \in q.names \ (blurred \cup {h}) : OldNameOk(q, n)
    OBVIOUS
  <2>1. /\ h \notin blurred => NewNameOk(q)
        /\ \A n \in q.names \ (blurred \cup {h}) : OldNameOk(q, n)
        /\ Leaving(q) = q.old
    BY <1>1, <1>3, NamingFacts
  <2> QED
    BY <1>1, <2>1 DEF NewNameOk
<1>7. \A n, e : At(n)' = At(n) /\ (Single(n, e)' <=> Single(n, e))
                  /\ (Owned(n)' <=> Owned(n))
  BY <1>1, QuietNames DEF stores
<1>8. CASE id # None /\ DidOf(id) = d
  <2>1. Proceed(s, AfterPublish(s))
    BY <1>2, <1>8
  <2>2. Clean(q) /\ h \notin blurred =>
          q.old = h /\ q.kind = "admin_rename" /\ Single(h, d)
    BY <1>5, <1>6, <1>8
  <2>3. CASE q.kind = "signup"
    <3>1. Finish(s)
      BY <2>1, <2>3 DEF Proceed, AfterPublish
    <3>2. StepBy(s) /\ s \notin Active' /\ ZoneInv'
      BY <1>1, <1>4, <3>1, FinishEnds, QuietEnd
    <3> QED
      BY <1>1, <1>3, <2>2, <2>3, <3>2, NamingEnd
  <2>4. CASE q.kind = "admin_rename" /\ q.old \in {None, h}
    <3>1. Moved(s, "announce", q.old, q.rec)
      BY <1>1, <2>1, <2>4, GotoMoves DEF Proceed, AfterPublish, Goto
    <3>2. /\ p.at = "announce" /\ p.kind = q.kind /\ p.did = d /\ p.handle = h
      BY <3>1 DEF Moved
    <3>3. StageOk(p) /\ q.at \in Unwritten /\ "announce" \notin Unregistered
      BY <1>1, <2>4, <3>2 DEF StageOk, Unwritten, Unregistered
    <3>4. StepBy(s) /\ s \in Active' /\ ZoneInv'
      BY <1>1, <1>4, <3>1, <3>3, QuietMove
    <3>5. Clean(q) /\ h \notin blurred => NewNameOk(p)'
      BY <1>7, <2>2, <3>2 DEF NewNameOk
    <3> QED
      BY <1>1, <1>3, <2>4, <3>1, <3>4, <3>5, NamingMove
  <2>5. CASE q.kind # "signup" /\ ~(q.kind = "admin_rename" /\ q.old \in {None, h})
    <3>1. Moved(s, "retract", q.old, q.rec)
      BY <1>1, <2>1, <2>5, GotoMoves DEF Proceed, AfterPublish, Goto
    <3>2. /\ p.at = "retract" /\ p.kind = q.kind /\ p.did = d /\ p.handle = h
      BY <3>1 DEF Moved
    <3>3. StageOk(p) /\ q.at \in Unwritten /\ "retract" \notin Unregistered
      BY <1>1, <1>3, <2>5, <3>2 DEF StageOk, Unwritten, Unregistered
    <3>4. StepBy(s) /\ s \in Active' /\ ZoneInv'
      BY <1>1, <1>4, <3>1, <3>3, QuietMove
    <3>5. \A n : OldNameOk(q, n) => OldNameOk(p, n)'
      BY <1>1, <1>7, <3>2 DEF OldNameOk
    <3> QED
      BY <1>1, <1>3, <1>6, <2>2, <2>5, <3>1, <3>4, <3>5, NamingMove DEF Naming
  <2> QED
    BY <1>3, <2>3, <2>4, <2>5
<1>9. CASE ~(id # None /\ DidOf(id) = d)
  <2>1. Moved(s, "write", q.old, id)
    BY <1>1, <1>2, <1>9, GotoMoves
  <2>2. /\ p.at = "write" /\ p.kind = q.kind /\ p.did = d /\ p.handle = h /\ p.rec = id
        /\ p.old = q.old
    BY <2>1 DEF Moved
  <2>3. StageOk(p) /\ q.at \in Unwritten /\ "write" \notin Unregistered
    BY <1>1, <1>3, <2>2 DEF StageOk, Unwritten, Unregistered
  <2>4. StepBy(s) /\ s \in Active' /\ ZoneInv'
    BY <1>1, <1>4, <1>5, <2>1, <2>3, QuietMove
  <2>5. Clean(q) /\ h \notin blurred => At(h) = {} /\ q.old # h /\ id = None
    <3>1. ASSUME Single(h, d) PROVE id # None /\ DidOf(id) = d
      BY <1>5, <3>1 DEF Single, At
    <3> QED
      BY <1>5, <1>6, <1>9, <3>1
  <2>6. Clean(q) /\ h \notin blurred => NewNameOk(p)'
    BY <1>7, <2>2, <2>5 DEF NewNameOk
  <2>7. \A n : OldNameOk(q, n) => OldNameOk(p, n)'
    BY <1>1, <1>7, <2>2 DEF OldNameOk
  <2> QED
    BY <1>1, <1>3, <1>6, <2>1, <2>4, <2>6, <2>7, NamingMove DEF Naming
<1> QED
  BY <1>8, <1>9

LEMMA DnsRetractStep ==
    ASSUME Parameters, AccountsInvariant, NEW s \in Requests, handle_dns_retract(s)
    PROVE  AccountsInvariant'
<1>1. /\ s \in Active /\ req[s].at = "retract" /\ zone' = zone /\ NoFault
      /\ UNCHANGED stores
  BY ActiveRequests DEF handle_dns_retract
<1> SUFFICES ASSUME NEW q, q = req[s], NEW p, p = req'[s], NEW l, l = q.old, NEW d, d = q.did
             PROVE  AccountsInvariant'
  OBVIOUS
<1>2. PICK id \in lookup(l) :
        IF id = None THEN Proceed(s, AfterRetract(s))
        ELSE req' = [req EXCEPT ![s].at = "erase", ![s].rec = id]
  BY DEF handle_dns_retract
<1>3. /\ q.at \in Naming /\ q.kind \in {"rename", "admin_rename", "delete", "admin_delete"}
      /\ q.names \subseteq Handles /\ None \notin Handles
      /\ q.kind \in {"delete", "admin_delete"} => q.handle = None
  BY <1>1, NamingFacts, RequestFacts DEF Naming
<1>4. StoresStep(q.did, q.handle)
  BY <1>1, StoresSame
<1>5. /\ id = None <=> At(l) = {}
      /\ id # None => \E z \in zone : id = z.id
      /\ \A z \in zone : z.id = id => z.name = l
  BY LookupFacts
<1>6. Clean(q) => /\ q.handle \in Handles \ blurred => NewNameOk(q)
                  /\ \A n \in q.names \ (blurred \cup {q.handle}) : OldNameOk(q, n)
  BY <1>1, <1>3, NamingFacts
<1>7. \A n, e : At(n)' = At(n) /\ (Single(n, e)' <=> Single(n, e))
                  /\ (Owned(n)' <=> Owned(n))
  BY <1>1, QuietNames DEF stores
<1>8. CASE id = None
  <2>1. Proceed(s, AfterRetract(s))
    BY <1>2, <1>8
  <2>2. Clean(q) => \A n \in q.names \ (blurred \cup {q.handle}) : n # l
    <3>1. ~Single(l, d)
      BY <1>5, <1>8 DEF Single
    <3> QED
      BY <1>1, <1>6, <3>1 DEF OldNameOk
  <2>3. CASE q.kind \in {"rename", "admin_rename"}
    <3>1. Moved(s, "announce", q.old, q.rec)
      BY <1>1, <2>1, <2>3, GotoMoves DEF Proceed, AfterRetract, Goto
    <3>2. /\ p.at = "announce" /\ p.kind = q.kind /\ p.did = d /\ p.handle = q.handle
      BY <3>1 DEF Moved
    <3>3. StageOk(p) /\ "announce" \notin Unwritten
      BY <1>1, <2>3, <3>2 DEF StageOk, Unwritten, Unregistered
    <3>4. "announce" \notin Unregistered
      BY DEF Unregistered
    <3>5. StepBy(s) /\ s \in Active' /\ ZoneInv'
      BY <1>1, <1>4, <3>1, <3>3, <3>4, QuietMove
    <3>6. NewNameOk(q) => NewNameOk(p)'
      BY <1>1, <1>7, <3>2 DEF NewNameOk
    <3> QED
      BY <1>1, <1>3, <1>6, <2>2, <2>3, <3>1, <3>5, <3>6, NamingMove
  <2>4. CASE q.kind \in {"delete", "admin_delete"}
    <3>1. Finish(s)
      BY <2>1, <2>4 DEF Proceed, AfterRetract
    <3>2. StepBy(s) /\ s \notin Active' /\ ZoneInv'
      BY <1>1, <1>4, <3>1, FinishEnds, QuietEnd
    <3> QED
      BY <1>1, <1>3, <2>2, <2>4, <3>2, NamingEnd
  <2> QED
    BY <1>3, <2>3, <2>4
<1>9. CASE id # None
  <2>1. Moved(s, "erase", q.old, id)
    BY <1>1, <1>2, <1>9, GotoMoves
  <2>2. /\ p.at = "erase" /\ p.kind = q.kind /\ p.did = d /\ p.handle = q.handle /\ p.rec = id
        /\ p.old = q.old
    BY <2>1 DEF Moved
  <2>3. StageOk(p) /\ "erase" \notin Unwritten /\ "erase" \notin Unregistered
    BY <1>1, <1>3, <2>2 DEF StageOk, Unwritten, Unregistered
  <2>4. StepBy(s) /\ s \in Active' /\ ZoneInv'
    BY <1>1, <1>4, <1>5, <1>9, <2>1, <2>3, QuietMove
  <2>5. NewNameOk(q) => NewNameOk(p)'
    BY <1>1, <1>7, <2>2 DEF NewNameOk
  <2>6. ASSUME NEW n, n = l, OldNameOk(q, n) PROVE OldNameOk(p, n)'
    <3>1. Single(l, d) /\ ~Owned(l)
      BY <1>1, <2>6 DEF OldNameOk
    <3>2. \A z \in At(l) : z.id = id
      BY <3>1 DEF Single, lookup, RRset, RecordId
    <3> QED
      BY <1>7, <2>2, <2>6, <3>1, <3>2 DEF OldNameOk
  <2> QED
    BY <1>1, <1>3, <1>6, <2>1, <2>4, <2>5, <2>6, NamingMove DEF Naming
<1> QED
  BY <1>8, <1>9

LEMMA DnsFailsStep ==
    ASSUME Parameters, AccountsInvariant, NEW s \in Requests, DnsFails(s)
    PROVE  AccountsInvariant'
<1>1. /\ s \in Active /\ req[s].at \in Naming /\ zone' = zone /\ Fault(s)
      /\ UNCHANGED stores
  BY ActiveRequests DEF DnsFails, Naming
<1> SUFFICES ASSUME NEW q, q = req[s], NEW p, p = req'[s] PROVE AccountsInvariant'
  OBVIOUS
<1>2. /\ ctx[q.did] # None /\ q.at \notin Unregistered
      /\ q.at \in {"publish", "write"} => q.kind \in {"signup", "rename", "admin_rename"}
      /\ q.at \in {"retract", "erase"} =>
           q.kind \in {"rename", "admin_rename", "delete", "admin_delete"}
  BY <1>1, NamingFacts
<1>3. StoresStep(q.did, q.handle)
  BY <1>1, StoresSame
<1>4. PICK a \in {"idle", "retract", "announce"} :
        /\ Proceed(s, a)
        /\ a = "retract" => q.kind \in {"rename", "admin_rename"}
        /\ a = "announce" => q.kind \in {"rename", "admin_rename"}
  BY <1>1, <1>2 DEF DnsFails, AfterPublish, AfterRetract, Naming
<1>5. StepBy(s) /\ ZoneInv' /\ BornInv'
  <2>1. CASE a = "idle"
    <3>1. StepBy(s) /\ s \notin Active' /\ ZoneInv'
      BY <1>1, <1>3, <1>4, <2>1, FinishEnds, QuietEnd DEF Proceed
    <3> QED
      BY <1>1, <3>1, StoresSame, StepBorn
  <2>2. CASE a # "idle"
    <3>1. Moved(s, a, q.old, q.rec)
      BY <1>1, <1>4, <2>2, GotoMoves DEF Proceed, Goto
    <3>2. /\ p.at = a /\ p.kind = q.kind
      BY <3>1 DEF Moved
    <3>3. /\ StageOk(p) /\ a \notin Unwritten /\ a \notin Unregistered
          /\ a # "erase" /\ a # "write"
      BY <1>4, <2>2, <3>2 DEF StageOk, Unwritten, Unregistered
    <3>4. StepBy(s) /\ s \in Active' /\ ZoneInv'
      BY <1>1, <1>3, <3>1, <3>3, QuietMove
    <3>5. p.at # "registry"
      BY <2>2, <3>2
    <3> QED
      BY <1>1, <1>2, <3>2, <3>3, <3>4, <3>5, StoresSame, StepBorn
  <2> QED
    BY <2>1, <2>2
<1> QED
  BY <1>1, <1>5, FaultDone

\* A record in the place of those at the name, or of the one that was found there.
Rewrites(S, w, q) ==
    /\ zone' = (zone \ S) \cup {w} /\ S \subseteq zone /\ \A z \in S : z.name = q.handle
    /\ RecordShape(w) /\ w.name = q.handle /\ w.did = q.did
    /\ w.id = NewId(q) \/ \E y \in S : y.id = w.id

LEMMA PublishedRewrites ==
    ASSUME Parameters, AccountsInvariant, NEW s \in Active, NEW q, q = req[s],
           q.at = "write", zone' = Published(s)
    PROVE  /\ zone' = zone \/ \E S, w : Rewrites(S, w, q)
           /\ At(q.handle) = {} /\ q.rec = None => Single(q.handle, q.did)'
<1> SUFFICES ASSUME NEW new,
                    new = [id |-> <<q.call, q.did>>, name |-> q.handle, did |-> q.did]
             PROVE  /\ zone' = zone \/ \E S, w : Rewrites(S, w, q)
                    /\ At(q.handle) = {} /\ q.rec = None => Single(q.handle, q.did)'
  OBVIOUS
<1>1. /\ new.id = NewId(q) /\ new.name = q.handle /\ new.did = q.did
      /\ RecordShape(new)
  BY DEF NewId, RecordShape
<1>2. zone' = IF provider = "rrset" THEN ReplaceRRset(new)
              ELSE WriteRecord(q.rec, new)
  BY DEF Published
<1>3. /\ \A z \in zone : RecordShape(z)
      /\ \A y, z \in zone : y.id = z.id => y = z
      /\ \A z \in zone : z.id = q.rec => z.name = q.handle
  BY DEF AccountsInvariant, NameInv, ZoneInv
<1>4. CASE provider = "rrset"
  <2>1. zone' = (zone \ At(q.handle)) \cup {new}
    BY <1>1, <1>2, <1>4 DEF ReplaceRRset
  <2>2. Rewrites(At(q.handle), new, q)
    BY <1>1, <2>1 DEF Rewrites, At
  <2>3. Single(q.handle, q.did)'
    BY <1>1, <2>1 DEF Single, At
  <2> QED
    BY <2>2, <2>3
<1>5. CASE provider # "rrset" /\ q.rec = None
  <2>1. zone' = zone \cup {new}
    BY <1>2, <1>5 DEF WriteRecord
  <2>2. Rewrites({}, new, q)
    BY <1>1, <2>1 DEF Rewrites
  <2>3. At(q.handle) = {} => Single(q.handle, q.did)'
    BY <1>1, <2>1 DEF Single, At
  <2> QED
    BY <2>2, <2>3
<1>6. CASE provider # "rrset" /\ q.rec # None
  <2> SUFFICES ASSUME NEW found, found = {z \in zone : z.id = q.rec}
               PROVE  zone' = zone \/ \E S, w : Rewrites(S, w, q)
    BY <1>6
  <2>1. zone' = (zone \ found) \cup {[z EXCEPT !.did = q.did] : z \in found}
    BY <1>1, <1>2, <1>6 DEF WriteRecord
  <2>2. CASE found = {}
    BY <2>1, <2>2
  <2>3. CASE found # {}
    <3>1. PICK y : found = {y} /\ y \in zone /\ y.id = q.rec
      BY <1>3, <2>3
    <3> SUFFICES ASSUME NEW w, w = [y EXCEPT !.did = q.did]
                 PROVE  \E S, v : Rewrites(S, v, q)
      OBVIOUS
    <3>2. zone' = (zone \ {y}) \cup {w}
      BY <2>1, <3>1
    <3>3. y \in [id : {y.id}, name : {y.name}, did : {y.did}]
      BY <1>3, <3>1 DEF RecordShape
    <3>4. w \in [id : {y.id}, name : {y.name}, did : {q.did}]
      BY <3>3
    <3>5. w.id = y.id /\ w.name = y.name /\ w.did = q.did
      BY <3>4
    <3>6. RecordShape(w)
      BY <3>4, <3>5 DEF RecordShape
    <3>7. Rewrites({y}, w, q)
      BY <1>3, <3>1, <3>2, <3>5, <3>6 DEF Rewrites
    <3> QED
      BY <3>7
  <2> QED
    BY <2>2, <2>3
<1> QED
  BY <1>4, <1>5, <1>6

LEMMA ZoneRewritten ==
    ASSUME Parameters, AccountsInvariant, NEW s, StepBy(s), NEW q, q = req[s],
           q.at = "write", NEW S, NEW w, Rewrites(S, w, q),
           s \in Active' =>
             req'[s].at \notin Unwritten \cup {"erase"} /\ req'[s].rec = q.rec
    PROVE  ZoneInv'
<1>1. /\ \A r \in Requests : r # s => req'[r] = req[r]
      /\ calls' = calls /\ s \in Active
  BY DEF StepBy
<1>2. ZoneInv
  BY DEF AccountsInvariant, NameInv
<1>3. /\ zone' = (zone \ S) \cup {w} /\ S \subseteq zone /\ \A z \in S : z.name = q.handle
      /\ RecordShape(w) /\ w.name = q.handle /\ w.did = q.did
      /\ w.id = NewId(q) \/ \E y \in S : y.id = w.id
  BY DEF Rewrites
<1>4. "write" \in Unwritten
  BY DEF Unwritten
<1>5. /\ \A z \in zone : z.id # NewId(q)
      /\ \A t \in Active : req[t].rec # NewId(q)
  BY <1>1, <1>2, <1>4 DEF ZoneInv
<1>6. NewId(q) \in Ids /\ NewId(q)[1] <= calls /\ q.did \in Dids
  BY <1>1, RequestFacts DEF NewId, Ids
<1>7. ASSUME NEW r \in Active'
      PROVE  /\ r \in Active /\ req'[r].call = req[r].call /\ req'[r].did = req[r].did
             /\ req'[r].rec = req[r].rec
             /\ r = s => req'[r].at \notin Unwritten \cup {"erase"}
             /\ r # s => req'[r] = req[r]
  <2>1. r \in Active /\ r \in Requests
    BY StillActive, ActiveRequests
  <2>2. CASE r = s
    BY <1>7, <2>1, <2>2, StillActive DEF Follows
  <2>3. CASE r # s
    BY <1>1, <2>1, <2>3
  <2> QED
    BY <2>2, <2>3
<1>8. /\ \A z \in zone' : RecordShape(z)
      /\ \A z \in zone' : z.id \in Ids /\ z.id[1] <= calls' /\ z.did \in Dids
      /\ \A y, z \in zone' : y.id = z.id => y = z
  <2>1. w.id \in Ids /\ w.id[1] <= calls
    BY <1>2, <1>3, <1>6 DEF ZoneInv
  <2>2. \A z \in zone \ S : z.id # w.id
    BY <1>2, <1>3, <1>5 DEF ZoneInv
  <2> QED
    BY <1>1, <1>2, <1>3, <1>6, <2>1, <2>2 DEF ZoneInv
<1>9. \A r, t \in Active' : r # t => req'[r].call # req'[t].call
  BY <1>2, <1>7 DEF ZoneInv
<1>10. ASSUME NEW r \in Active', req'[r].at \in Unwritten
       PROVE  /\ \A z \in zone' : z.id # NewId(req[r])'
              /\ \A t \in Active' : req'[t].rec # NewId(req[r])'
  <2>1. /\ r \in Active /\ r # s /\ req[r].at \in Unwritten
        /\ NewId(req[r])' = NewId(req[r])
    BY <1>7, <1>10 DEF NewId
  <2>2. /\ \A z \in zone : z.id # NewId(req[r])
        /\ \A t \in Active : req[t].rec # NewId(req[r])
    BY <1>2, <2>1 DEF ZoneInv
  <2>3. NewId(q) # NewId(req[r])
    <3>1. req[r].call # q.call
      BY <1>1, <1>2, <2>1 DEF ZoneInv
    <3> QED
      BY <3>1 DEF NewId
  <2>4. w.id # NewId(req[r])
    BY <1>3, <2>2, <2>3
  <2> QED
    BY <1>3, <1>7, <2>1, <2>2, <2>4
<1>11. ASSUME NEW r \in Active', NEW z \in zone', z.id = req'[r].rec
       PROVE  /\ req'[r].at = "write" => z.name = req'[r].handle
              /\ req'[r].at = "erase" => z.name = req'[r].old
  <2>1. CASE r = s
    BY <1>4, <1>7, <1>11, <2>1
  <2>2. CASE r # s
    <3>1. PICK x \in zone : x.id = z.id /\ x.name = z.name
      BY <1>3, <1>5, <1>7, <1>11
    <3> QED
      BY <1>2, <1>7, <1>11, <2>2, <3>1 DEF ZoneInv
  <2> QED
    BY <2>1, <2>2
<1> QED
  BY <1>8, <1>9, <1>10, <1>11 DEF ZoneInv, RecordShape

\* Records are taken out of the zone.
LEMMA ZoneErased ==
    ASSUME Parameters, AccountsInvariant, NEW s, StepBy(s), NEW q, q = req[s],
           zone' \subseteq zone,
           s \in Active' => req'[s].at = "announce" /\ req'[s].rec = q.rec
    PROVE  ZoneInv'
<1>1. /\ \A r \in Requests : r # s => req'[r] = req[r]
      /\ calls' = calls /\ s \in Active
  BY DEF StepBy
<1>2. ZoneInv
  BY DEF AccountsInvariant, NameInv
<1>3. "announce" \notin Unwritten
  BY DEF Unwritten, Unregistered
<1>4. ASSUME NEW r \in Active'
      PROVE  /\ r \in Active /\ req'[r].call = req[r].call /\ req'[r].did = req[r].did
             /\ req'[r].rec = req[r].rec
             /\ r = s => req'[r].at = "announce"
             /\ r # s => req'[r] = req[r]
  <2>1. r \in Active /\ r \in Requests
    BY StillActive, ActiveRequests
  <2>2. CASE r = s
    BY <1>4, <2>1, <2>2, StillActive DEF Follows
  <2>3. CASE r # s
    BY <1>1, <2>1, <2>3
  <2> QED
    BY <2>2, <2>3
<1>5. /\ \A z \in zone' : RecordShape(z)
      /\ \A z \in zone' : z.id \in Ids /\ z.id[1] <= calls' /\ z.did \in Dids
      /\ \A y, z \in zone' : y.id = z.id => y = z
  BY <1>1, <1>2 DEF ZoneInv
<1>6. \A r, t \in Active' : r # t => req'[r].call # req'[t].call
  BY <1>2, <1>4 DEF ZoneInv
<1>7. ASSUME NEW r \in Active', req'[r].at \in Unwritten
      PROVE  /\ \A z \in zone' : z.id # NewId(req[r])'
             /\ \A t \in Active' : req'[t].rec # NewId(req[r])'
  <2>1. /\ r \in Active /\ req[r].at \in Unwritten
        /\ NewId(req[r])' = NewId(req[r])
    BY <1>3, <1>4, <1>7 DEF NewId
  <2> QED
    BY <1>2, <1>4, <2>1 DEF ZoneInv
<1>8. ASSUME NEW r \in Active', NEW z \in zone', z.id = req'[r].rec
      PROVE  /\ req'[r].at = "write" => z.name = req'[r].handle
             /\ req'[r].at = "erase" => z.name = req'[r].old
  BY <1>2, <1>4, <1>8 DEF ZoneInv
<1> QED
  BY <1>5, <1>6, <1>7, <1>8 DEF ZoneInv, RecordShape

\* A request writes the zone at one name.
LEMMA WriteShape ==
    ASSUME Parameters, AccountsInvariant, NEW s \in Active, NEW q, q = req[s],
           NoFault, UNCHANGED stores,
           Ended(s) \/ (Follows(req'[s], req[s]) /\ DOMAIN req' = Requests
                          /\ \A r \in Requests : r # s => req'[r] = req[r]),
           NEW h \in q.names \cup blurred \cup {None},
           \A n : n # h => At(n)' = At(n)
    PROVE  StepBy(s)
<1>1. /\ blurred \subseteq blurred' /\ calls' = calls /\ provider' = provider
      /\ invites' = invites /\ admitted' = admitted
  BY DEF NoFault
<1>2. \A n \in Handles : n \notin q.names \cup blurred => At(n)' = At(n)
  BY RequestFacts
<1>3. StoresStep(req[s].did, req[s].handle)
  BY StoresSame
<1> QED
  BY <1>1, <1>2, <1>3, StoreTypes DEF StepBy, Ended

LEMMA PublishWriteStep ==
    ASSUME Parameters, AccountsInvariant, NEW s \in Requests, PublishWrite(s)
    PROVE  AccountsInvariant'
<1>1. /\ s \in Active /\ req[s].at = "write" /\ NoFault /\ UNCHANGED stores
      /\ zone' = Published(s) /\ Proceed(s, AfterPublish(s))
  BY ActiveRequests DEF PublishWrite
<1> SUFFICES ASSUME NEW q, q = req[s], NEW p, p = req'[s], NEW h, h = q.handle, NEW d, d = q.did
             PROVE  AccountsInvariant'
  OBVIOUS
<1>2. /\ q.at \in Naming /\ q.kind \in {"signup", "rename", "admin_rename"}
      /\ h \in Handles /\ None \notin Handles /\ q.names \subseteq Handles /\ h \in q.names
      /\ q.kind = "signup" => q.old = None
      /\ d \in Dids
  BY <1>1, NamingFacts, RequestFacts DEF Naming
<1>3. /\ zone' = zone \/ \E S, w : Rewrites(S, w, q)
      /\ At(h) = {} /\ q.rec = None => Single(h, d)'
  BY <1>1, PublishedRewrites
<1>4. \A n : n # h => At(n)' = At(n)
  BY <1>3 DEF Rewrites, At
<1>5. \A n, e : /\ n # h => (Single(n, e)' <=> Single(n, e))
                /\ Owned(n)' <=> Owned(n)
  BY <1>1, <1>4 DEF Single, Owned, stores
<1>6. Clean(q) => /\ registry[d] = h
                  /\ h \notin blurred => Single(h, d)' /\ q.old # h
                  /\ \A n \in q.names \ (blurred \cup {h}) : OldNameOk(q, n)
  <2>1. Clean(q) => /\ registry[d] = h
                    /\ h \notin blurred => NewNameOk(q)
                    /\ \A n \in q.names \ (blurred \cup {h}) : OldNameOk(q, n)
    BY <1>1, <1>2, NamingFacts
  <2>2. NewNameOk(q) => At(h) = {} /\ q.rec = None /\ q.old # h
    BY <1>1 DEF NewNameOk
  <2> QED
    BY <1>3, <2>1, <2>2
<1>7. ASSUME StepBy(s),
             s \in Active' => /\ req'[s].at \in {"announce", "retract"}
                              /\ req'[s].rec = q.rec
      PROVE  ZoneInv'
  <2>1. s \in Active' => req'[s].at \notin Unwritten \cup {"erase"}
    BY <1>7 DEF Unwritten, Unregistered
  <2>2. CASE zone' = zone
    BY <1>7, <2>1, <2>2, ZoneUnwritten
  <2>3. CASE \E S, w : Rewrites(S, w, q)
    BY <1>1, <1>7, <2>1, <2>3, ZoneRewritten
  <2> QED
    BY <1>3, <2>2, <2>3
<1>8. CASE q.kind = "signup"
  <2>1. Ended(s)
    BY <1>1, <1>8, FinishEnds DEF Proceed, AfterPublish
  <2>2. StepBy(s)
    BY <1>1, <1>2, <1>4, <2>1, WriteShape
  <2>3. s \notin Active'
    BY <2>1, IdleIsIdle, ActiveRequests DEF Ended
  <2>4. ZoneInv'
    BY <1>7, <2>2, <2>3
  <2>5. Clean(q) /\ h \notin blurred => Settled(h)'
    BY <1>1, <1>2, <1>6 DEF Settled, stores
  <2> QED
    BY <1>1, <1>2, <1>8, <2>2, <2>3, <2>4, <2>5, NamingEnd
<1>9. ASSUME q.kind # "signup", NEW a \in {"announce", "retract"}, Proceed(s, a),
             a = "announce" => q.old \in {None, h}
      PROVE  AccountsInvariant'
  <2>1. Moved(s, a, q.old, q.rec)
    BY <1>1, <1>9, GotoMoves DEF Proceed, Goto
  <2>2. /\ p.at = a /\ p.kind = q.kind /\ p.did = d /\ p.handle = h /\ p.rec = q.rec
        /\ p.old = q.old
    BY <2>1 DEF Moved
  <2>3. StageOk(p) /\ a \notin Unwritten /\ a \notin Unregistered
    BY <1>1, <1>2, <1>9, <2>2 DEF StageOk, Unwritten, Unregistered
  <2>4. Follows(req'[s], req[s])
    BY <2>1, <2>3, MovedFollows
  <2>5. StepBy(s)
    BY <1>1, <1>2, <1>4, <2>1, <2>4, WriteShape DEF Moved
  <2>6. s \in Active'
    BY <2>4, <2>5, StillActive
  <2>7. ZoneInv'
    BY <1>7, <1>9, <2>2, <2>5
  <2>8. Clean(q) /\ h \notin blurred => NewNameOk(p)'
    BY <1>6, <1>9, <2>2 DEF NewNameOk
  <2>9. ASSUME Clean(q), NEW n \in q.names \ (blurred \cup {h}), n = q.old
        PROVE  OldNameOk(p, n)'
    <3>1. OldNameOk(q, n) /\ a = "retract"
      BY <1>2, <1>6, <1>9, <2>9
    <3> QED
      BY <1>1, <1>5, <2>2, <2>9, <3>1 DEF OldNameOk
  <2>10. a \in Naming \cup {"announce"} /\ a \notin {"publish", "write"}
    BY DEF Naming
  <2> QED
    BY <1>1, <1>2, <1>9, <2>1, <2>5, <2>6, <2>7, <2>8, <2>9, <2>10, NamingMove
<1>10. CASE q.kind # "signup"
  <2>1. AfterPublish(s) = IF q.kind = "admin_rename" /\ q.old \in {None, h} THEN "announce"
                          ELSE "retract"
    BY <1>10 DEF AfterPublish
  <2> QED
    BY <1>1, <1>9, <1>10, <2>1
<1> QED
  BY <1>8, <1>10

LEMMA RetractWriteStep ==
    ASSUME Parameters, AccountsInvariant, NEW s \in Requests, RetractWrite(s)
    PROVE  AccountsInvariant'
<1>1. /\ s \in Active /\ req[s].at = "erase" /\ NoFault /\ UNCHANGED stores
      /\ zone' = IF provider = "rrset" THEN EraseRRset(req[s].old)
                 ELSE EraseRecord(req[s].rec)
      /\ Proceed(s, AfterRetract(s))
  BY ActiveRequests DEF RetractWrite
<1> SUFFICES ASSUME NEW q, q = req[s], NEW p, p = req'[s], NEW l, l = q.old, NEW d, d = q.did
             PROVE  AccountsInvariant'
  OBVIOUS
<1>2. /\ q.at \in Naming /\ q.kind \in {"rename", "admin_rename", "delete", "admin_delete"}
      /\ q.names \subseteq Handles /\ None \notin Handles
      /\ q.kind \in {"delete", "admin_delete"} => q.handle = None
      /\ l \in q.names \cup blurred \cup {None}
  BY <1>1, NamingFacts, RequestFacts DEF Naming
<1>3. ZoneInv
  BY DEF AccountsInvariant, NameInv
<1>4. \A z \in zone : z.id = q.rec => z.name = l
  BY <1>1, <1>3 DEF ZoneInv
<1>5. zone' \subseteq zone /\ \A n : n # l => At(n)' = At(n)
  BY <1>1, <1>4 DEF EraseRRset, EraseRecord, At
<1>6. (\A z \in At(l) : z.id = q.rec) => At(l)' = {}
  BY <1>1 DEF EraseRRset, EraseRecord, At
<1>7. \A n, e : /\ n # l => (Single(n, e)' <=> Single(n, e))
                /\ Owned(n)' <=> Owned(n)
  BY <1>1, <1>5 DEF Single, Owned, stores
<1>8. Clean(q) => /\ q.handle \in Handles \ blurred => Single(q.handle, d)'
                  /\ \A n \in q.names \ (blurred \cup {q.handle}) :
                       n = l => ~Owned(n)' /\ At(n)' = {}
  <2>1. Clean(q) => /\ q.handle \in Handles \ blurred => NewNameOk(q)
                    /\ \A n \in q.names \ (blurred \cup {q.handle}) : OldNameOk(q, n)
    BY <1>1, <1>2, NamingFacts
  <2>2. NewNameOk(q) => Single(q.handle, d)'
    <3>1. NewNameOk(q) => Single(q.handle, d) /\ l # q.handle
      BY <1>1 DEF NewNameOk
    <3> QED
      BY <1>7, <3>1
  <2>3. ASSUME NEW n, n = l, OldNameOk(q, n) PROVE ~Owned(n)' /\ At(n)' = {}
    <3>1. ~Owned(n) /\ \A z \in At(n) : z.id = q.rec
      BY <1>1, <2>3 DEF OldNameOk
    <3> QED
      BY <1>6, <1>7, <2>3, <3>1
  <2> QED
    BY <2>1, <2>2, <2>3
<1>9. ASSUME StepBy(s), s \in Active' => req'[s].at = "announce" /\ req'[s].rec = q.rec
      PROVE  ZoneInv'
  BY <1>1, <1>3, <1>5, <1>9, ZoneErased
<1>10. CASE q.kind \in {"delete", "admin_delete"}
  <2>1. Ended(s)
    BY <1>1, <1>10, FinishEnds DEF Proceed, AfterRetract
  <2>2. StepBy(s)
    BY <1>1, <1>2, <1>5, <2>1, WriteShape
  <2>3. s \notin Active'
    BY <2>1, IdleIsIdle, ActiveRequests DEF Ended
  <2>4. ZoneInv'
    BY <1>9, <2>2, <2>3
  <2>5. Clean(q) => \A n \in q.names \ (blurred \cup {q.handle}) :
                           n = q.old => Settled(n)'
    BY <1>8 DEF Settled, Owned
  <2> QED
    BY <1>1, <1>2, <1>10, <2>2, <2>3, <2>4, <2>5, NamingEnd
<1>11. CASE q.kind \in {"rename", "admin_rename"}
  <2>1. Moved(s, "announce", q.old, q.rec)
    BY <1>1, <1>11, GotoMoves DEF Proceed, AfterRetract, Goto
  <2>2. /\ p.at = "announce" /\ p.kind = q.kind /\ p.did = d /\ p.handle = q.handle
        /\ p.rec = q.rec /\ p.old = q.old
    BY <2>1 DEF Moved
  <2>3. StageOk(p) /\ p.at \notin Unwritten /\ p.at \notin Unregistered
    BY <1>1, <1>11, <2>2 DEF StageOk, Unwritten, Unregistered
  <2>4. Follows(req'[s], req[s])
    BY <2>1, <2>2, <2>3, MovedFollows
  <2>5. StepBy(s)
    BY <1>1, <1>2, <1>5, <2>1, <2>4, WriteShape DEF Moved
  <2>6. s \in Active'
    BY <2>4, <2>5, StillActive
  <2>7. ZoneInv'
    BY <1>9, <2>2, <2>5
  <2>8. Clean(q) => /\ q.handle \in Handles \ blurred => NewNameOk(p)'
                    /\ \A n \in q.names \ (blurred \cup {q.handle}) :
                         n = q.old => OldNameOk(p, n)'
    BY <1>8, <2>2 DEF NewNameOk, OldNameOk
  <2> QED
    BY <1>1, <1>2, <1>11, <2>1, <2>5, <2>6, <2>7, <2>8, NamingMove
<1> QED
  BY <1>2, <1>10, <1>11

-----------------------------------------------------------------------------
(* A request comes in.                                                     *)

\* What Enter and the handler's checks make of the request r.
Enters(r, q) ==
    /\ r \in Requests /\ req[r].at = "idle" /\ calls' = calls + 1
    /\ DOMAIN req' = Requests /\ req'[r] = q /\ \A t \in Requests : t # r => req'[t] = req[t]
    /\ UNCHANGED stores /\ zone' = zone /\ provider' = provider /\ admitted' = admitted
    /\ blurred \cup Met(q) \subseteq blurred'
    /\ RequestShape(q) /\ StageOk(q) /\ q.call = calls + 1 /\ q.rec = None
    /\ q.did \in Dids /\ q.names = {q.handle, registry[q.did], ctx[q.did]} \ {None}
    /\ IF q.kind \in {"delete", "admin_delete"} THEN q.handle = None ELSE q.handle \in Handles
    /\ \/ /\ q.kind = "signup" /\ q.at = "check" /\ q.old = None /\ q.code \in Codes
          /\ repo[q.did] = None /\ \A t \in Active : req[t].did # q.did
       \/ /\ q.kind \in {"rename", "admin_rename"} /\ q.at = "plc" /\ q.old = None
          /\ registry[q.did] # None /\ ~TakenByOther(q.did, q.handle)
          /\ q.kind = "rename" /\ ctx[q.did] = q.handle => q.handle \in blurred'
       \/ q.kind = "delete" /\ q.at = "remove" /\ q.old = None /\ registry[q.did] # None
       \/ /\ q.kind = "admin_delete" /\ q.at = "goodbye" /\ q.old = registry[q.did]
          /\ registry[q.did] # None

LEMMA EnterFacts ==
    ASSUME Parameters, AccountsInvariant, NEW r, NEW q, Enters(r, q)
    PROVE  /\ \A t : t # r => (t \in Active' <=> t \in Active)
           /\ r \in Active' /\ r \notin Active
           /\ \A t \in Active : t \in Requests /\ t # r /\ req'[t] = req[t]
           /\ registry' = registry /\ repo' = repo /\ ctx' = ctx /\ plc' = plc
           /\ announced' = announced /\ blurred \subseteq blurred' /\ None \notin Handles
           /\ calls \in Nat /\ None \notin Ids
           /\ q.names \subseteq Handles
           /\ IF q.at \in Unregistered
              THEN q.at = "check" /\ registry[q.did] = None /\ ctx[q.did] = None
              ELSE ctx[q.did] # None /\ registry[q.did] # None /\ Before(q)
<1>1. q.at # "idle"
  BY StagesAreNotIdle DEF Enters
<1>2. /\ \A t : t # r => (t \in Active' <=> t \in Active)
      /\ r \in Active' /\ r \notin Active
      /\ \A t \in Active : t \in Requests /\ t # r /\ req'[t] = req[t]
  BY <1>1, ActiveRequests DEF Enters
<1>3. /\ registry' = registry /\ repo' = repo /\ ctx' = ctx /\ plc' = plc
      /\ announced' = announced /\ blurred \subseteq blurred'
  BY DEF Enters, stores
<1>4. None \notin Handles /\ None \notin Ids
  BY DEF Parameters, Ids
<1>5. calls \in Nat
  BY DEF AccountsInvariant, AccountTypes
<1>6. q.did \in Dids /\ q.handle \in Names
  BY DEF Enters, Names
<1>7. registry[q.did] \in Names /\ ctx[q.did] \in Names
  BY <1>6, StoreTypes
<1>8. q.names \subseteq Handles
  BY <1>6, <1>7 DEF Enters, Names
<1>9. /\ registry[q.did] # None => ctx[q.did] # None
      /\ ctx[q.did] # None => repo[q.did] # None
  BY <1>6 DEF AccountsInvariant, BornInv
<1>10. IF q.at \in Unregistered
       THEN q.at = "check" /\ registry[q.did] = None /\ ctx[q.did] = None
       ELSE ctx[q.did] # None /\ registry[q.did] # None /\ Before(q)
  BY <1>9 DEF Enters, Unregistered, Before
<1> QED
  BY <1>2, <1>3, <1>4, <1>5, <1>8, <1>10

LEMMA EnterTypes ==
    ASSUME Parameters, AccountsInvariant, NEW r, NEW q, Enters(r, q),
           DOMAIN invites' = Codes, \A c \in Codes : CodeShape(invites'[c])
    PROVE  AccountTypes'
<1>1. ASSUME NEW t \in Requests PROVE RequestShape(req[t])'
  <2>1. RequestShape(req'[t])
    BY DEF Enters, AccountsInvariant, AccountTypes
  <2> QED
    BY <2>1 DEF RequestShape
<1>2. ASSUME NEW t \in Active' PROVE RequestOk(req[t])'
  <2>1. CASE t # r
    <3>1. t \in Active /\ req'[t] = req[t]
      BY <2>1, EnterFacts
    <3>2. RequestOk(req[t])
      BY <3>1 DEF AccountsInvariant, AccountTypes
    <3>3. calls \in Nat /\ calls' = calls + 1
      BY EnterFacts DEF Enters
    <3>4. /\ req[t].call \in 1..calls /\ req[t].rec \in Ids \cup {None}
          /\ req[t].rec # None => req[t].rec[1] <= calls
      BY <3>2 DEF RequestOk
    <3>5. req[t].call \in 1..calls'
      BY <3>3, <3>4
    <3>6. req[t].rec # None => req[t].rec[1] <= calls'
      BY <3>3, <3>4 DEF Ids
    <3> QED
      BY <3>1, <3>2, <3>5, <3>6 DEF RequestOk, StageOk
  <2>2. CASE t = r
    <3>1. /\ req'[r] = q /\ StageOk(q) /\ q.did \in Dids /\ q.names \subseteq Handles
          /\ q.rec = None /\ q.call \in 1..calls'
      BY EnterFacts DEF Enters
    <3>2. q.old \in Names
      BY StoreTypes DEF Enters, Names
    <3>3. IF q.kind \in {"delete", "admin_delete"} THEN q.handle = None
          ELSE q.handle \in Handles /\ q.handle \in q.names
      BY EnterFacts DEF Enters
    <3>4. q.kind = "signup" => q.code \in Codes /\ q.old = None
      BY DEF Enters
    <3> QED
      BY <2>2, <3>1, <3>2, <3>3, <3>4 DEF RequestOk, StageOk
  <2> QED
    BY <2>1, <2>2
<1>3. \A c \in Codes : CodeShape(invites[c])'
  BY DEF CodeShape
<1> QED
  BY <1>1, <1>2, <1>3, EnterFacts, StoreTypes DEF AccountTypes, Enters

LEMMA EnterBorn ==
    ASSUME Parameters, AccountsInvariant, NEW r, NEW q, Enters(r, q)
    PROVE  BornInv' /\ AloneInv' /\ RowsInv'
<1>1. BornInv /\ AloneInv /\ RowsInv
  BY DEF AccountsInvariant
<1>2. req'[r] = q
  BY DEF Enters
<1>3. RowsInv'
  BY <1>1, EnterFacts DEF RowsInv
<1>4. BornInv'
  <2>1. q.kind = "rename" => q.at # "registry"
    BY DEF Enters
  <2>2. q.at = "check" => q.at # "register"
    OBVIOUS
  <2>3. \A t \in Active' : t = r \/ (t \in Active /\ req'[t] = req[t])
    BY EnterFacts
  <2>4. ASSUME NEW t \in Active'
        PROVE  /\ IF req'[t].at \in Unregistered
                  THEN /\ registry[req'[t].did] = None /\ ctx[req'[t].did] = None
                       /\ req'[t].at = "register" => repo[req'[t].did] = req'[t].handle
                  ELSE ctx[req'[t].did] # None
               /\ req'[t].kind = "rename" /\ req'[t].at = "registry" => req'[t].old # None
    <3>1. CASE t = r
      BY <1>2, <2>1, <2>2, <3>1, EnterFacts
    <3>2. CASE t # r
      BY <1>1, <2>3, <3>2 DEF BornInv
    <3> QED
      BY <3>1, <3>2
  <2> QED
    BY <1>1, <2>4, EnterFacts DEF BornInv
<1>5. AloneInv'
  <2> SUFFICES ASSUME NEW t \in Active', NEW u \in Active', t # u,
                      req'[t].did = req'[u].did
               PROVE  /\ req'[t].did \in blurred'
                      /\ req'[t].at \notin Unregistered /\ req'[u].at \notin Unregistered
    BY DEF AloneInv
  <2>1. ASSUME NEW v \in Active, req[v].did = q.did
        PROVE  q.did \in blurred' /\ q.at \notin Unregistered
               /\ req[v].at \notin Unregistered
    <3>1. q.did \in Met(q)
      BY <2>1 DEF Met
    <3>2. q.at \notin Unregistered
      BY <2>1 DEF Enters, Unregistered
    <3>3. registry[q.did] # None
      BY <3>2, EnterFacts
    <3> QED
      BY <1>1, <2>1, <3>1, <3>2, <3>3 DEF Enters, BornInv
  <2>2. CASE t = r
    BY <1>2, <2>1, <2>2, EnterFacts
  <2>3. CASE u = r
    BY <1>2, <2>1, <2>3, EnterFacts
  <2>4. CASE t # r /\ u # r
    BY <1>1, <2>4, EnterFacts DEF AloneInv
  <2> QED
    BY <2>2, <2>3, <2>4
<1> QED
  BY <1>3, <1>4, <1>5

\* A request that meets no other finds its account and its names settled.
LEMMA EnterAlone ==
    ASSUME Parameters, AccountsInvariant, NEW r, NEW q, Enters(r, q)
    PROVE  /\ q.did \notin blurred' =>
                AtRest(q.did) /\ q.did \notin blurred
           /\ ~(q.names \subseteq blurred') =>
                /\ AtRest(q.did)
                /\ \A n \in q.names : n \notin blurred' => n \notin blurred /\ Settled(n)
           /\ \A t \in Active : req[t].did = q.did \/ req[t].names \cap q.names # {} =>
                req[t].names \cup q.names \subseteq blurred'
<1>1. Met(q) \subseteq blurred' /\ blurred \subseteq blurred'
  BY DEF Enters
<1>2. ASSUME NEW t \in Active, req[t].did = q.did
      PROVE  q.did \in blurred'
  BY <1>1, <1>2 DEF Met
<1>3. ASSUME NEW t \in Active, req[t].did = q.did \/ req[t].names \cap q.names # {}
      PROVE  req[t].names \cup q.names \subseteq blurred'
  <2>1. req[t].names \cup q.names \subseteq Met(q)
    BY <1>3 DEF Met
  <2> QED
    BY <1>1, <2>1
<1>4. ASSUME ~(q.names \subseteq blurred'), NEW n \in q.names, n \notin blurred'
      PROVE  Settled(n)
  <2>1. n \in Handles \ blurred /\ \A t \in Active : n \notin req[t].names
    BY <1>1, <1>3, <1>4, EnterFacts
  <2> QED
    BY <2>1 DEF AccountsInvariant, NameInv
<1> QED
  BY <1>1, <1>2, <1>3, <1>4 DEF AtRest

LEMMA EnterLocal ==
    ASSUME Parameters, AccountsInvariant, NEW r, NEW q, Enters(r, q)
    PROVE  LocalInv'
<1>1. LocalInv
  BY DEF AccountsInvariant
<1>2. ASSUME NEW d \in Dids, registry'[d] # None, AtRest(d)', d \notin blurred'
      PROVE  repo'[d] = registry'[d] /\ ctx'[d] = registry'[d]
  <2>1. AtRest(d)
    BY <1>2, EnterFacts DEF AtRest
  <2> QED
    BY <1>1, <1>2, <2>1, EnterFacts DEF LocalInv, LocalAgree
<1>3. ASSUME NEW t \in Active', req'[t].did \notin blurred' PROVE LocalOk(req[t])'
  <2>1. CASE t # r
    <3>1. t \in Active /\ req'[t] = req[t] /\ req[t].did \notin blurred
      BY <1>3, <2>1, EnterFacts
    <3>2. LocalOk(req[t])
      BY <1>1, <3>1 DEF LocalInv
    <3> QED
      BY <3>1, <3>2, EnterFacts DEF LocalOk
  <2>2. CASE t = r
    <3>1. req'[r] = q /\ q.did \in Dids
      BY DEF Enters
    <3>2. registry[q.did] # None => repo[q.did] = registry[q.did] /\ ctx[q.did] = registry[q.did]
      BY <1>1, <1>3, <2>2, <3>1, EnterAlone DEF LocalInv, LocalAgree
    <3>3. /\ q.kind = "rename" => q.at = "plc"
          /\ q.kind = "admin_rename" => q.at = "plc"
      BY DEF Enters
    <3>4. LocalOk(q)'
      BY <3>2, <3>3, EnterFacts DEF LocalOk
    <3> QED
      BY <2>2, <3>1, <3>4, ReadNext
  <2> QED
    BY <2>1, <2>2
<1> QED
  BY <1>2, <1>3 DEF LocalInv, LocalAgree

LEMMA EnterZone ==
    ASSUME Parameters, AccountsInvariant, NEW r, NEW q, Enters(r, q)
    PROVE  ZoneInv'
<1>1. ZoneInv
  BY DEF AccountsInvariant, NameInv
<1>2. /\ req'[r] = q /\ calls' = calls + 1 /\ q.call = calls + 1 /\ q.rec = None
      /\ zone' = zone /\ calls \in Nat /\ None \notin Ids
  BY EnterFacts DEF Enters
<1>3. /\ \A z \in zone' : RecordShape(z)
      /\ \A z \in zone' : z.id \in Ids /\ z.id[1] <= calls' /\ z.did \in Dids
      /\ \A y, z \in zone' : y.id = z.id => y = z
  <2>1. \A z \in zone : z.id[1] \in Nat /\ z.id[1] <= calls
    BY <1>1 DEF ZoneInv, Ids
  <2>2. \A z \in zone : z.id[1] <= calls + 1
    BY <1>2, <2>1
  <2> QED
    BY <1>1, <1>2, <2>2 DEF ZoneInv
<1>4. \A t \in Active : req[t].call \in Nat /\ req[t].call <= calls
  BY <1>2, RequestFacts
<1>5. ASSUME NEW t \in Active', NEW u \in Active', t # u
      PROVE  req'[t].call # req'[u].call
  <2>1. CASE t = r
    <3>1. req'[u].call \in Nat /\ req'[u].call <= calls
      BY <1>4, <1>5, <2>1, EnterFacts
    <3> QED
      BY <1>2, <2>1, <3>1
  <2>2. CASE u = r
    <3>1. req'[t].call \in Nat /\ req'[t].call <= calls
      BY <1>4, <1>5, <2>2, EnterFacts
    <3> QED
      BY <1>2, <2>2, <3>1
  <2>3. CASE t # r /\ u # r
    BY <1>1, <1>5, <2>3, EnterFacts DEF ZoneInv
  <2> QED
    BY <2>1, <2>2, <2>3
<1>6. ASSUME NEW t \in Active', req'[t].at \in Unwritten
      PROVE  /\ \A z \in zone' : z.id # NewId(req[t])'
             /\ \A u \in Active' : req'[u].rec # NewId(req[t])'
  <2>1. CASE t = r
    <3>1. NewId(req[t])' = <<calls + 1, q.did>>
      BY <1>2, <2>1 DEF NewId
    <3>2. \A z \in zone : z.id[1] \in Nat /\ z.id[1] <= calls
      BY <1>1 DEF ZoneInv, Ids
    <3>3. <<calls + 1, q.did>>[1] = calls + 1
      OBVIOUS
    <3>4. \A z \in zone : z.id # <<calls + 1, q.did>>
      BY <1>2, <3>2, <3>3
    <3>5. ASSUME NEW u \in Active PROVE req[u].rec # <<calls + 1, q.did>>
      <4>1. /\ req[u].rec \in Ids \cup {None}
            /\ req[u].rec # None => req[u].rec[1] <= calls
        BY RequestFacts
      <4>2. <<calls + 1, q.did>> \in Ids
        BY <1>2 DEF Ids, Enters
      <4> QED
        BY <1>2, <3>3, <4>1, <4>2
    <3>6. q.rec # <<calls + 1, q.did>>
      <4>1. <<calls + 1, q.did>> \in Ids
        BY <1>2 DEF Ids, Enters
      <4> QED
        BY <1>2, <4>1
    <3>7. ASSUME NEW u \in Active' PROVE req'[u].rec # <<calls + 1, q.did>>
      <4>1. CASE u = r
        BY <1>2, <3>6, <4>1
      <4>2. CASE u # r
        BY <3>5, <4>2, EnterFacts
      <4> QED
        BY <4>1, <4>2
    <3> QED
      BY <1>2, <3>1, <3>4, <3>7
  <2>2. CASE t # r
    <3>1. /\ t \in Active /\ req'[t] = req[t]
          /\ NewId(req[t])' = NewId(req[t])
      BY <2>2, EnterFacts DEF NewId
    <3>2. NewId(req[t]) # None
      BY <1>2, <3>1, RequestFacts DEF NewId, Ids
    <3>3. \A u \in Active' : u = r \/ (u \in Active /\ req'[u] = req[u])
      BY EnterFacts
    <3> QED
      BY <1>1, <1>2, <1>6, <3>1, <3>2, <3>3 DEF ZoneInv
  <2> QED
    BY <2>1, <2>2
<1>7. ASSUME NEW t \in Active', NEW z \in zone', z.id = req'[t].rec
      PROVE  /\ req'[t].at = "write" => z.name = req'[t].handle
             /\ req'[t].at = "erase" => z.name = req'[t].old
  <2>1. CASE t = r
    BY <1>1, <1>2, <1>7, <2>1 DEF ZoneInv
  <2>2. CASE t # r
    BY <1>1, <1>2, <1>7, <2>2, EnterFacts DEF ZoneInv
  <2> QED
    BY <2>1, <2>2
<1> QED
  BY <1>3, <1>5, <1>6, <1>7 DEF ZoneInv, RecordShape

LEMMA EnterClean ==
    ASSUME Parameters, AccountsInvariant, NEW r, NEW q, Enters(r, q),
           ~(q.names \subseteq blurred')
    PROVE  Clean(q)'
<1>1. /\ q.did \in Dids /\ q.names = {q.handle, registry[q.did], ctx[q.did]} \ {None}
      /\ zone' = zone
  BY DEF Enters
<1>2. /\ registry' = registry /\ ctx' = ctx /\ plc' = plc /\ announced' = announced
      /\ blurred \subseteq blurred' /\ None \notin Handles /\ q.names \subseteq Handles
  BY EnterFacts
<1>3. /\ RestOk(q.did)
      /\ \A n \in q.names : n \notin blurred' => n \notin blurred /\ Settled(n)'
  <2>1. /\ AtRest(q.did)
        /\ \A n \in q.names : n \notin blurred' => n \notin blurred /\ Settled(n)
    BY EnterAlone
  <2> QED
    BY <1>1, <1>2, <2>1, QuietNames DEF AccountsInvariant, NameInv
<1>4. CASE q.kind = "signup"
  <2>1. /\ q.at = "check" /\ q.at \in Unregistered
        /\ registry[q.did] = None /\ ctx[q.did] = None
        /\ q.handle \in Handles
    BY <1>4, EnterFacts DEF Enters, Unregistered
  <2>2. q.names = {q.handle}
    BY <1>1, <1>2, <2>1
  <2>3. SignupOk(q)'
    BY <1>3, <2>1, <2>2 DEF SignupOk
  <2>4. ToldOk(q)'
    BY <1>2, <1>4, <2>1 DEF ToldOk
  <2> QED
    BY <2>1, <2>3, <2>4 DEF Clean
<1>5. CASE q.kind # "signup"
  <2>1. /\ q.at \in {"plc", "remove", "goodbye"} /\ registry[q.did] # None
        /\ q.at = "plc" \/ q.kind \in {"delete", "admin_delete"}
        /\ q.kind = "admin_delete" => q.old = registry[q.did] /\ q.at = "goodbye"
        /\ q.kind = "rename" => q.at = "plc"
        /\ q.kind \in {"delete", "admin_delete"} <=> q.handle = None
        /\ q.handle # None => ~TakenByOther(q.did, q.handle)
        /\ q.kind = "rename" /\ ctx[q.did] = q.handle => q.handle \in blurred'
    BY <1>2, <1>5 DEF Enters
  <2>2. q.at \notin Unregistered
    BY <2>1 DEF Unregistered
  <2>3. Before(q)'
    BY <2>2, EnterFacts DEF Before
  <2>4. Aligned(q.did)'
    BY <1>2, <1>3 DEF RestOk, Aligned
  <2>5. \A n \in q.names \ blurred' : Settled(n)' /\ n \in {q.handle, registry'[q.did]}
    BY <1>1, <1>2, <1>3, <2>1 DEF RestOk, Aligned
  <2>6. q.handle # None => ~TakenByOther(q.did, q.handle)'
    BY <1>1, <1>2, <2>1, QuietNames
  <2>7. BeforeOk(q)'
    BY <1>2, <2>1, <2>4, <2>5, <2>6 DEF BeforeOk
  <2>8. q.did \notin blurred' => ToldOk(q)'
    BY <1>2, <1>3, <1>5, <2>1, <2>2 DEF ToldOk, RestOk
  <2> QED
    BY <2>2, <2>3, <2>7, <2>8 DEF Clean
<1> QED
  BY <1>4, <1>5

LEMMA EnterNames ==
    ASSUME Parameters, AccountsInvariant, NEW r, NEW q, Enters(r, q)
    PROVE  NameInv'
<1>1. NameInv
  BY DEF AccountsInvariant
<1>2. req'[r] = q /\ zone' = zone
  BY DEF Enters
<1>3. ASSUME NEW t \in Active' PROVE Covered(req[t])'
  <2>1. CASE t # r
    <3>1. t \in Active /\ req'[t] = req[t]
      BY <2>1, EnterFacts
    <3>2. Covered(req[t])
      BY <1>1, <3>1 DEF NameInv
    <3> QED
      BY <3>1, <3>2, EnterFacts DEF Covered
  <2>2. CASE t = r
    <3>1. {registry[q.did], ctx[q.did], q.old} \subseteq q.names \cup {None}
      BY DEF Enters
    <3> QED
      BY <1>2, <2>2, <3>1, EnterFacts DEF Covered
  <2> QED
    BY <2>1, <2>2
<1>4. MeetInv'
  <2> SUFFICES ASSUME NEW t \in Active', NEW u \in Active', t # u,
                      req'[t].did = req'[u].did \/ req'[t].names \cap req'[u].names # {}
               PROVE  req'[t].names \subseteq blurred'
    BY DEF MeetInv
  <2>1. CASE t = r
    BY <1>2, <2>1, EnterFacts, EnterAlone
  <2>2. CASE u = r
    BY <1>2, <2>2, EnterFacts, EnterAlone
  <2>3. CASE t # r /\ u # r
    BY <1>1, <2>3, EnterFacts DEF NameInv, MeetInv
  <2> QED
    BY <2>1, <2>2, <2>3
<1>5. ASSUME NEW t \in Active' PROVE req'[t].names \subseteq blurred' \/ Clean(req[t])'
  <2>1. CASE t = r
    BY <1>2, <2>1, EnterClean, ReadNext
  <2>2. CASE t # r
    <3>1. t \in Active /\ req'[t] = req[t] /\ blurred \subseteq blurred'
      BY <2>2, EnterFacts
    <3>2. req[t].names \subseteq blurred \/ Clean(req[t])
      BY <1>1, <3>1 DEF NameInv
    <3>3. Spared(t)
      BY <1>2, <3>1, EnterFacts, QuietNames DEF Spared
    <3> QED
      BY <3>1, <3>2, <3>3, SparedClean
  <2> QED
    BY <2>1, <2>2
<1>6. ASSUME NEW d \in Dids, AtRest(d)' PROVE RestOk(d)'
  <2>1. AtRest(d)
    BY <1>6, EnterFacts DEF AtRest
  <2>2. RestOk(d)
    BY <1>1, <2>1 DEF NameInv
  <2> QED
    BY <2>2, EnterFacts DEF RestOk, Aligned
<1>7. ASSUME NEW n \in Handles \ blurred', \A t \in Active' : n \notin req'[t].names
      PROVE  Settled(n)'
  <2>1. n \in Handles \ blurred /\ \A t \in Active : n \notin req[t].names
    BY <1>7, EnterFacts
  <2>2. Settled(n)
    BY <1>1, <2>1 DEF NameInv
  <2> QED
    BY <1>2, <2>2, EnterFacts, QuietNames
<1> QED
  BY <1>3, <1>4, <1>5, <1>6, <1>7, EnterZone DEF NameInv

LEMMA EnterDone ==
    ASSUME Parameters, AccountsInvariant, NEW r, NEW q, Enters(r, q),
           DOMAIN invites' = Codes, \A c \in Codes : CodeShape(invites'[c]),
           InviteInv'
    PROVE  AccountsInvariant'
BY EnterTypes, EnterBorn, EnterLocal, EnterNames DEF AccountsInvariant

\* A request that uses no code leaves the counts of the codes alone.
LEMMA HoldersSame ==
    ASSUME admitted' = admitted, Pending' = Pending,
           \A t \in Pending : req'[t] = req[t], NEW c
    PROVE  Holders(c)' = Holders(c)
<1>1. ASSUME NEW d PROVE d \in Holders(c)' <=> d \in Holders(c)
  BY DEF Holders
<1> QED
  BY <1>1

LEMMA EnterInvites ==
    ASSUME Parameters, AccountsInvariant, NEW r, NEW q, Enters(r, q),
           q.at # "check", invites' = invites
    PROVE  AccountsInvariant'
<1>1. q.at \notin Unregistered
  BY EnterFacts
<1>2. Pending' = Pending /\ \A t \in Pending : req'[t] = req[t]
  BY <1>1 DEF Pending, Unregistered, Enters
<1>3. \A c : Holders(c)' = Holders(c)
  BY <1>2, HoldersSame DEF Enters
<1>4. InviteInv'
  BY <1>3 DEF AccountsInvariant, InviteInv
<1>5. DOMAIN invites' = Codes /\ \A c \in Codes : CodeShape(invites'[c])
  BY DEF AccountsInvariant, AccountTypes
<1> QED
  BY <1>4, <1>5, EnterDone

\* The record that Enter makes.
LEMMA EnterRecord ==
    ASSUME Parameters, AccountsInvariant, NEW r \in Requests, NEW kind, NEW at, NEW d,
           NEW h, NEW c, NEW old, Enter(r, kind, at, d, h, c, old)
    PROVE  \E q : /\ RequestShape(q) /\ q.at = at /\ q.kind = kind /\ q.did = d
                  /\ q.handle = h /\ q.old = old /\ q.rec = None /\ q.code = c
                  /\ q.call = calls + 1 /\ q.names = {h, registry[d], ctx[d]} \ {None}
                  /\ DOMAIN req' = Requests /\ req'[r] = q
                  /\ \A t \in Requests : t # r => req'[t] = req[t]
                  /\ req[r].at = "idle" /\ calls' = calls + 1
                  /\ blurred \cup Met(q) \subseteq blurred'
                  /\ kind = "rename" /\ ctx[d] = h => h \in blurred'
<1> SUFFICES ASSUME NEW q,
                    q = [at |-> at, kind |-> kind, did |-> d, handle |-> h, old |-> old,
                         rec |-> None, code |-> c, call |-> calls + 1,
                         names |-> {h, registry[d], ctx[d]} \ {None}]
             PROVE  /\ RequestShape(q) /\ q.at = at /\ q.kind = kind /\ q.did = d
                    /\ q.handle = h /\ q.old = old /\ q.rec = None /\ q.code = c
                    /\ q.call = calls + 1 /\ q.names = {h, registry[d], ctx[d]} \ {None}
                    /\ DOMAIN req' = Requests /\ req'[r] = q
                    /\ \A t \in Requests : t # r => req'[t] = req[t]
                    /\ req[r].at = "idle" /\ calls' = calls + 1
                    /\ blurred \cup Met(q) \subseteq blurred'
                    /\ kind = "rename" /\ ctx[d] = h => h \in blurred'
  OBVIOUS
<1>1. /\ q.at = at /\ q.kind = kind /\ q.did = d
      /\ q.handle = h /\ q.old = old /\ q.rec = None /\ q.code = c
      /\ q.call = calls + 1 /\ q.names = {h, registry[d], ctx[d]} \ {None}
  OBVIOUS
<1>2. q \in [at : {at}, kind : {kind}, did : {d}, handle : {h}, old : {old},
             rec : {None}, code : {c}, call : {calls + 1},
             names : {{h, registry[d], ctx[d]} \ {None}}]
  OBVIOUS
<1>3. RequestShape(q)
  BY <1>1, <1>2 DEF RequestShape
<1>4. /\ req' = [req EXCEPT ![r] = q] /\ req[r].at = "idle" /\ calls' = calls + 1
      /\ blurred \cup Met(q) \subseteq blurred'
      /\ kind = "rename" /\ ctx[d] = h => h \in blurred'
  BY DEF Enter
<1>5. DOMAIN req' = Requests /\ req'[r] = q /\ \A t \in Requests : t # r => req'[t] = req[t]
  BY <1>4, StoreTypes
<1> QED
  BY <1>1, <1>3, <1>4, <1>5

LEMMA RenameEnters ==
    ASSUME Parameters, AccountsInvariant, NEW r \in Requests, NEW d \in Dids,
           NEW h \in Handles,
           update_handle(r, d, h) \/ admin_update_account_handle(r, d, h)
    PROVE  AccountsInvariant'
<1>1. PICK kind \in {"rename", "admin_rename"} : Enter(r, kind, "plc", d, h, None, None)
  BY DEF update_handle, admin_update_account_handle
<1>2. /\ registry[d] # None /\ ~TakenByOther(d, h) /\ UNCHANGED stores
      /\ zone' = zone /\ provider' = provider /\ admitted' = admitted /\ invites' = invites
  BY DEF update_handle, admin_update_account_handle
<1>3. PICK q : /\ RequestShape(q) /\ q.at = "plc" /\ q.kind = kind /\ q.did = d
               /\ q.handle = h /\ q.old = None /\ q.rec = None /\ q.code = None
               /\ q.call = calls + 1 /\ q.names = {h, registry[d], ctx[d]} \ {None}
               /\ DOMAIN req' = Requests /\ req'[r] = q
               /\ \A t \in Requests : t # r => req'[t] = req[t]
               /\ req[r].at = "idle" /\ calls' = calls + 1
               /\ blurred \cup Met(q) \subseteq blurred'
               /\ kind = "rename" /\ ctx[d] = h => h \in blurred'
  BY <1>1, EnterRecord
<1>4. StageOk(q)
  BY <1>1, <1>3 DEF StageOk
<1>5. q.kind \notin {"delete", "admin_delete"}
  BY <1>1, <1>3
<1>6. Enters(r, q)
  BY <1>1, <1>2, <1>3, <1>4, <1>5 DEF Enters
<1> QED
  BY <1>2, <1>3, <1>6, EnterInvites

LEMMA DeleteEnters ==
    ASSUME Parameters, AccountsInvariant, NEW r \in Requests, NEW d \in Dids,
           delete_account(r, d) \/ admin_delete_account(r, d)
    PROVE  AccountsInvariant'
<1>1. PICK kind, at, old :
        /\ Enter(r, kind, at, d, None, None, old)
        /\ \/ kind = "delete" /\ at = "remove" /\ old = None
           \/ kind = "admin_delete" /\ at = "goodbye" /\ old = registry[d]
  BY DEF delete_account, admin_delete_account
<1>2. /\ registry[d] # None /\ UNCHANGED stores
      /\ zone' = zone /\ provider' = provider /\ admitted' = admitted /\ invites' = invites
  BY DEF delete_account, admin_delete_account
<1>3. PICK q : /\ RequestShape(q) /\ q.at = at /\ q.kind = kind /\ q.did = d
               /\ q.handle = None /\ q.old = old /\ q.rec = None /\ q.code = None
               /\ q.call = calls + 1 /\ q.names = {None, registry[d], ctx[d]} \ {None}
               /\ DOMAIN req' = Requests /\ req'[r] = q
               /\ \A t \in Requests : t # r => req'[t] = req[t]
               /\ req[r].at = "idle" /\ calls' = calls + 1
               /\ blurred \cup Met(q) \subseteq blurred'
               /\ kind = "rename" /\ ctx[d] = None => None \in blurred'
  BY <1>1, EnterRecord
<1>4. StageOk(q) /\ q.at # "check"
  BY <1>1, <1>3 DEF StageOk
<1>5. Enters(r, q)
  BY <1>1, <1>2, <1>3, <1>4 DEF Enters
<1> QED
  BY <1>2, <1>4, <1>5, EnterInvites

LEMMA CreateEnters ==
    ASSUME Parameters, AccountsInvariant, NEW r \in Requests, NEW d \in Dids,
           NEW h \in Handles, NEW c \in Codes, create_account(r, d, h, c)
    PROVE  AccountsInvariant'
<1>1. /\ Enter(r, "signup", "check", d, h, c, None)
      /\ repo[d] = None /\ \A t \in Active : req[t].did # d
      /\ consume_invite_code(c) /\ UNCHANGED stores
      /\ zone' = zone /\ provider' = provider /\ admitted' = admitted
  BY DEF create_account
<1>2. PICK q : /\ RequestShape(q) /\ q.at = "check" /\ q.kind = "signup" /\ q.did = d
               /\ q.handle = h /\ q.old = None /\ q.rec = None /\ q.code = c
               /\ q.call = calls + 1 /\ q.names = {h, registry[d], ctx[d]} \ {None}
               /\ DOMAIN req' = Requests /\ req'[r] = q
               /\ \A t \in Requests : t # r => req'[t] = req[t]
               /\ req[r].at = "idle" /\ calls' = calls + 1
               /\ blurred \cup Met(q) \subseteq blurred'
               /\ "signup" = "rename" /\ ctx[d] = h => h \in blurred'
  BY <1>1, EnterRecord
<1>3. StageOk(q)
  BY <1>2 DEF StageOk
<1>4. Enters(r, q)
  BY <1>1, <1>2, <1>3 DEF Enters
<1>5. /\ DOMAIN invites' = Codes /\ \A e \in Codes : e # c => invites'[e] = invites[e]
      /\ invites[c].made /\ invites[c].left \in Nat \ {0} /\ invites[c].used \in Nat
      /\ CodeShape(invites'[c]) /\ invites'[c].made = invites[c].made
      /\ invites'[c].left = invites[c].left - 1 /\ invites'[c].used = invites[c].used + 1
  <2>1. /\ DOMAIN invites = Codes /\ CodeShape(invites[c])
        /\ invites[c].left \in Nat /\ invites[c].used \in Nat
    BY DEF AccountsInvariant, AccountTypes, InviteInv
  <2>2. invites[c].made /\ invites[c].left > 0
    BY <1>1 DEF consume_invite_code, Usable
  <2> SUFFICES ASSUME NEW i, i = invites[c], NEW j, j = invites'[c]
               PROVE  /\ DOMAIN invites' = Codes
                      /\ \A e \in Codes : e # c => invites'[e] = invites[e]
                      /\ CodeShape(j) /\ j.made = i.made
                      /\ j.left = i.left - 1 /\ j.used = i.used + 1
    <3>1. invites[c].made /\ invites[c].left \in Nat \ {0} /\ invites[c].used \in Nat
      BY <2>1, <2>2
    <3> QED
      BY <3>1
  <2>3. /\ DOMAIN invites' = Codes /\ \A e \in Codes : e # c => invites'[e] = invites[e]
        /\ j = [i EXCEPT !.left = i.left - 1, !.used = i.used + 1]
    BY <1>1, <2>1, <2>2 DEF consume_invite_code
  <2>4. i \in [made : {i.made}, left : {i.left}, used : {i.used}, disabled : {i.disabled}]
    BY <2>1 DEF CodeShape
  <2>5. j \in [made : {i.made}, left : {i.left - 1}, used : {i.used + 1}, disabled : {i.disabled}]
    BY <2>3, <2>4
  <2>6. j.made = i.made /\ j.left = i.left - 1 /\ j.used = i.used + 1
        /\ j.disabled = i.disabled
    BY <2>5
  <2> QED
    BY <2>3, <2>5, <2>6 DEF CodeShape
<1>6. /\ r \notin Pending /\ Pending' = Pending \cup {r}
      /\ \A t \in Pending : req'[t] = req[t]
  BY <1>2 DEF Pending
<1>7. ASSUME NEW e \in Codes
      PROVE  Holders(e)' = IF e = c THEN Holders(e) \cup {d} ELSE Holders(e)
  <2>1. ASSUME NEW f
        PROVE  f \in Holders(e)' <=> f \in Holders(e) \/ (e = c /\ f = d)
    BY <1>1, <1>2, <1>6 DEF Holders
  <2> QED
    BY <2>1
<1>8. ASSUME NEW e \in Codes
      PROVE  /\ IsFiniteSet(Holders(e)') /\ Cardinality(Holders(e)') <= invites'[e].used
             /\ invites'[e].left \in Nat /\ invites'[e].used \in Nat
             /\ IF invites'[e].made THEN invites'[e].left + invites'[e].used = Uses
                ELSE invites'[e].used = 0
  <2>1. /\ IsFiniteSet(Holders(e)) /\ Cardinality(Holders(e)) <= invites[e].used
        /\ invites[e].left \in Nat /\ invites[e].used \in Nat
        /\ IF invites[e].made THEN invites[e].left + invites[e].used = Uses
           ELSE invites[e].used = 0
    BY DEF AccountsInvariant, InviteInv
  <2>2. CASE e # c
    BY <1>5, <1>7, <2>1, <2>2
  <2>3. CASE e = c
    <3>1. Holders(e)' = Holders(e) \cup {d}
      BY <1>7, <2>3
    <3>2. /\ IsFiniteSet(Holders(e) \cup {d}) /\ Cardinality(Holders(e)) \in Nat
          /\ Cardinality(Holders(e) \cup {d}) <= Cardinality(Holders(e)) + 1
      <4> SUFFICES ASSUME NEW S, S = Holders(e), IsFiniteSet(S)
                   PROVE  /\ IsFiniteSet(S \cup {d}) /\ Cardinality(S) \in Nat
                          /\ Cardinality(S \cup {d}) <= Cardinality(S) + 1
        BY <2>1
      <4>1. Cardinality(S) \in Nat
        BY FS_CardinalityType
      <4>2. /\ IsFiniteSet(S \cup {d})
            /\ Cardinality(S \cup {d}) = IF d \in S THEN Cardinality(S) ELSE Cardinality(S) + 1
        BY FS_AddElement
      <4> QED
        BY <4>1, <4>2
    <3>3. Cardinality(Holders(e) \cup {d}) \in Nat
      BY <3>2, FS_CardinalityType
    <3> QED
      <4>1. /\ invites'[e].left = invites[e].left - 1 /\ invites'[e].used = invites[e].used + 1
            /\ invites'[e].made /\ invites[e].made /\ invites[e].left \in Nat \ {0}
        BY <1>5, <2>3
      <4>2. Cardinality(Holders(e)') <= invites'[e].used
        BY <2>1, <3>1, <3>2, <3>3, <4>1
      <4> QED
        BY <2>1, <3>1, <3>2, <4>1, <4>2
  <2> QED
    BY <2>2, <2>3
<1>9. InviteInv'
  BY <1>8 DEF InviteInv
<1>10. \A e \in Codes : CodeShape(invites'[e])
  BY <1>5 DEF AccountsInvariant, AccountTypes
<1> QED
  BY <1>4, <1>5, <1>9, <1>10, EnterDone

-----------------------------------------------------------------------------
(* The other steps, and the start.                                         *)

\* A step that leaves the requests, the registry and the zone alone.
LEMMA OutsideStep ==
    ASSUME Parameters, AccountsInvariant, req' = req, zone' = zone,
           registry' = registry, repo' = repo, ctx' = ctx, announced' = announced,
           provider' = provider, admitted' = admitted, blurred \subseteq blurred',
           plc' \in [Dids -> Names], \A e \in Dids \ blurred' : plc'[e] = plc[e],
           calls' \in Nat, calls <= calls',
           DOMAIN invites' = Codes, \A c \in Codes : CodeShape(invites'[c]),
           \A c \in Codes : /\ invites'[c].left \in Nat
                            /\ invites'[c].used \in Nat /\ invites[c].used <= invites'[c].used
                            /\ IF invites'[c].made THEN invites'[c].left + invites'[c].used = Uses
                               ELSE invites'[c].used = 0
    PROVE  AccountsInvariant'
<1>1. /\ AccountTypes /\ InviteInv /\ RowsInv /\ BornInv /\ AloneInv
      /\ LocalInv /\ NameInv /\ ZoneInv
  BY DEF AccountsInvariant, NameInv
<1>2. /\ \A t : t \in Active' <=> t \in Active
      /\ \A t \in Requests : req'[t] = req[t]
      /\ \A t \in Active : t \in Requests
  BY ActiveRequests
<1>3. calls \in Nat
  BY <1>1 DEF AccountTypes
<1>4. AccountTypes'
  <2>1. ASSUME NEW t \in Requests PROVE RequestShape(req[t])'
    <3>1. RequestShape(req'[t])
      BY <1>1, <2>1 DEF AccountTypes
    <3> QED
      BY <3>1 DEF RequestShape
  <2>2. ASSUME NEW t \in Active' PROVE RequestOk(req[t])'
    <3>1. RequestOk(req[t]) /\ req'[t] = req[t]
      BY <1>1, <1>2, <2>2 DEF AccountTypes
    <3>2. req[t].call \in 1..calls'
      BY <1>3, <3>1 DEF RequestOk
    <3>3. req[t].rec # None => req[t].rec[1] <= calls'
      BY <1>3, <3>1 DEF RequestOk, Ids
    <3> QED
      BY <3>1, <3>2, <3>3 DEF RequestOk, StageOk
  <2>3. \A c \in Codes : CodeShape(invites[c])'
    BY DEF CodeShape
  <2> QED
    BY <1>1, <2>1, <2>2, <2>3 DEF AccountTypes
<1>5. InviteInv'
  <2>1. \A c : Holders(c)' = Holders(c)
    BY HoldersSame DEF Pending
  <2>2. ASSUME NEW c \in Codes
        PROVE  IsFiniteSet(Holders(c)) /\ Cardinality(Holders(c)) <= invites'[c].used
    <3>1. /\ IsFiniteSet(Holders(c)) /\ Cardinality(Holders(c)) <= invites[c].used
          /\ invites[c].used \in Nat
      BY <1>1 DEF InviteInv
    <3>2. Cardinality(Holders(c)) \in Nat
      BY <3>1, FS_CardinalityType
    <3> QED
      BY <3>1, <3>2
  <2> QED
    BY <2>1, <2>2 DEF InviteInv
<1>6. RowsInv' /\ BornInv' /\ AloneInv'
  BY <1>1, <1>2 DEF RowsInv, BornInv, AloneInv
<1>7. LocalInv'
  <2>1. LocalAgree'
    BY <1>1, <1>2 DEF LocalInv, LocalAgree, AtRest
  <2>2. ASSUME NEW t \in Active', req'[t].did \notin blurred' PROVE LocalOk(req[t])'
    <3>1. LocalOk(req[t]) /\ req'[t] = req[t]
      BY <1>1, <1>2, <2>2 DEF LocalInv
    <3> QED
      BY <3>1 DEF LocalOk
  <2> QED
    BY <2>1, <2>2 DEF LocalInv
<1>8. NameInv'
  <2>1. ASSUME NEW t \in Active' PROVE Covered(req[t])'
    BY <1>1, <1>2, <2>1 DEF NameInv, Covered
  <2>2. MeetInv'
    BY <1>1, <1>2 DEF NameInv, MeetInv
  <2>3. ZoneInv'
    <3>1. \A z \in zone : z.id[1] \in Nat /\ z.id[1] <= calls
      BY <1>1 DEF ZoneInv, Ids
    <3>2. \A z \in zone : z.id[1] <= calls'
      BY <1>3, <3>1
    <3>3. /\ \A z \in zone' : RecordShape(z)
          /\ \A z \in zone' : z.id \in Ids /\ z.id[1] <= calls' /\ z.did \in Dids
          /\ \A y, z \in zone' : y.id = z.id => y = z
      BY <1>1, <3>2 DEF ZoneInv
    <3>4. \A t, u \in Active' : t # u => req'[t].call # req'[u].call
      BY <1>1, <1>2 DEF ZoneInv
    <3>5. ASSUME NEW t \in Active', req'[t].at \in Unwritten
          PROVE  /\ \A z \in zone' : z.id # NewId(req[t])'
                 /\ \A u \in Active' : req'[u].rec # NewId(req[t])'
      <4>1. NewId(req[t])' = NewId(req[t]) /\ req'[t] = req[t] /\ t \in Active
        BY <1>2, <3>5 DEF NewId
      <4> QED
        BY <1>1, <1>2, <3>5, <4>1 DEF ZoneInv
    <3>6. ASSUME NEW t \in Active', NEW z \in zone', z.id = req'[t].rec
          PROVE  /\ req'[t].at = "write" => z.name = req'[t].handle
                 /\ req'[t].at = "erase" => z.name = req'[t].old
      BY <1>1, <1>2, <3>6 DEF ZoneInv
    <3> QED
      BY <3>3, <3>4, <3>5, <3>6 DEF ZoneInv, RecordShape
  <2>4. ASSUME NEW t \in Active' PROVE req'[t].names \subseteq blurred' \/ Clean(req[t])'
    <3>1. t \in Active /\ req'[t] = req[t] /\ req[t].did \in Dids
      BY <1>2, <2>4, RequestFacts
    <3>2. req[t].names \subseteq blurred \/ Clean(req[t])
      BY <1>1, <3>1 DEF NameInv
    <3>3. Spared(t)
      BY <3>1, QuietNames DEF Spared
    <3> QED
      BY <3>1, <3>2, <3>3, SparedClean
  <2>5. ASSUME NEW d \in Dids, AtRest(d)' PROVE RestOk(d)'
    <3>1. AtRest(d)
      BY <1>2, <2>5 DEF AtRest
    <3>2. RestOk(d)
      BY <1>1, <3>1 DEF NameInv
    <3> QED
      BY <3>2 DEF RestOk, Aligned
  <2>6. ASSUME NEW n \in Handles \ blurred', \A t \in Active' : n \notin req'[t].names
        PROVE  Settled(n)'
    <3>1. n \in Handles \ blurred /\ \A t \in Active : n \notin req[t].names
      BY <1>2, <2>6
    <3>2. Settled(n)
      BY <1>1, <3>1 DEF NameInv
    <3> QED
      BY <3>2, QuietNames
  <2> QED
    BY <2>1, <2>2, <2>3, <2>4, <2>5, <2>6 DEF NameInv
<1> QED
  BY <1>4, <1>5, <1>6, <1>7, <1>8 DEF AccountsInvariant

LEMMA CodeStep ==
    ASSUME Parameters, AccountsInvariant, NEW c \in Codes,
           create_invite_code(c) \/ admin_disable_invite_codes(c)
    PROVE  AccountsInvariant'
<1>1. /\ UNCHANGED <<stores, zone, provider, req, faults, admitted, blurred>>
      /\ calls' = calls + 1
  BY DEF create_invite_code, admin_disable_invite_codes
<1>2. /\ DOMAIN invites = Codes /\ \A e \in Codes : CodeShape(invites[e])
      /\ \A e \in Codes : /\ invites[e].left \in Nat /\ invites[e].used \in Nat
                          /\ IF invites[e].made THEN invites[e].left + invites[e].used = Uses
                             ELSE invites[e].used = 0
      /\ calls \in Nat /\ Uses \in Nat
  BY DEF AccountsInvariant, AccountTypes, InviteInv, Parameters
<1>3. DOMAIN invites' = Codes /\ \A e \in Codes : e # c => invites'[e] = invites[e]
  BY <1>2 DEF create_invite_code, admin_disable_invite_codes
<1>4. /\ CodeShape(invites'[c]) /\ invites'[c].left \in Nat
      /\ invites'[c].used \in Nat /\ invites[c].used <= invites'[c].used
      /\ IF invites'[c].made THEN invites'[c].left + invites'[c].used = Uses
         ELSE invites'[c].used = 0
  <2>1. CASE create_invite_code(c)
    <3>1. invites'[c] = [made |-> TRUE, left |-> Uses, used |-> 0, disabled |-> FALSE]
          /\ invites[c].used = 0
      BY <1>2, <2>1 DEF create_invite_code, create_invite_codes
    <3> QED
      BY <1>2, <3>1 DEF CodeShape
  <2>2. CASE admin_disable_invite_codes(c)
    <3> SUFFICES ASSUME NEW i, i = invites[c], NEW j, j = invites'[c]
                 PROVE  /\ j \in [made : {j.made}, left : {j.left}, used : {j.used},
                                  disabled : {j.disabled}]
                        /\ j.made = i.made /\ j.left = i.left /\ j.used = i.used
      BY <1>2 DEF CodeShape
    <3>1. j = [i EXCEPT !.disabled = TRUE]
      BY <1>2, <2>2 DEF admin_disable_invite_codes, disable_invite_codes
    <3>2. i \in [made : {i.made}, left : {i.left}, used : {i.used}, disabled : {i.disabled}]
      BY <1>2 DEF CodeShape
    <3>3. j \in [made : {i.made}, left : {i.left}, used : {i.used}, disabled : {TRUE}]
      BY <3>1, <3>2
    <3>4. j.made = i.made /\ j.left = i.left /\ j.used = i.used /\ j.disabled = TRUE
      BY <3>3
    <3> QED
      BY <3>3, <3>4
  <2> QED
    BY <2>1, <2>2
<1>5. ASSUME NEW e \in Codes
      PROVE  /\ CodeShape(invites'[e]) /\ invites'[e].left \in Nat
             /\ invites'[e].used \in Nat /\ invites[e].used <= invites'[e].used
             /\ IF invites'[e].made THEN invites'[e].left + invites'[e].used = Uses
                ELSE invites'[e].used = 0
  <2>1. CASE e = c
    BY <1>4, <2>1
  <2>2. CASE e # c
    BY <1>2, <1>3, <2>2
  <2> QED
    BY <2>1, <2>2
<1>6. /\ registry' = registry /\ repo' = repo /\ ctx' = ctx /\ announced' = announced
      /\ plc' = plc /\ plc \in [Dids -> Names]
  BY <1>1, StoreTypes DEF stores
<1> QED
  BY <1>1, <1>2, <1>3, <1>5, <1>6, OutsideStep

LEMMA SubmitPlcStep ==
    ASSUME Parameters, AccountsInvariant, NEW d \in Dids, NEW h \in Handles,
           submit_plc_operation(d, h)
    PROVE  AccountsInvariant'
<1>1. /\ UNCHANGED <<registry, repo, ctx, announced, invites, zone, provider, req, faults, admitted>>
      /\ calls' = calls + 1 /\ plc' = [plc EXCEPT ![d] = h] /\ blurred' = blurred \cup {d}
  BY DEF submit_plc_operation
<1>2. /\ DOMAIN invites = Codes /\ \A e \in Codes : CodeShape(invites[e])
      /\ \A e \in Codes : /\ invites[e].left \in Nat /\ invites[e].used \in Nat
                          /\ invites[e].used <= invites[e].used
                          /\ IF invites[e].made THEN invites[e].left + invites[e].used = Uses
                             ELSE invites[e].used = 0
      /\ calls \in Nat
  BY DEF AccountsInvariant, AccountTypes, InviteInv
<1>3. plc' \in [Dids -> Names] /\ \A e \in Dids \ blurred' : plc'[e] = plc[e]
  BY <1>1, StoreTypes DEF Names
<1> QED
  BY <1>1, <1>2, <1>3, OutsideStep

LEMMA AccountsStutter ==
    ASSUME Parameters, AccountsInvariant, UNCHANGED accountsVars
    PROVE  AccountsInvariant'
<1>1. /\ UNCHANGED <<invites, zone, provider, req, calls, faults, admitted, blurred>>
      /\ registry' = registry /\ repo' = repo /\ ctx' = ctx /\ announced' = announced
      /\ plc' = plc /\ plc \in [Dids -> Names]
  BY StoreTypes DEF accountsVars, stores
<1>2. /\ DOMAIN invites = Codes /\ \A e \in Codes : CodeShape(invites[e])
      /\ \A e \in Codes : /\ invites[e].left \in Nat /\ invites[e].used \in Nat
                          /\ invites[e].used <= invites[e].used
                          /\ IF invites[e].made THEN invites[e].left + invites[e].used = Uses
                             ELSE invites[e].used = 0
      /\ calls \in Nat /\ calls <= calls
  BY DEF AccountsInvariant, AccountTypes, InviteInv
<1> QED
  BY <1>1, <1>2, OutsideStep


\* The host dies: nothing is under way, and what was is blurred.
LEMMA RestartStep ==
    ASSUME Parameters, AccountsInvariant, Restart
    PROVE  AccountsInvariant'
<1>1. /\ AccountTypes /\ InviteInv /\ RowsInv /\ BornInv /\ LocalInv
      /\ NameInv /\ ZoneInv
  BY DEF AccountsInvariant, NameInv
<1>2. /\ registry' = registry /\ repo' = repo /\ plc' = plc /\ announced' = announced
      /\ invites' = invites /\ zone' = zone /\ provider' = provider /\ calls' = calls
      /\ admitted' = admitted
      /\ req' = [r \in Requests |-> Idle] /\ ctx' = [d \in Dids |-> registry[d]]
  BY DEF Restart
<1>3. /\ blurred \subseteq blurred'
      /\ \A r \in Active : req[r].did \in blurred' /\ req[r].names \subseteq blurred'
  BY DEF Restart
<1>4. Active' = {} /\ Pending' = {}
  BY <1>2, IdleIsIdle DEF Active, Pending
<1>5. AccountTypes'
  <2>1. ctx' \in [Dids -> Names]
    BY <1>1, <1>2 DEF AccountTypes
  <2>2. ASSUME NEW r \in Requests PROVE RequestShape(req[r])'
    <3>1. RequestShape(req'[r])
      BY <1>2, IdleIsIdle
    <3> QED
      BY <3>1 DEF RequestShape
  <2>3. DOMAIN req' = Requests
    BY <1>2
  <2>4. \A c \in Codes : CodeShape(invites[c])'
    BY <1>1, <1>2 DEF AccountTypes, CodeShape
  <2> QED
    BY <1>1, <1>2, <1>4, <2>1, <2>2, <2>3, <2>4 DEF AccountTypes
<1>6. InviteInv'
  <2>1. ASSUME NEW c \in Codes
        PROVE  /\ IsFiniteSet(Holders(c)') /\ Cardinality(Holders(c)') <= invites[c].used
    <3>1. Holders(c)' \subseteq Holders(c)
      BY <1>2, <1>4 DEF Holders
    <3>2. /\ IsFiniteSet(Holders(c)) /\ Cardinality(Holders(c)) <= invites[c].used
          /\ invites[c].used \in Nat
      BY <1>1 DEF InviteInv
    <3>3. /\ IsFiniteSet(Holders(c)') /\ Cardinality(Holders(c)') <= Cardinality(Holders(c))
          /\ Cardinality(Holders(c)') \in Nat /\ Cardinality(Holders(c)) \in Nat
      BY <3>1, <3>2, FS_Subset, FS_CardinalityType
    <3> QED
      BY <3>2, <3>3
  <2> QED
    BY <1>1, <1>2, <2>1 DEF InviteInv
<1>7. RowsInv' /\ AloneInv'
  BY <1>1, <1>2, <1>4 DEF RowsInv, AloneInv
<1>8. BornInv'
  BY <1>1, <1>2, <1>4 DEF BornInv
<1>9. ASSUME NEW d \in Dids, d \notin blurred' PROVE AtRest(d) /\ d \notin blurred
  BY <1>3, <1>9 DEF AtRest
<1>10. LocalInv'
  <2>1. ASSUME NEW d \in Dids, registry'[d] # None, d \notin blurred'
        PROVE  repo'[d] = registry'[d] /\ ctx'[d] = registry'[d]
    BY <1>1, <1>2, <1>9, <2>1 DEF LocalInv, LocalAgree
  <2> QED
    BY <1>4, <2>1 DEF LocalInv, LocalAgree
<1>11. NameInv'
  <2>1. MeetInv'
    BY <1>4 DEF MeetInv
  <2>2. ZoneInv'
    <3>1. /\ \A z \in zone' : RecordShape(z)
          /\ \A z \in zone' : z.id \in Ids /\ z.id[1] <= calls' /\ z.did \in Dids
          /\ \A y, z \in zone' : y.id = z.id => y = z
      BY <1>1, <1>2 DEF ZoneInv
    <3> QED
      BY <1>4, <3>1 DEF ZoneInv, RecordShape
  <2>3. ASSUME NEW d \in Dids PROVE RestOk(d)'
    <3>1. Aligned(d)'
      BY <1>2 DEF Aligned
    <3>2. ASSUME d \notin blurred', registry'[d] \notin blurred' \cup {None}
          PROVE  (d \in PlcDids => plc'[d] = registry'[d]) /\ announced'[d] = registry'[d]
      <4>1. RestOk(d) /\ d \notin blurred
        BY <1>1, <1>9, <3>2 DEF NameInv
      <4> QED
        BY <1>2, <1>3, <3>2, <4>1 DEF RestOk
    <3> QED
      BY <3>1, <3>2 DEF RestOk
  <2>4. ASSUME NEW n \in Handles \ blurred' PROVE Settled(n)'
    <3>1. n \in Handles \ blurred /\ \A r \in Active : n \notin req[r].names
      BY <1>3, <2>4
    <3>2. Settled(n)
      BY <1>1, <3>1 DEF NameInv
    <3> QED
      BY <1>2, <3>2, QuietNames
  <2> QED
    BY <1>4, <2>1, <2>2, <2>3, <2>4 DEF NameInv
<1> QED
  BY <1>5, <1>6, <1>7, <1>8, <1>10, <1>11 DEF AccountsInvariant

\* The host before its first request.
LEMMA AccountsStart ==
    ASSUME Parameters, AccountsInit PROVE AccountsInvariant
<1>1. /\ registry \in [Dids -> Names]
      /\ \A d \in Dids : registry[d] # None <=> d \in Residents
      /\ \A d, e \in Residents : d # e => registry[d] # registry[e]
      /\ repo = registry /\ ctx = registry /\ announced = registry
      /\ plc = [d \in Dids |-> IF d \in PlcDids THEN registry[d] ELSE None]
      /\ invites = [c \in Codes |-> [made |-> FALSE, left |-> 0, used |-> 0, disabled |-> FALSE]]
      /\ zone = {[id |-> <<0, d>>, name |-> registry[d], did |-> d] : d \in Residents}
      /\ provider \in {"records", "rrset"}
      /\ req = [r \in Requests |-> Idle]
      /\ calls = 0 /\ admitted = [d \in Dids |-> None] /\ blurred = {}
  BY DEF AccountsInit, Names
<1>2. /\ Residents \subseteq Dids /\ None \notin Handles /\ None \notin Codes
      /\ Uses \in Nat
  BY DEF Parameters
<1>3. Active = {} /\ Pending = {}
  BY <1>1, IdleIsIdle DEF Active, Pending
<1>4. AccountTypes
  <2>1. plc \in [Dids -> Names]
    BY <1>1 DEF Names
  <2>2. ASSUME NEW r \in Requests PROVE RequestShape(req[r])
    BY <1>1, IdleIsIdle
  <2>3. ASSUME NEW c \in Codes PROVE CodeShape(invites[c])
    BY <1>1 DEF CodeShape
  <2>4. DOMAIN req = Requests /\ DOMAIN invites = Codes /\ DOMAIN admitted = Dids
    BY <1>1
  <2> QED
    BY <1>1, <1>3, <2>1, <2>2, <2>3, <2>4 DEF AccountTypes
<1>5. InviteInv
  <2>1. ASSUME NEW c \in Codes
        PROVE  IsFiniteSet(Holders(c)) /\ Cardinality(Holders(c)) = 0
    <3>1. Holders(c) = {}
      BY <1>1, <1>2, <1>3 DEF Holders
    <3> QED
      BY <3>1, FS_EmptySet
  <2>2. ASSUME NEW c \in Codes
        PROVE  invites[c].left = 0 /\ invites[c].used = 0 /\ ~invites[c].made
    BY <1>1
  <2> QED
    BY <2>1, <2>2 DEF InviteInv
<1>6. RowsInv
  BY <1>1 DEF RowsInv
<1>7. BornInv /\ AloneInv
  BY <1>1, <1>3 DEF BornInv, AloneInv
<1>8. LocalInv
  BY <1>1, <1>3 DEF LocalInv, LocalAgree
<1>9. NameInv
  <2>1. MeetInv
    BY <1>3 DEF MeetInv
  <2>2. ASSUME NEW z \in zone
        PROVE  /\ RecordShape(z) /\ z.did \in Residents
               /\ z = [id |-> <<0, z.did>>, name |-> registry[z.did], did |-> z.did]
    <3>1. PICK d \in Residents : z = [id |-> <<0, d>>, name |-> registry[d], did |-> d]
      BY <1>1
    <3>2. z.did = d /\ z.id = <<0, d>> /\ z.name = registry[d]
      BY <3>1
    <3> QED
      BY <3>1, <3>2 DEF RecordShape
  <2>3. ZoneInv
    <3>1. ASSUME NEW z \in zone
          PROVE  RecordShape(z) /\ z.id \in Ids /\ z.id[1] <= calls /\ z.did \in Dids
      <4>1. z.id = <<0, z.did>> /\ z.did \in Dids
        BY <1>2, <2>2
      <4> QED
        BY <1>1, <2>2, <4>1 DEF Ids
    <3>2. ASSUME NEW y \in zone, NEW z \in zone, y.id = z.id PROVE y = z
      <4>1. y.id = <<0, y.did>> /\ z.id = <<0, z.did>>
        BY <2>2
      <4>2. \A a, b : <<0, a>> = <<0, b>> => a = b
        OBVIOUS
      <4>3. y.did = z.did
        BY <3>2, <4>1, <4>2
      <4> QED
        BY <2>2, <4>3
    <3> QED
      BY <1>3, <3>1, <3>2 DEF ZoneInv
  <2>4. ASSUME NEW d \in Dids PROVE RestOk(d)
    BY <1>1 DEF RestOk, Aligned
  <2>5. ASSUME NEW n \in Handles PROVE Settled(n)
    <3>1. CASE Owned(n)
      <4>1. PICK d \in Dids : registry[d] = n
        BY <3>1 DEF Owned
      <4>2. d \in Residents
        BY <1>1, <1>2, <4>1
      <4> DEFINE w == [id |-> <<0, d>>, name |-> registry[d], did |-> d]
      <4>3. w \in zone /\ w.name = n /\ w.did = d
        BY <1>1, <4>1, <4>2
      <4>4. ASSUME NEW z \in At(n) PROVE z = w
        <5>1. z \in zone /\ z.name = n
          BY <4>4 DEF At
        <5>2. z.did \in Residents /\ registry[z.did] = n
          BY <2>2, <5>1
        <5>3. z.did = d
          BY <1>1, <4>1, <4>2, <5>2
        <5> QED
          BY <2>2, <5>1, <5>3
      <4>5. At(n) = {w}
        BY <4>3, <4>4 DEF At
      <4>6. Single(n, d)
        BY <4>3, <4>5 DEF Single
      <4> QED
        BY <4>1, <4>6 DEF Settled
    <3>2. CASE ~Owned(n)
      <4>1. ASSUME NEW z \in At(n) PROVE FALSE
        <5>1. z.did \in Residents /\ registry[z.did] = n
          BY <2>2, <4>1 DEF At
        <5> QED
          BY <1>2, <3>2, <5>1 DEF Owned
      <4>2. At(n) = {}
        BY <4>1
      <4> QED
        BY <3>2, <4>2 DEF Settled
    <3> QED
      BY <3>1, <3>2
  <2> QED
    BY <1>3, <2>1, <2>3, <2>4, <2>5 DEF NameInv
<1> QED
  BY <1>4, <1>5, <1>6, <1>7, <1>8, <1>9 DEF AccountsInvariant


LEMMA AccountsStep ==
    ASSUME Parameters, AccountsInvariant, AccountsNext PROVE AccountsInvariant'
<1>1. ASSUME NEW c \in Codes, create_invite_code(c) \/ admin_disable_invite_codes(c)
      PROVE  AccountsInvariant'
  BY <1>1, CodeStep
<1>2. ASSUME NEW d \in Dids, NEW h \in Handles, submit_plc_operation(d, h)
      PROVE  AccountsInvariant'
  BY <1>2, SubmitPlcStep
<1>3. ASSUME NEW r \in Requests, NEW d \in Dids, NEW h \in Handles, NEW c \in Codes,
             create_account(r, d, h, c)
      PROVE  AccountsInvariant'
  BY <1>3, CreateEnters
<1>4. ASSUME NEW r \in Requests, NEW d \in Dids, NEW h \in Handles,
             update_handle(r, d, h) \/ admin_update_account_handle(r, d, h)
      PROVE  AccountsInvariant'
  BY <1>4, RenameEnters
<1>5. ASSUME NEW r \in Requests, NEW d \in Dids,
             delete_account(r, d) \/ admin_delete_account(r, d)
      PROVE  AccountsInvariant'
  BY <1>5, DeleteEnters
<1>6. ASSUME NEW r \in Requests,
             \/ SignupRefused(r) \/ SignupChecked(r) \/ mint_plc_did(r)
             \/ context_open(r) \/ ProvisionFails(r) \/ add_with_email(r)
             \/ account_activation(r)
      PROVE  AccountsInvariant'
  BY <1>6, SignupRefusedStep, SignupCheckedStep, MintStep, ContextOpenStep,
     ProvisionFailsStep, AddWithEmailStep, AccountActivationStep
<1>7. ASSUME NEW r \in Requests,
             \/ plc_update_handle(r) \/ PlcFails(r) \/ set_handle(r)
             \/ registry_update_handle(r) \/ SetContext(r)
             \/ sequencer_identity(r) \/ registry_remove(r)
             \/ AnnounceDeletion(r)
      PROVE  AccountsInvariant'
  BY <1>7, PlcUpdateStep, PlcFailsStep, SetHandleStep, RegistryUpdateStep, SetContextStep,
     SequencerIdentityStep, RegistryRemoveStep, AnnounceDeletionStep
<1>8. ASSUME NEW r \in Requests,
             \/ handle_dns_publish(r) \/ PublishWrite(r)
             \/ handle_dns_retract(r) \/ RetractWrite(r) \/ DnsFails(r)
      PROVE  AccountsInvariant'
  BY <1>8, DnsPublishStep, PublishWriteStep, DnsRetractStep, RetractWriteStep, DnsFailsStep
<1> QED
  BY <1>1, <1>2, <1>3, <1>4, <1>5, <1>6, <1>7, <1>8, RestartStep DEF AccountsNext

LEMMA AccountsInvariantHolds == AccountsSpec => []AccountsInvariant
<1>1. AccountsInit => AccountsInvariant
  BY AccountsStart, AccountsAssumption
<1>2. AccountsInvariant /\ [AccountsNext]_accountsVars => AccountsInvariant'
  BY AccountsStep, AccountsStutter, AccountsAssumption
<1> QED
  BY <1>1, <1>2, PTL DEF AccountsSpec

\* Every record of the zone is at a handle.
ZoneNamed == \A z \in zone : z.name \in Handles

LEMMA ZoneNamedNext ==
    ASSUME Parameters, AccountsInvariant, ZoneNamed, [AccountsNext]_accountsVars
    PROVE  ZoneNamed'
<1>1. ASSUME NEW s \in Requests, PublishWrite(s) PROVE ZoneNamed'
  <2>1. req[s].at = "write" /\ zone' = Published(s)
    BY <1>1 DEF PublishWrite
  <2>2. s \in Active
    BY <2>1, ActiveRequests
  <2>3. req[s].handle \in Handles
    BY <2>1, <2>2, RequestFacts DEF StageOk
  <2>4. zone' = zone \/ \E S, w : Rewrites(S, w, req[s])
    BY <2>1, <2>2, PublishedRewrites
  <2> QED
    BY <2>3, <2>4 DEF ZoneNamed, Rewrites
<1>2. ASSUME NEW s \in Requests, RetractWrite(s) PROVE ZoneNamed'
  <2>1. zone' \subseteq zone
    BY <1>2 DEF RetractWrite, EraseRRset, EraseRecord
  <2> QED
    BY <2>1 DEF ZoneNamed
<1>3. ASSUME zone' = zone PROVE ZoneNamed'
  BY <1>3 DEF ZoneNamed
<1>4. ASSUME NEW r \in Requests,
             \/ SignupRefused(r) \/ SignupChecked(r) \/ mint_plc_did(r)
             \/ context_open(r) \/ ProvisionFails(r) \/ add_with_email(r)
             \/ account_activation(r)
             \/ plc_update_handle(r) \/ PlcFails(r) \/ set_handle(r)
             \/ registry_update_handle(r) \/ SetContext(r)
             \/ sequencer_identity(r) \/ registry_remove(r)
             \/ AnnounceDeletion(r)
             \/ handle_dns_publish(r) \/ handle_dns_retract(r) \/ DnsFails(r)
      PROVE  zone' = zone
  BY <1>4 DEF SignupRefused, SignupChecked, mint_plc_did, context_open,
     ProvisionFails, add_with_email, account_activation,
     plc_update_handle, PlcFails, set_handle, registry_update_handle,
     SetContext, sequencer_identity, registry_remove, AnnounceDeletion,
     handle_dns_publish, handle_dns_retract, DnsFails
<1>5. ASSUME NEW r \in Requests, NEW d \in Dids, NEW h \in Handles,
             \/ \E c \in Codes : create_account(r, d, h, c)
             \/ update_handle(r, d, h) \/ admin_update_account_handle(r, d, h)
             \/ submit_plc_operation(d, h)
      PROVE  zone' = zone
  BY <1>5 DEF create_account, update_handle, admin_update_account_handle,
     submit_plc_operation
<1>6. ASSUME NEW r \in Requests, NEW d \in Dids,
             delete_account(r, d) \/ admin_delete_account(r, d)
      PROVE  zone' = zone
  BY <1>6 DEF delete_account, admin_delete_account
<1>7. ASSUME NEW c \in Codes, create_invite_code(c) \/ admin_disable_invite_codes(c)
      PROVE  zone' = zone
  BY <1>7 DEF create_invite_code, admin_disable_invite_codes
<1>8. Restart \/ UNCHANGED accountsVars => zone' = zone
  BY DEF Restart, accountsVars
<1>9. \A d \in Dids, h \in Handles : submit_plc_operation(d, h) => zone' = zone
  BY DEF submit_plc_operation
<1> QED
  BY <1>1, <1>2, <1>3, <1>4, <1>5, <1>6, <1>7, <1>8, <1>9 DEF AccountsNext

LEMMA ZoneNamedHolds == AccountsSpec => []ZoneNamed
<1>1. AccountsInit => ZoneNamed
  <2> SUFFICES ASSUME AccountsInit, NEW z \in zone PROVE z.name \in Handles
    BY DEF ZoneNamed
  <2>1. PICK d \in Residents : z = [id |-> <<0, d>>, name |-> registry[d], did |-> d]
    BY DEF AccountsInit
  <2>2. z.name = registry[d] /\ d \in Dids
    BY <2>1, AccountsAssumption DEF Parameters
  <2> QED
    BY <2>2 DEF AccountsInit
<1>2. AccountsInvariant /\ ZoneNamed /\ [AccountsNext]_accountsVars => ZoneNamed'
  BY ZoneNamedNext, AccountsAssumption
<1> QED
  BY <1>1, <1>2, AccountsInvariantHolds, PTL DEF AccountsSpec

\* A name that is in a row is in the zone for its account, unless a request is on the account.
LEMMA NameOfRest ==
    ASSUME AccountsInvariant, NEW d \in Dids, AtRest(d),
           registry[d] \in Handles \ blurred, registry[d] # None
    PROVE  Single(registry[d], d)
<1>1. RowsInv /\ NameInv /\ AccountTypes
  BY DEF AccountsInvariant
<1>2. Settled(registry[d]) => Single(registry[d], d)
  BY <1>1 DEF Settled, Owned, RowsInv
<1>3. ASSUME NEW r \in Active, registry[d] \in req[r].names PROVE Settled(registry[d])
  <2> SUFFICES ASSUME NEW q, q = req[r] PROVE Settled(registry[d])
    OBVIOUS
  <2>1. Clean(q) /\ q.did # d /\ q.did \in Dids
    BY <1>1, <1>3 DEF NameInv, AtRest, AccountTypes, RequestOk
  <2>2. CASE q.at \in Unregistered
    BY <1>3, <2>1, <2>2 DEF Clean, SignupOk
  <2>3. CASE q.at \notin Unregistered /\ Before(q)
    BY <1>3, <2>1, <2>3 DEF Clean, BeforeOk
  <2>4. CASE q.at \notin Unregistered /\ ~Before(q)
    <3>1. AfterOk(q)
      BY <2>1, <2>4 DEF Clean
    <3>2. registry[d] # q.handle
      BY <1>1, <2>1, <3>1 DEF AfterOk, RowsInv
    <3>3. ~Owned(registry[d])
      BY <1>3, <3>1, <3>2 DEF AfterOk, OldNameOk
    <3> QED
      BY <3>3 DEF Owned
  <2> QED
    BY <2>2, <2>3, <2>4
<1> QED
  BY <1>1, <1>2, <1>3 DEF NameInv

\* An invite code lets in as many accounts as it was made for, however many sign-ups
\* race for it or fail half way (consume_invite_code, add_with_email).
THEOREM InvitesAreAccounted == AccountsSpec => []InvitesAccounted
<1>1. AccountsInvariant => InvitesAccounted
  <2> SUFFICES ASSUME AccountsInvariant, NEW c \in Codes
               PROVE  /\ invites[c].made => invites[c].left + invites[c].used = Uses
                      /\ Cardinality({d \in Dids : admitted[d] = c}) <= invites[c].used
    BY DEF InvitesAccounted
  <2>1. /\ IsFiniteSet(Holders(c)) /\ Cardinality(Holders(c)) <= invites[c].used
        /\ invites[c].used \in Nat
        /\ invites[c].made => invites[c].left + invites[c].used = Uses
    BY DEF AccountsInvariant, InviteInv
  <2> SUFFICES ASSUME NEW S, S = {d \in Dids : admitted[d] = c}
               PROVE  Cardinality(S) <= invites[c].used
    BY <2>1
  <2>2. S \subseteq Holders(c)
    BY DEF Holders
  <2>3. /\ IsFiniteSet(S) /\ Cardinality(S) <= Cardinality(Holders(c))
        /\ Cardinality(S) \in Nat /\ Cardinality(Holders(c)) \in Nat
    BY <2>1, <2>2, FS_Subset, FS_CardinalityType
  <2> QED
    BY <2>1, <2>3
<1> QED
  BY <1>1, AccountsInvariantHolds, PTL

\* The registry, the repository and the open context give an account one handle once its
\* requests are over, also when the registry refused the new one half way through
\* (update_handle, admin_update_account_handle).
THEOREM HandlesAgreeLocally == AccountsSpec => []LocalAgree
<1>1. AccountsInvariant => LocalAgree
  BY DEF AccountsInvariant, LocalInv
<1> QED
  BY <1>1, AccountsInvariantHolds, PTL

\* A handle resolves both ways: document, firehose and zone say what the registry says,
\* whatever sign-ups, renames, deletions and restarts went before (handle_dns_publish,
\* handle_dns_retract, plc_update_handle, metalbear_sequencer_identity).
THEOREM HandlesResolveBack == AccountsSpec => []ResolvesBack
<1>1. ASSUME AccountsInvariant, ZoneNamed PROVE ResolvesBack
  <2>1. /\ AccountTypes /\ RowsInv /\ NameInv /\ None \notin Handles
    BY <1>1, AccountsAssumption DEF AccountsInvariant, Parameters
  <2>2. ASSUME NEW d \in Dids, registry[d] # None, AtRest(d),
               {d, registry[d]} \cap blurred = {}
        PROVE  /\ d \in PlcDids => plc[d] = registry[d]
               /\ announced[d] = registry[d]
               /\ Cardinality(At(registry[d])) = 1
               /\ \A z \in At(registry[d]) : z.did = d
    <3>1. RestOk(d) /\ registry[d] \in Handles
      BY <2>1, <2>2 DEF NameInv, AccountTypes, Names
    <3>2. (d \in PlcDids => plc[d] = registry[d]) /\ announced[d] = registry[d]
      BY <2>2, <3>1 DEF RestOk
    <3>3. Single(registry[d], d)
      BY <2>1, <2>2, <3>1, NameOfRest, <1>1
    <3>4. PICK z \in At(registry[d]) : At(registry[d]) = {z} /\ z.did = d
      BY <3>3 DEF Single
    <3>5. Cardinality(At(registry[d])) = 1
      BY <3>4, FS_Singleton
    <3> QED
      BY <3>2, <3>4, <3>5
  <2>3. ASSUME Active = {}, NEW z \in zone, z.name \notin blurred
        PROVE  registry[z.did] = z.name
    <3>1. Settled(z.name)
      BY <1>1, <2>1, <2>3 DEF NameInv, ZoneNamed
    <3>2. z \in At(z.name)
      BY DEF At
    <3> QED
      BY <3>1, <3>2 DEF Settled, Single
  <2> QED
    BY <2>2, <2>3 DEF ResolvesBack
<1> QED
  BY <1>1, AccountsInvariantHolds, ZoneNamedHolds, PTL

=============================================================================
