----------------------------- MODULE AccountsInv -----------------------------
(***************************************************************************)
(* The inductive invariant behind the properties of Accounts, proved in    *)
(* LifecycleProofs.                                                        *)
(*                                                                         *)
(* A request is followed from stage to stage: what it has established for  *)
(* the names it works on before each of its steps.  That is kept as long   *)
(* as no other request works on its account or on one of its names; once   *)
(* one does, or a step fails, all its names are in `blurred', and they     *)
(* cover whatever it may still write.                                      *)
(***************************************************************************)
EXTENDS Accounts

Names == Handles \cup {None}

Ids == Nat \X Dids

\* The shapes of the records.
RequestShape(q) ==
    q \in [at : {q.at}, kind : {q.kind}, did : {q.did}, handle : {q.handle}, old : {q.old},
           rec : {q.rec}, code : {q.code}, call : {q.call}, names : {q.names}]

RecordShape(z) == z \in [id : {z.id}, name : {z.name}, did : {z.did}]

CodeShape(c) == c \in [made : {c.made}, left : {c.left}, used : {c.used}, disabled : {c.disabled}]

\* The stages of each kind of request, in their order.
StageOk(q) ==
    \/ q.kind = "signup"
         /\ q.at \in {"check", "mint", "open", "register", "activate", "publish", "write"}
    \/ q.kind = "rename"
         /\ q.at \in {"plc", "repo", "registry", "publish", "write", "retract", "erase",
                      "announce"}
    \/ q.kind = "admin_rename"
         /\ q.at \in {"plc", "registry", "context", "publish", "write", "retract", "erase",
                      "announce"}
    \/ q.kind = "delete" /\ q.at \in {"remove", "goodbye", "retract", "erase"}
    \/ q.kind = "admin_delete" /\ q.at \in {"goodbye", "remove", "retract", "erase"}

\* A request under way.
RequestOk(q) ==
    /\ StageOk(q)
    /\ q.did \in Dids /\ q.names \subseteq Handles
    /\ q.old \in Names /\ q.rec \in Ids \cup {None} /\ q.call \in 1..calls
    /\ q.rec # None => q.rec[1] <= calls
    /\ IF q.kind \in {"delete", "admin_delete"} THEN q.handle = None
       ELSE q.handle \in Handles /\ q.handle \in q.names
    /\ q.kind = "signup" => q.code \in Codes /\ q.old = None

AccountTypes ==
    /\ registry \in [Dids -> Names] /\ repo \in [Dids -> Names] /\ ctx \in [Dids -> Names]
    /\ plc \in [Dids -> Names] /\ announced \in [Dids -> Names]
    /\ calls \in Nat /\ provider \in {"records", "rrset"}
    /\ DOMAIN req = Requests /\ \A r \in Requests : RequestShape(req[r])
    /\ DOMAIN invites = Codes /\ \A c \in Codes : CodeShape(invites[c])
    /\ DOMAIN admitted = Dids
    /\ \A r \in Active : RequestOk(req[r])

-----------------------------------------------------------------------------
(* Invite codes.                                                           *)

\* Sign-ups that have used their code and have not registered their account.
Pending == {r \in Requests : req[r].at \in {"check", "mint", "open", "register"}}

\* The accounts that a use of the code is for.
Holders(c) ==
    {d \in Dids : admitted[d] = c} \cup {req[r].did : r \in {q \in Pending : req[q].code = c}}

InviteInv ==
    \A c \in Codes :
        /\ invites[c].left \in Nat /\ invites[c].used \in Nat
        /\ IF invites[c].made THEN invites[c].left + invites[c].used = Uses
           ELSE invites[c].used = 0
        /\ IsFiniteSet(Holders(c)) /\ Cardinality(Holders(c)) <= invites[c].used

-----------------------------------------------------------------------------
(* The registry, the repository and the context.                           *)

\* A handle is in one row.
RowsInv == \A d, e \in Dids : registry[d] # None /\ registry[d] = registry[e] => d = e

\* The stages of a sign-up before the account has its row.
Unregistered == {"check", "mint", "open", "register"}

\* An account with a row, or with a request on it, has a repository and a context.
BornInv ==
    /\ \A d \in Dids : registry[d] # None => ctx[d] # None
    /\ \A d \in Dids : ctx[d] # None => repo[d] # None
    /\ \A r \in Active :
          IF req[r].at \in Unregistered
          THEN /\ registry[req[r].did] = None /\ ctx[req[r].did] = None
               /\ req[r].at = "register" => repo[req[r].did] = req[r].handle
          ELSE ctx[req[r].did] # None
    /\ \A r \in Active : req[r].kind = "rename" /\ req[r].at = "registry" => req[r].old # None

\* Two requests on one account blur it.
AloneInv ==
    \A r, s \in Active : r # s /\ req[r].did = req[s].did =>
        req[r].did \in blurred /\ {req[r].at, req[s].at} \cap Unregistered = {}

\* How far the request has carried the account's handle.
LocalOk(q) ==
    LET d == q.did
        same == repo[d] = registry[d] /\ ctx[d] = registry[d]
    IN  registry[d] # None =>
          /\ q.kind \in {"delete", "admin_delete"} => same
          /\ q.kind = "signup" => same
          /\ q.kind = "rename" =>
               CASE q.at \in {"plc", "repo"} -> same
                 [] q.at = "registry" -> repo[d] = q.handle /\ ctx[d] = registry[d] /\ q.old = ctx[d]
                 [] OTHER -> repo[d] = q.handle /\ registry[d] = q.handle
          /\ q.kind = "admin_rename" =>
               CASE q.at \in {"plc", "registry"} -> same
                 [] q.at = "context" -> registry[d] = q.handle
                 [] OTHER -> same /\ registry[d] = q.handle

LocalInv ==
    /\ LocalAgree
    /\ \A r \in Active : req[r].did \notin blurred => LocalOk(req[r])

-----------------------------------------------------------------------------
(* The names.                                                              *)

\* What a request may write or retract is among its names, or is blurred.
Covered(q) ==
    {registry[q.did], ctx[q.did], q.old} \subseteq q.names \cup blurred \cup {None}

\* Requests that work on one account or one name blur all their names.
MeetInv ==
    \A r, s \in Active :
        r # s /\ (req[r].did = req[s].did \/ req[r].names \cap req[s].names # {}) =>
            req[r].names \subseteq blurred

\* Record ids are drawn once, and a record keeps its name.
NewId(q) == <<q.call, q.did>>

Unwritten == Unregistered \cup
    {"activate", "plc", "repo", "registry", "context", "publish", "write"}

ZoneInv ==
    /\ \A z \in zone : RecordShape(z)
    /\ \A z \in zone : z.id \in Ids /\ z.id[1] <= calls /\ z.did \in Dids
    /\ \A y, z \in zone : y.id = z.id => y = z
    /\ \A r, s \in Active : r # s => req[r].call # req[s].call
    /\ \A r \in Active : req[r].at \in Unwritten =>
          /\ \A z \in zone : z.id # NewId(req[r])
          /\ \A s \in Active : req[s].rec # NewId(req[r])
    /\ \A r \in Active : \A z \in zone : z.id = req[r].rec =>
          /\ req[r].at = "write" => z.name = req[r].handle
          /\ req[r].at = "erase" => z.name = req[r].old

Owned(n) == \E d \in Dids : registry[d] = n

\* The zone has one record at n, of d.
Single(n, d) == \E z \in At(n) : At(n) = {z} /\ z.did = d

\* The zone says of a name what the registry says.
Settled(n) ==
    \/ \E d \in Dids : registry[d] = n /\ Single(n, d)
    \/ At(n) = {} /\ ~Owned(n)

\* The context has the registry's handle, or nothing is said of either.
Aligned(d) ==
    registry[d] # None => ctx[d] = registry[d] \/ {ctx[d], registry[d]} \subseteq blurred

\* The stages before the registry's row changes.
Before(q) ==
    \/ q.kind = "rename" /\ q.at \in {"plc", "repo", "registry"}
    \/ q.kind = "admin_rename" /\ q.at \in {"plc", "registry"}
    \/ q.kind = "delete" /\ q.at = "remove"
    \/ q.kind = "admin_delete" /\ q.at \in {"goodbye", "remove"}

\* What a request knows of its names before the row changes.
BeforeOk(q) ==
    /\ registry[q.did] # None /\ Aligned(q.did)
    /\ \A n \in q.names \ blurred : Settled(n) /\ n \in {q.handle, registry[q.did]}
    /\ q.handle # None => ~TakenByOther(q.did, q.handle)
    /\ q.kind = "rename" /\ q.handle \notin blurred => q.handle # ctx[q.did]
    /\ q.kind = "rename" /\ q.at = "registry" => q.old = ctx[q.did]
    /\ q.kind = "admin_delete" => q.old = registry[q.did]

\* And of a sign-up's.
SignupOk(q) ==
    /\ q.names = {q.handle}
    /\ q.handle \notin blurred => Settled(q.handle)
    /\ q.at # "check" => ~TakenByOther(q.did, q.handle)

\* The name to be retracted, once the row has changed.
Leaving(q) ==
    IF q.at = "context" \/ (q.kind = "delete" /\ q.at = "goodbye") THEN ctx[q.did] ELSE q.old

\* The new name, once the row has it.
NewNameOk(q) ==
    CASE q.at \in {"activate", "context", "publish"} ->
           IF Leaving(q) = q.handle THEN q.kind = "admin_rename" /\ Single(q.handle, q.did)
           ELSE At(q.handle) = {}
      [] q.at = "write" -> At(q.handle) = {} /\ q.rec = None /\ q.old # q.handle
      [] q.at \in {"retract", "erase"} -> Single(q.handle, q.did) /\ q.old # q.handle
      [] OTHER -> Single(q.handle, q.did)

\* The old name, once the row has left it.
OldNameOk(q, n) ==
    /\ ~Owned(n)
    /\ CASE q.at = "erase" -> Single(n, q.did) /\ \A z \in At(n) : z.id = q.rec
         [] q.at = "announce" -> At(n) = {}
         [] OTHER -> Single(n, q.did)

AfterOk(q) ==
    /\ registry[q.did] = q.handle
    /\ q.kind = "signup" \/ (q.kind = "admin_rename" /\ q.at # "context") =>
          ctx[q.did] = q.handle
    /\ \A n \in q.names \ blurred : n \in {q.handle, Leaving(q)}
    /\ q.handle \in Handles \ blurred => NewNameOk(q)
    /\ \A n \in q.names \ (blurred \cup {q.handle}) : OldNameOk(q, n)

\* What the directory and the firehose have been told.
ToldOk(q) ==
    LET d == q.did IN
    /\ d \in PlcDids =>
         IF q.at = "plc" \/ q.kind \in {"delete", "admin_delete"}
         THEN registry[d] \notin blurred \cup {None} => plc[d] = registry[d]
         ELSE q.at \notin {"check", "mint"} => plc[d] = q.handle
    /\ registry[d] \notin blurred \cup {None} =>
         /\ Before(q) /\ ~(q.kind = "admin_delete" /\ q.at = "remove") => announced[d] = registry[d]
         /\ q.kind = "signup" /\ q.at \in {"publish", "write"} => announced[d] = registry[d]

Clean(q) ==
    /\ IF q.at \in Unregistered THEN SignupOk(q)
       ELSE IF Before(q) THEN BeforeOk(q) ELSE AfterOk(q)
    /\ q.did \notin blurred => ToldOk(q)

\* What holds of an account that no request is on.
RestOk(d) ==
    /\ Aligned(d)
    /\ d \notin blurred /\ registry[d] \notin blurred \cup {None} =>
         (d \in PlcDids => plc[d] = registry[d]) /\ announced[d] = registry[d]

NameInv ==
    /\ \A r \in Active : Covered(req[r])
    /\ MeetInv /\ ZoneInv
    /\ \A r \in Active : req[r].names \subseteq blurred \/ Clean(req[r])
    /\ \A d \in Dids : AtRest(d) => RestOk(d)
    /\ \A n \in Handles \ blurred : (\A r \in Active : n \notin req[r].names) => Settled(n)

AccountsInvariant == AccountTypes /\ InviteInv /\ RowsInv /\ BornInv /\ AloneInv /\ LocalInv /\ NameInv
=============================================================================
