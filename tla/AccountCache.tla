----------------------------- MODULE AccountCache -----------------------------
(***************************************************************************)
(* The cache of open per-account store bundles (src/account/account_cache.c)*)
(* A request thread resolves a DID to a context, holds a reference on it   *)
(* for the rest of its request, and drops all its references when the      *)
(* request observer runs.  A context is opened outside the cache's lock,   *)
(* so that two threads may open the same account at once; idle contexts    *)
(* are closed, least recently used first, when the cache is over budget.   *)
(*                                                                         *)
(* A step is one hold of cache->lock, or one open outside it.              *)
(***************************************************************************)
EXTENDS Naturals, Sequences, FiniteSets, SequencesExt

CONSTANTS
    Threads,      \* the server's request threads
    Dids,         \* registered accounts
    Contexts,     \* addresses a context may be allocated at
    MaxResident,  \* cache->max_resident
    MaxHeld,      \* bound: references one request acquires
    MaxPinned     \* bound: references whose tracking fails

Parameters ==
    MaxResident \in Nat \ {0} /\ MaxHeld \in Nat \ {0} /\ MaxPinned \in Nat

ASSUME AccountCacheAssumption == Parameters

VARIABLES
    entries,  \* the list cache->entries, head first, of [did, ctx, refcount]
    recent,   \* the contexts of the entries, least recently touched first: the
              \* order of the entries' seq
    idle,     \* cache->idle_count
    total,    \* cache->total_count
    owner,    \* the open contexts, each with the account it was opened for
    step,     \* per thread: "request", "opening", "opened", "releasing"
    want,     \* the DID a get in progress resolves
    fresh,    \* the context a get in progress has opened outside the lock
    acquired, \* the thread-local list acq_buf
    pinned    \* references acquired and not tracked, realloc having failed

listVars == <<entries, recent, idle, total>>
threadVars == <<step, want, fresh, acquired, pinned>>
cacheVars == <<listVars, owner, threadVars>>

open == DOMAIN owner

NoDid == "none"
NoCtx == 0

Restricted(f, S) == [x \in S |-> f[x]]

CacheInit ==
    /\ entries = <<>> /\ recent = <<>> /\ idle = 0 /\ total = 0
    /\ owner = [c \in {} |-> NoDid]
    /\ step = [t \in Threads |-> "request"]
    /\ want = [t \in Threads |-> NoDid]
    /\ fresh = [t \in Threads |-> NoCtx]
    /\ acquired = [t \in Threads |-> <<>>]
    /\ pinned = {}

-----------------------------------------------------------------------------
(* The list.                                                               *)

Listed(did) == {i \in DOMAIN entries : entries[i].did = did}

\* e->seq = ++cache->seq_counter
Touch(order, c) == Append(SelectSeq(order, LAMBDA d : d # c), c)

IdleAt(list) == {i \in DOMAIN list : list[i].refcount = 0}

\* Touched no later than d.
NoLater(order, c, d) ==
    IndexFirstSubSeq(<<c>>, order) <= IndexFirstSubSeq(<<d>>, order)

\* Mutant: a referenced entry may be the victim.
VictimRegardless(list, order) ==
    {i \in DOMAIN list : \A j \in DOMAIN list : NoLater(order, list[i].ctx, list[j].ctx)}

\* The idle entry touched longest ago.
Victim(list, order) ==
    {i \in IdleAt(list) : \A j \in IdleAt(list) : NoLater(order, list[i].ctx, list[j].ctx)}

\* `prev` when the scan reaches i: the scan skips a referenced entry before it
\* moves prev, so that it is the last IDLE entry before i, or none.
PrevOf(list, i) ==
    LET before == {0} \cup {j \in IdleAt(list) : j < i}
    IN {p \in before : \A j \in before : j <= p}

\* oldest_prev->next = oldest->next, or cache->entries = oldest->next.
Unlink(list, prev, i) == SubSeq(list, 1, prev) \o SubSeq(list, i + 1, Len(list))

\* Mutant: the budget is not enforced.
NeverEvict(list, order, idles, totals, own) ==
    /\ entries' = list /\ recent' = order
    /\ idle' = idles /\ total' = totals
    /\ owner' = own

\* One call of evict_if_over_budget_locked on the list, the LRU order, the two
\* counters and the open contexts that its caller hands it.  The loop ends
\* after one eviction: before the call the cache was settled (BudgetSettled),
\* and the caller adds one entry or makes one idle.
evict_if_over_budget_locked(list, order, idles, totals, own) ==
    IF totals > MaxResident /\ IdleAt(list) # {}
    THEN /\ \E v \in Victim(list, order) :
              /\ \E p \in PrevOf(list, v) : entries' = Unlink(list, p, v)
              /\ owner' = Restricted(own, DOMAIN own \ {list[v].ctx})
         /\ recent' = SelectSeq(order, LAMBDA d :
                         \E i \in DOMAIN entries' : entries'[i].ctx = d)
         /\ idle' = idles - 1
         /\ total' = totals - 1
    ELSE /\ entries' = list /\ recent' = order
         /\ idle' = idles /\ total' = totals
         /\ owner' = own

-----------------------------------------------------------------------------
(* metalbear_account_cache_get, in three steps.                            *)

\* account_cache_push_acquired; its realloc may fail.
push_acquired(t, c) ==
    \/ /\ acquired' = [acquired EXCEPT ![t] = Append(@, c)]
       /\ UNCHANGED pinned
    \/ /\ c \notin pinned /\ Cardinality(pinned) < MaxPinned
       /\ pinned' = pinned \cup {c}
       /\ UNCHANGED acquired

\* The entry at i is for the DID asked for.
Hit(t, i) ==
    /\ idle' = IF entries[i].refcount = 0 THEN idle - 1 ELSE idle
    /\ entries' = [entries EXCEPT ![i].refcount = @ + 1]
    /\ recent' = Touch(recent, entries[i].ctx)
    /\ push_acquired(t, entries[i].ctx)
    /\ UNCHANGED total

Get(t, did) ==
    /\ step[t] = "request" /\ Len(acquired[t]) < MaxHeld
    /\ \/ \E i \in Listed(did) : Hit(t, i) /\ UNCHANGED <<owner, step, want, fresh>>
       \/ /\ Listed(did) = {}
          /\ step' = [step EXCEPT ![t] = "opening"]
          /\ want' = [want EXCEPT ![t] = did]
          /\ UNCHANGED <<listVars, owner, fresh, acquired, pinned>>

\* Addresses that are neither in use nor still named by a thread.
Unused ==
    {c \in Contexts : c \notin open /\ c \notin pinned
                        /\ \A t \in Threads : c \notin ToSet(acquired[t])}

\* metalbear_account_context_open_shared, outside the lock.
OpenContext(t) ==
    /\ step[t] = "opening"
    /\ \E c \in Unused :
         /\ \A d \in Unused : c <= d
         /\ owner' = [d \in open \cup {c} |-> IF d = c THEN want[t] ELSE owner[d]]
         /\ fresh' = [fresh EXCEPT ![t] = c]
    /\ step' = [step EXCEPT ![t] = "opened"]
    /\ UNCHANGED <<listVars, want, acquired, pinned>>

\* The DID is not in the registry, or its stores do not open.
OpenFails(t) ==
    /\ step[t] = "opening"
    /\ step' = [step EXCEPT ![t] = "request"]
    /\ want' = [want EXCEPT ![t] = NoDid]
    /\ UNCHANGED <<listVars, owner, fresh, acquired, pinned>>

GetDone(t) ==
    /\ step' = [step EXCEPT ![t] = "request"]
    /\ want' = [want EXCEPT ![t] = NoDid]
    /\ fresh' = [fresh EXCEPT ![t] = NoCtx]

\* Another thread won: its context is used and ours is closed.
InsertLost(t) ==
    /\ step[t] = "opened"
    /\ \E i \in Listed(want[t]) : Hit(t, i)
    /\ owner' = Restricted(owner, open \ {fresh[t]})
    /\ GetDone(t)

\* Mutant: the second look under the lock is left out.
InsertUnchecked(t) ==
    LET new == [did |-> want[t], ctx |-> fresh[t], refcount |-> 1] IN
    /\ step[t] = "opened"
    /\ evict_if_over_budget_locked(<<new>> \o entries, Append(recent, fresh[t]),
                                   idle, total + 1, owner)
    /\ push_acquired(t, fresh[t])
    /\ GetDone(t)

InsertWon(t) ==
    LET new == [did |-> want[t], ctx |-> fresh[t], refcount |-> 1] IN
    /\ step[t] = "opened" /\ Listed(want[t]) = {}
    /\ evict_if_over_budget_locked(<<new>> \o entries, Append(recent, fresh[t]),
                                   idle, total + 1, owner)
    /\ push_acquired(t, fresh[t])
    /\ GetDone(t)

\* The entry cannot be allocated.
InsertFails(t) ==
    /\ step[t] = "opened" /\ Listed(want[t]) = {}
    /\ owner' = Restricted(owner, open \ {fresh[t]})
    /\ GetDone(t)
    /\ UNCHANGED <<listVars, acquired, pinned>>

-----------------------------------------------------------------------------
(* The end of a request: metalbear_account_cache_release_thread_local.     *)

EndRequest(t) ==
    /\ step[t] = "request" /\ acquired[t] # <<>>
    /\ step' = [step EXCEPT ![t] = "releasing"]
    /\ UNCHANGED <<listVars, owner, want, fresh, acquired, pinned>>

\* metalbear_account_cache_release of c; one the list does not name is ignored.
release(c) ==
    LET at == {i \in DOMAIN entries : entries[i].ctx = c /\ entries[i].refcount > 0}
    IN \/ /\ at = {}
          /\ UNCHANGED <<listVars, owner>>
       \/ \E i \in at :
            LET list == [entries EXCEPT ![i].refcount = @ - 1] IN
            \/ /\ list[i].refcount > 0
               /\ entries' = list
               /\ UNCHANGED <<recent, idle, total, owner>>
            \/ /\ list[i].refcount = 0
               /\ evict_if_over_budget_locked(list, Touch(recent, c), idle + 1,
                                              total, owner)

ReleaseNext(t) ==
    /\ step[t] = "releasing"
    /\ release(Head(acquired[t]))
    /\ acquired' = [acquired EXCEPT ![t] = Tail(@)]
    /\ step' = [step EXCEPT ![t] = IF Len(acquired[t]) = 1 THEN "request" ELSE @]
    /\ UNCHANGED <<want, fresh, pinned>>

\* metalbear_account_cache_free, once wf_xrpc_server_free has ended the requests:
\* every listed context is closed, referenced or not.  A server started again
\* in the same process begins with an empty cache.
Free ==
    /\ \A t \in Threads : step[t] = "request" /\ acquired[t] = <<>>
    /\ entries # <<>>
    /\ owner' = Restricted(owner, open \ {entries[i].ctx : i \in DOMAIN entries})
    /\ entries' = <<>> /\ recent' = <<>> /\ idle' = 0 /\ total' = 0
    /\ pinned' = {}
    /\ UNCHANGED <<step, want, fresh, acquired>>

CacheNext ==
    \/ Free
    \/ \E t \in Threads :
        \/ \E did \in Dids : Get(t, did)
        \/ OpenContext(t) \/ OpenFails(t)
        \/ InsertLost(t) \/ InsertWon(t) \/ InsertFails(t)
        \/ EndRequest(t) \/ ReleaseNext(t)

CacheSpec == CacheInit /\ [][CacheNext]_cacheVars

-----------------------------------------------------------------------------
(* Properties.                                                             *)

\* The values the code's variables range over.
CacheTypeOK ==
    /\ entries \in Seq([did : Dids, ctx : Contexts, refcount : Nat])
    /\ ToSet(recent) = {entries[i].ctx : i \in DOMAIN entries}
    /\ idle \in Nat /\ total \in Nat
    /\ open \subseteq Contexts /\ \A c \in open : owner[c] \in Dids
    /\ step \in [Threads -> {"request", "opening", "opened", "releasing"}]
    /\ want \in [Threads -> Dids \cup {NoDid}]
    /\ fresh \in [Threads -> Contexts \cup {NoCtx}]
    /\ acquired \in [Threads -> Seq(Contexts)] /\ pinned \subseteq Contexts

\* "A handler that is still using a context can never observe a use-after-free":
\* whatever other threads get, release and evict meanwhile, and whichever of
\* two racing opens wins, a context a request holds stays open.
HeldStaysOpen ==
    \A t \in Threads : ToSet(acquired[t]) \cup ({fresh[t]} \ {NoCtx}) \subseteq open

\* A listed context's reference count is the number of references requests hold
\* on it, and idle_count the number of listed contexts nobody holds.
Held(c) ==
    {h \in Threads \X (1..MaxHeld) :
        h[2] \in DOMAIN acquired[h[1]] /\ acquired[h[1]][h[2]] = c}

Occurrences(c) == Cardinality(Held(c)) + IF c \in pinned THEN 1 ELSE 0

RefcountsExact ==
    \A i \in DOMAIN entries : entries[i].refcount = Occurrences(entries[i].ctx)

CountsExact == RefcountsExact /\ idle = Cardinality(IdleAt(entries))

\* Every context in the list is open, for the account it is listed under, and no
\* account is listed twice: two racing gets of one DID settle on one context.
ListUnambiguous ==
    /\ \A i \in DOMAIN entries :
          /\ entries[i].ctx \in open
          /\ owner[entries[i].ctx] = entries[i].did
    /\ \A i, j \in DOMAIN entries : entries[i].did = entries[j].did => i = j

\* Between calls no idle context is kept over the budget, the pass of eviction
\* that each get and each release makes being enough.
BudgetSettled == total <= MaxResident \/ IdleAt(entries) = {}

(* The inductive invariant behind the three (RepoStoreProofs).             *)

\* The types of what the proof reads.
CacheTypes ==
    /\ entries \in Seq([did : Dids, ctx : Contexts, refcount : Nat])
    /\ total \in Nat /\ open \subseteq Contexts
    /\ step \in [Threads -> {"request", "opening", "opened", "releasing"}]
    /\ want \in [Threads -> Dids \cup {NoDid}]
    /\ fresh \in [Threads -> Contexts \cup {NoCtx}]
    /\ acquired \in [Threads -> Seq(Contexts)]

\* A context is listed once, and what is held or pinned is open.
ContextsInv ==
    /\ \A i, j \in DOMAIN entries : entries[i].ctx = entries[j].ctx => i = j
    /\ \A t \in Threads : ToSet(acquired[t]) \subseteq open
    /\ pinned \subseteq open

\* A context between its open and its insertion belongs to the thread alone.
FreshOk(t, list, own) ==
    /\ step[t] # "opened" => fresh[t] = NoCtx
    /\ step[t] \in {"opening", "opened"} => want[t] \in Dids
    /\ step[t] = "opened" =>
         /\ fresh[t] \in DOMAIN own /\ own[fresh[t]] = want[t] /\ fresh[t] \notin pinned
         /\ \A i \in DOMAIN list : list[i].ctx # fresh[t]
         /\ \A s \in Threads : /\ fresh[t] \notin ToSet(acquired[s])
                               /\ step[s] = "opened" /\ fresh[s] = fresh[t] => s = t

FreshInv == \A t \in Threads : FreshOk(t, entries, owner)

\* Lists stay within their bound, so that Held counts all of them.
HeldInv ==
    /\ \A t \in Threads :
          /\ Len(acquired[t]) <= MaxHeld
          /\ step[t] \in {"opening", "opened"} => Len(acquired[t]) < MaxHeld
          /\ step[t] = "releasing" => acquired[t] # <<>>
    /\ \A c \in Contexts : IsFiniteSet(Held(c))

CacheInv ==
    /\ CacheTypes /\ ListUnambiguous /\ BudgetSettled
    /\ ContextsInv /\ FreshInv /\ HeldInv /\ RefcountsExact

-----------------------------------------------------------------------------
(* What the repository says of the cache and the code does not do.         *)

\* src/server.c: every account resolves through this cache, there is no account
\* held open beside it.  An eviction also drops the referenced entries that it
\* scanned past; they stay open beside the cache, and the next get of the same
\* account opens its stores a second time.
NoContextBesideTheCache ==
    \A c \in open :
        \/ \E i \in DOMAIN entries : entries[i].ctx = c
        \/ \E t \in Threads : fresh[t] = c
=============================================================================
