# MetalBear in TLA+

MetalBear is an AT Protocol personal data server in C and C++: it hosts accounts,
keeps each account's signed repository of records, and publishes everything that
happens on a firehose that relays subscribe to. This directory models the parts of
it that keep durable state and are run by several threads, checks them with TLC, and
proves most of what the runs check, for instances of every size, with TLAPS.

Paths below are relative to the repository's root.

## 1. Inventory

| Component | State | Operations | Talks to | What is hard |
|---|---|---|---|---|
| Firehose sequencer, `src/sequencer.c` | `events` (AUTOINCREMENT log), `meta.pruned_through`, `active_subscribers`, `closing`; per connection a cursor | append, retain, purge an account, subscribe, replay, reconcile, free | every repository and account handler appends; relays read over websockets, one thread each | a frame is read under the mutex and sent without it; the handler looks at the log in separate holds; retention and purges run against replays; crash and shutdown |
| Account cache, `src/account/account_cache.c` | linked list of open contexts with reference counts, LRU sequence, `idle_count`, `total_count`; a thread-local list of references | get, release, evict, free | every request; opens repository, blob, auth and account stores | contexts are opened outside the lock; eviction closes databases |
| Repository store, `src/repo/repo_store.c` | head, `rev_override` and CAR in memory; `blocks`, `repo_state` and `records` in SQLite | create, put, delete, applyWrites, import, open, export | the sequencer, through a callback | three durable steps per write; every SQLite failure path |
| Account lifecycle, `src/account/account_routes.c`, `src/session/session_routes.c`, `src/admin/admin_routes.c` | the active flag, the registry row, the takedown, the log | create, activate, deactivate, take down, delete | registry, account store, repository, sequencer | no lock spans two calls; the process may die between any two |
| Startup, `src/server.c` | the accounts still to reconcile | reconcile each account, one retention pass, serve | all of the above | repairs what a crash left |
| Sessions and two-factor, `src/oauth/auth.c`, `src/twofactor/` | refresh tokens with successor, grace and revocation; app passwords; TOTP secret, last step and backup codes | log in, rotate, revoke, enrol, confirm, disable | request authentication, takedown, password reset | one SQLite connection for all requests of an account, no lock over a transaction |
| OAuth, `src/oauth/oauth.c`, `oauth_routes.c` | pushed requests, codes, refresh tokens, device sessions, passkeys and challenges; the browser's cookie | push, approve, exchange, refresh, revoke, sign in and out | request authentication | replays, a crash between two transactions, a cookie read and written back |
| Blob store, `src/repo/blob_store.c` | data, type and reference files of each blob; an index in memory | upload, associate, dissociate and delete, load | record writes | tracking happens after the commit, outside its mutex; several files per blob |
| Video uploads, `cpp/metalbear/video_upload.cpp` | session rows, part rows, part files, active writers | start, part, finish, abort, expire, reopen | blob store | `finish` and part writers leave the mutex in the middle |
| Registry, identity and DNS, `cpp/metalbear/account_registry.cpp`, `src/identity/`, `src/server_identity.c`, `src/dns/` | rows with unique handles, invite codes; the handle in repository, context, PLC directory, zone and last `#identity` | sign up, rename, delete, publish, retract | PLC directory, DNS provider, sequencer | steps in six places that fail one by one |
| Request authentication, `src/server_auth.c`, `src/server_guards.c`, `src/oauth/oauth_scope.c` | none of its own; reads takedown and active flag | authenticate, guard | every route | two databases read one after the other; five overlapping tables of routes |
| Backups, `src/repo/backup*.c` | archives | stage, archive, verify, prune | every database | copies a moving target |

The appview proxy, metrics, status pages, labels, reports, preferences,
configuration, logging, email, the web frontend, the mobile app and the operator
scripts keep no state that these races touch; `PROJECT.json` lists each with the
reason it is left out, and the hazards, each at its line.

What makes each component correct:

- sequencer: a subscriber sees every event once, in order, unless the event was
  deleted, and is told of deletions; sequence numbers are never reused; shutdown
  neither hangs nor frees what a thread is using;
- account cache: no context is closed under its user; one context per account;
- repository store: what a client was told is durable; a head on disk has its blocks;
  the index mirrors the head; the firehose hears of every head;
- lifecycle: the firehose's last word on an account is what the account is;
- sessions: an ended session stays ended; one successor per token; a code passes once;
- OAuth: codes, requests, tokens and challenges buy once; grants come from approvals;
- blobs: a blob that a record names exists, and one that nobody names goes;
- uploads: an object is made of the bytes the client was told were received;
- registry and identity: invite uses add up; a handle resolves both ways;
- authentication: status is enforced, answers are true, authority does not grow.

## 2. Modules

| Module | Models | Uses |
|---|---|---|
| `EventLog` | the SQL queries on the `events` table, as operators over a set of rows | |
| `Sequencer` | the sequencer, its handlers, worker threads and process | `EventLog` |
| `Feed` | what the firehose promises a consumer (abstract) | |
| `SequencerFeed` | the mapping under which `Sequencer` implements `Feed` | `Sequencer`, `Feed` |
| `AccountCache` | the cache and the request threads | |
| `RepoStore` | one account's store, with the announcements it makes | |
| `Lifecycle` | account requests and startup reconciliation over registry, account store, repository head and log | `EventLog` |
| `Sessions` | one account's refresh tokens, app passwords and second factor | |
| `OAuth` | the OAuth store, the routes over it and the browser's cookie | |
| `Blobs` | one account's blob store composed with the record writes that feed it | |
| `VideoUpload` | one account's upload sessions and their requests | |
| `Accounts` | sign-up, handles and deletion over registry, repository, context, PLC, zone and firehose | |
| `AccountsInv` | the inductive invariant of `Accounts`, part by part | `Accounts` |
| `Scopes` | the parser of OAuth scopes and what a set of them allows | |
| `Access` | authentication, availability guards and the handlers that give or take authority | `Scopes` |
| `MC...` | constants' values and symmetry for TLC | |
| `SequencerProofs`, `RepoStoreProofs`, `LifecycleProofs`, `SessionsProofs`, `OAuthProofs`, `BlobsProofs`, `VideoUploadProofs`, `AccessProofs` | the theorems about each module (section 4) | the module (`SequencerProofs`: `SequencerFeed`; `RepoStoreProofs` also `AccountCache`, `LifecycleProofs` also `AccountsInv`) |

A definition named like a C function (`read_next_locked`, `commit_persist`,
`delete_account`) is that function, and one with `_calls` after the name (`Lifecycle`) the
calls it makes; `PROJECT.json`'s `map` gives the lines of every
definition. A definition marked *Mutant* is a plausible mistake in the definition
below it and is used by no specification; it shows that a property would notice. A
variable or field marked *history* is read by properties only.

### Sequencer

A step is what one thread does under one hold of `s->mutex`, or one send without it.
`rows`, `autoinc` and `pruned` are the database; they survive `Crash`. `state`,
`active` and `retained` are the process; `pc`, `cursor`, `err`, `outdated`, `frame`
and `closed` are a connection. A row is its number and its account: encoding a frame
changes no state that the properties tell apart. The wall clock appears twice: the
seed (`Now`, above every number the host used, since it counts seconds) and the age
of events (retention may find any prefix old). `SqliteFails` lets the statements
fail whose failure the code survives. `Rebuilds` lets the operator empty the data
directory. `start`, `sent`, `known`, `issued`, `lost`, `unmarked`, `purged` and
`high` are history; of them only `high` is read, by `Now` and by the cursor of a
consumer that asks for the future.

`BeginFree` requires that no handler is running: `metalbear_server_free` frees the
HTTP server before the sequencer.

`Feed` has a log that grows at its end, loses any events but the newest, and
subscriptions that join at a position not beyond the log, move to the next event
that can be read, and leave. It knows no mutex, thread, cursor check, retention mark
or crash. `SequencerFeed` maps the rows to the log, retention's and purges' victims
to what was withdrawn, and a worker between its start and its end to a subscription.

### AccountCache

The list is a sequence, head first, and `recent` orders the listed contexts by their
`seq`. `Victim`, `PrevOf` and `Unlink` keep the code's way of finding and unlinking the
idle entry used longest ago: `prev` is the last *idle* entry in front of it. `pinned` is a reference whose entry
in the thread-local list could not be allocated, which nobody releases. A context is
an address; `owner` says which are open, and for whom.

### RepoStore

A commit is a revision and a tree, a function from keys to values; its blocks are
itself, its root and its records, by content, so that equal trees share a block.
(One block stands for all nodes of a tree.) `db` is what the connection sees and
`disk` what a restart will find; they differ while a COMMIT that failed holds the
transaction open. `Endings` lists how a transaction may end. Index statements and
the announcement are steps of their own, since the process may die between them;
writers hold the store's mutex, so there is only one of them at a time. An imported
commit's own revision is taken to be a fresh one, which is what an import of a
repository that goes on elsewhere looks like. `failed` remembers which kinds of
failure have happened, so that each property can say exactly which it survives.

### Lifecycle

A request is the list of durable calls it still has to make, from the handler's
text; each step makes one. A holder's request, an administrator's and a write may be
in progress on one account at a time. `Resolves` accounts for the cache: an account
whose administrative deletion has begun still resolves. `raced`, `overlap`, `halfway`
and `deleted` are history. `Serve` ends the reconciliation, and with it whatever an
overlap had left.

### Sessions

The unit of interleaving is the SQL statement, because `auth.c` opens one connection
per account and takes no lock: `db` is the database as that connection sees it and
`saved` what a ROLLBACK returns to. A statement of any request that runs while
`saved` is set belongs to the open transaction. A refresh is the code's sequence
(select, begin, update, insert, commit, or rollback and again). A statement and the
`sqlite3_changes` after it are one step, which the code does not guarantee either.
One tick of the clock is one TOTP step. `h` records ended sessions (`gone`), those a
rotation was inserting at that moment (`late`), whose end a rollback took back
(`undone`), the tokens whose row a rollback changed (`torn`), the successors each
token was answered with, the TOTP secrets drawn, and the codes that passed.

### OAuth

One operation of the store is one step (its mutex), except the two that commit twice:
`exchange_code` and `refresh` delete in one transaction and insert in another, with
`mutex` held and a `Restart` possible in between. A handler that makes several
operations is several steps. `key` stands for the DPoP key, PKCE verifier and
redirect URI together. `jar` is the browser's cookie: requests carry a copy of it and
the answer replaces it, so that overlapping sign-ins overwrite each other. A cookie
lists its tokens in the order they were drawn, the newest last, so a set of numbers
stands for it and the oldest is the least. Requests
that are refused change only expired rows and are left out.

### Blobs

`records` is the repository, a record being the set of blobs it names. A write
commits and then associates and dissociates blob by blob, in steps of its own, as
`track_written_blobs` and `untrack_superseded_blobs` do after the commit. `disk`
holds data, type and reference files separately; `Halfway` lists what a crash in the
middle of an operation leaves, and `Loaded` what the next start makes of it.
`DeleteFails` and `PutFails` are operations that fail and are tidied up.

### VideoUpload

A request is its stretches under and outside the store's mutex. Bytes are versions,
so that a part may be sent again with other content and a file may be newer than its
row. A day passes for a session at once, since lifetime and limits use the same 24
hours. `Renamed` are part files that a crash left in place without their row.

### Accounts

Each registry call, directory call and provider request is a step; a handler goes on
with what it read before. `provider` chooses between the two kinds of DNS client:
those that list a name's records and then write one (`records`), and those that
replace the set (`rrset`). The zone is a set of records with identifiers of its own,
so that two records for one name are possible. `blurred` is history: the identities
and names on which two requests met, a fault happened or the holder submitted an
operation of their own. Properties except exactly these.

### Access and Scopes

Every read of an account's takedown or active flag is a step; deciding a token's
scope is not, since it reads nothing that changes. `seen` and `changes` in a request
are history: the statuses its account has had since it arrived. The route tables are
copied whole, and 27 routes that stand for every combination of table entries are
used by the run. A scope string is a record of its type, positional value and named
values, and the parsers are `oauth_scope.c`'s, with the abbreviations its comparison
by length accepts. Grants are the run's: eight sets of scopes that cover every type
and every reason to refuse one.

## 3. Runs

| Run | Bounds | Distinct states | Result |
|---|---|---|---|
| `sequencer_stream` | 1 consumer, 2 accounts, 4 numbers, `MinEvents` 1, SQLite may fail | 1.3 million | holds |
| `sequencer_live` | 1 consumer, 1 account, 4 numbers, rebuilds, fairness | 0.1 million | holds |
| `account_cache` | 2 threads, 3 accounts, budget 2, 2 references per request | 1.4 million | holds |
| `repo_store` | 2 keys in one link collection, 2 values, 3 revisions, 1 kind of failure | 1.4 million | holds |
| `lifecycle` | 2 accounts, 4 requests, crashes without bound | 2.8 million | holds |
| `sessions` | 3 threads, 4 requests, 3 tokens, 2 TOTP secrets, 1 app password, clock to 3 | 1.1 million | holds |
| `oauth` | 2 threads, 3 requests, 2 clients, 3 accounts, 5 random values, cookie of 2 | 2.0 million | holds |
| `blobs` | 2 threads, 2 records, 2 blobs, 3 writes, 2 faults | 1.7 million | holds |
| `video` | 3 threads, 1 session of 2 parts, 2 versions of each, 2 faults, fairness | 0.2 million | holds |
| `accounts` | 2 threads, 3 identities, 2 handles, 1 invite code, 4 calls and faults together | 1.9 million | holds |
| `access` | 2 threads, 2 accounts, 3 requests, 27 routes, 8 grants | 0.5 million | holds |
| `sessions_revoke` | 2 threads, 3 requests, 3 tokens, clock to 2 | | violated |

The passing runs check these.

- `TopRowSurvives`, `OwnCursorNeverFuture`: the log never appears to shrink.
- `StreamComplete`, `StreamIncreases`: no event is skipped or repeated.
- `KnownGapAnnounced`: a loss that was recorded before the request is announced.
- `FreeWaitsForThreads`, `FreeReturns`: shutdown is safe and ends.
- `SeqNeverReused`, `CatchesUp`: numbers are fresh; a connected consumer gets there.
- `ImplementsFeed`: every step of the sequencer is a step of `Feed`, or none.
- `HeldStaysOpen`, `ListUnambiguous`, `BudgetSettled`: the cache. They hold although
  the list loses entries (below): what it lists stays right.
- `HeadCompleteUnlessRolledBack`, `AckedIsDurable`, `IndexMirrorsHead`,
  `HeadAnnounced`, `ChainUnbroken`, `CreateLeavesOneLink`: the repository store, each
  with the failures it survives named in it.
- `StatusAnnounced`, `DeletionLeavesOneRow`: the firehose's last word.
- `SessionsStayEnded`: a session that was logged out, whose app password was revoked,
  or that a takedown or reset ended, never lives again, nor does its chain; with two
  exceptions, one of which `sessions_revoke` shows to be needed.
- `ReplaysAgree`: refreshes with one token agree on its successor, however they
  interleave, unless a rollback changed the token's own row. `SecondFactorOnce`: a
  TOTP code passes once while its secret is enrolled.
- `SingleUse`, `GrantProvenance`, `RevokedGrantEnds`, `DroppedIsRevoked`: OAuth.
- `IndexReadable`, `KeptWhileNamed`, `DereferencedIsGone`: the blob store. A record
  written by two requests at once is excepted from the last two.
- `CompletedAsSent`, `TerminalStays`, `FinishingEnds`: uploads.
- `InvitesAccounted`, `LocalAgree`, `ResolvesBack`: sign-up and handles.
- `StatusHolds`, `AnswersTrue`, `WithinAuthority`: authentication.

Why the bounds are enough. Four numbers give a log with an event before, at and
after a cutoff, a purged one and one appended during the replay. A consumer never
interacts with another except through the counter, and the proof covers any number.
A cache of two with three accounts is over budget with entries in use in front of
the victim. Three revisions give a commit, one that fails or is interrupted, and one
that builds on it; two values let content return. Four requests give a creation, a
write, a moderation and a deletion in every order and overlap. Three tokens give a
token, its successor and a login beside them or a second successor; three threads
give two racing refreshes and a revocation; a clock of three passes both the grace
window and the lifetime. Five random values carry a request to a code, a token and
its successor, with one over. Three writes give a blob named by two records, one of
which is rewritten or deleted while the other is written; two faults give a crash
after a failed operation. Two parts in two versions give a part that was replaced
next to one that was not, and three threads two writers beside a finish; the limit on
open uploads never bites with one session, and is a count in one guard. Four calls and faults give a rename that loses its handle
to a sign-up, with a fault or a restart in one of them; two handles are enough for a
name to be freed and taken. Three requests give a login, a moderation and the use of
the session, or a read with two changes of status during it.

The bounds are the constants `MaxSeq`, `MaxHeld`, `MaxPinned`, `MaxRev`,
`MaxFailures`, `MaxRequests`, `MaxJti`, `MaxSecrets`, `MaxClock`, `MaxCalls`, `MaxIds`,
`MaxFaults`, `MaxVersion` and `MaxEvents`; nothing else is bounded. `Contexts` has one
address more than there are accounts, and a get that finds none free waits.

Symmetry is used for interchangeable accounts, consumers, threads, handles, clients,
records, blobs and record values, and in no run with a liveness property.

Deadlock is checked in the sequencer's, the cache's, the store's and the lifecycle's
runs: the process may always crash or start, and a request thread of the cache may
always get or release. The other runs bound the number of requests, and end when it
is reached; their requests have no wait that another could block, save for the OAuth
store's mutex, whose holder can always go on.

Fairness. `Sequencer!FairSpec`: weak fairness of each worker thread, of the handler's
last step, and of the end of `free`. The code justifies them: the threads are the
operating system's, a send has a write timeout, the wait on the condition variable is
bounded at 250 ms, and `free` is woken by every decrement. `VideoUpload!Spec`: weak
fairness of the steps of a finish that is under way, an HTTP thread that waits for
nobody. Nothing is assumed of consumers, clients, the operator, or of events
happening.

The type invariants (`TypeOK`; `CacheTypeOK` in `AccountCache`, `AccountTypes` in `AccountsInv`) and `CountsExact` of the cache
hold and are left out of the runs in favour of what could be wrong. Those of the
sequencer, the repository store and the sessions are theorems; what the other proofs need of the
types, and that the cache's reference counts are exact (`RefcountsExact`), are parts of
their inductive invariants.

### Sentences the code does not keep

`sessions_revoke` is the one run that expects a violation: `auth.h` says *"Revoke
every refresh chain minted from a named app password."* A revocation whose statement
lands between a refresh's BEGIN and its UPDATE is part of the refresh's transaction;
the UPDATE then changes no row, the refresh rolls back, and the revocation, already
acknowledged, is gone. `SessionsStayEnded` says what is left.

Seven more properties state a sentence of the repository, and TLC refutes each when it
is added to the configuration of its module's run:

| Property | Configuration | Sentence | What the code does |
|---|---|---|---|
| `RetainKeepsMinEvents` | `SequencerStream` (with `MinEvents = 2`) | `include/metalbear/sequencer.h:67` "Keeps at least min_events." | retention subtracts `min_events` from a number and not from a count; purges leave holes |
| `NoSilentGap` | `SequencerStream` | `src/sequencer.c:822-826` | retention may run after the mark was looked at |
| `NoContextBesideTheCache` | `AccountCache` | `src/server.c:399` "there is no account held open beside it" | eviction's `prev` skips entries in use, so that unlinking the victim drops them too; they stay open and the account is opened again |
| `DurableHeadComplete` | `RepoStore` | `src/repo/repo_store.c:654` "atomically" | `persisted_blocks` is not restored by a rollback |
| `IncrementalCarComplete` | `RepoStore` | `include/metalbear/repo/repo_store.h`, which calls a `#commit`'s blocks an incremental CAR | content that returns keeps its old revision and is left out |
| `PurgeKeepsAnnouncement` | `Lifecycle` | `src/sequencer.c:935-936` | a commit announced between a deletion's announcement and its purge takes the announcement's place |
| `TakedownStaysAnnounced` | `Lifecycle` | `README.md:451-461` | a restart announces a taken-down account as active |

### Other things met while modelling

They follow from a reading of the code and need no interleaving, or are what the
exceptions in the properties stand for.

- Sessions: confirming a TOTP enrolment while another enrolment replaces the secret
  activates a secret nobody verified. A login whose code was checked against a secret
  that another request then replaced is let in, and its step is recorded for the new
  secret, because the UPDATE (`auth.c:833`) does not look at the secret: one code of
  the old secret may pass several such logins. A rollback that takes back a token's
  recorded successor, when a second transaction's statements had joined the first's,
  lets the token be rotated again, to another successor. Both need more requests or
  tokens than the run has (6 calls, 4 tokens) and were found by attempting the proof;
  the exceptions in `SecondFactorOnce` and `ReplaysAgree` are exactly these. Resetting
  a password revokes no session.
- OAuth: `revokeGrant` leaves codes not yet exchanged, and access tokens for up to an
  hour, although its comment speaks of ending access at once. Two sign-ins at the same
  time leave a live device session outside the cookie. `passkey_challenge_consume`
  does not look at the result of its DELETE.
- Blobs: `importRepo` associates nothing; a sidecar is truncated before it is written;
  a delete that fails drops the reference in memory and keeps it on disk.
- Uploads: a `finish` whose last UPDATE fails leaves the session finishing until the
  next start; failed sessions keep their directory.
- Accounts: `updateHandle` to the handle the account has publishes the TXT record and
  then retracts it (`identity_routes.c:705`); the administrator's route guards against
  this. A rename that loses its handle leaves the PLC document claiming it. Two
  overlapping renames leave directory, registry, repository and firehose disagreeing. A
  sign-up that fails after the first check has used its invite. A missed `#identity` is
  not healed at startup, unlike what `identity_routes.c:708` expects.
  `requestPlcOperationSignature` passes 32 bytes where 33 are required
  (`identity_routes.c`, `account.cpp:503`) and so always fails.
- Access: an app-password login on a taken-down account, with `allowTakendown`, reaches
  the PLC routes; a taken-down session passes ordinary routes once the takedown is
  lifted; `refreshSession` of a taken-down account is refused before its handler. A
  request authenticated before a takedown still runs its handler. The registry's
  `active` column is written once, so that `admin.getSubjectStatus` never answers
  `deactivated: true`. `listRepos` and `listReposByCollection` leave out the cursor when
  a page fills in the middle of a short batch (`sync_routes.c:879`), and the accounts
  after it are never listed.

## 4. Proofs

Of the 40 properties the passing runs check, 37 are also theorems, every one but the three
that are liveness: they hold for every set of threads, accounts, clients, keys, records and
values and for every bound, under the assumption that the module names. Each theorem `Spec => []P` rests on an
inductive invariant that was first checked with TLC; none of the properties is
inductive alone. In every proof module the lemmas about operators come first, then
one lemma per action (or per conjunct of the invariant, with a step per action), then
the theorems.

| Module | Theorems (the property each states) | Assumption |
|---|---|---|
| `SequencerProofs` | `Invariance`, `TypeCorrect`, `TopRow`, `Completeness`, `Increase`, `OwnCursor`, `GapAnnounced`, `FreeIsSafe` (the invariants of `sequencer_stream`), `NeverReused` (`SeqNeverReused`), `SequencerIsAFeed` (`ImplementsFeed`) | `SequencerAssumption` |
| `RepoStoreProofs` | `DurableHeadHasItsBlocks` (`HeadCompleteUnlessRolledBack`), `AcknowledgedWritesSurvive` (`AckedIsDurable`), `IndexFollowsHead` (`IndexMirrorsHead`), `HeadIsAnnounced` (`HeadAnnounced`), `CommitsFormAChain` (`ChainUnbroken`), `CreateRemovesDuplicates` (`CreateLeavesOneLink`), `RepoTypes` | `RepoStoreAssumption` |
| `RepoStoreProofs`, of `AccountCache` | `HeldContextsStayOpen` (`HeldStaysOpen`), `ListIsUnambiguous` (`ListUnambiguous`), `BudgetIsSettled` (`BudgetSettled`) | `AccountCacheAssumption` |
| `LifecycleProofs` | `StatusIsAnnounced` (`StatusAnnounced`), `DeletionsLeaveOneRow` (`DeletionLeavesOneRow`) | none |
| `LifecycleProofs`, of `Accounts` | `InvitesAreAccounted` (`InvitesAccounted`), `HandlesAgreeLocally` (`LocalAgree`), `HandlesResolveBack` (`ResolvesBack`) | `AccountsAssumption` |
| `SessionsProofs` | `EndedSessionsStayEnded` (`SessionsStayEnded`), `RefreshesAgree` (`ReplaysAgree`), `CodesAreAcceptedOnce` (`SecondFactorOnce`), `SessionTypes` | `SessionAssumption` |
| `OAuthProofs` | `SingleUseValuesAreUsedOnce` (`SingleUse`), `GrantsWereApproved` (`GrantProvenance`), `RevocationIsFinal` (`RevokedGrantEnds`), `DroppedTokensAreRevoked` (`DroppedIsRevoked`) | `OAuthAssumption` |
| `BlobsProofs` | `ListedBlobsAreReadable` (`IndexReadable`), `NamedBlobsAreKept` (`KeptWhileNamed`), `DereferencedBlobsGo` (`DereferencedIsGone`) | `BlobAssumption` |
| `VideoUploadProofs` | `CompletedUploadsAreAsSent` (`CompletedAsSent`), `EndedSessionsStayEnded` (`TerminalStays`) | `VideoAssumption` |
| `AccessProofs` | `StatusIsEnforced` (`StatusHolds`), `AnswersAreTrue` (`AnswersTrue`), `AuthorityDoesNotGrow` (`WithinAuthority`) | `AccessAssumption`, `GrantsAssumption` |

The assumptions say that bounds are natural numbers (and not 0 where the code has a
first value), that consumers are finitely many, and that distinguished values are
not members of the sets they are distinguished from. `GrantsAssumption` is the one about data: the text of an OAuth scope has at most one
positional value, and its query consists of pairs, which is how `oauth_scope.c` splits
it. `AccountCache` and `Accounts` name their initial states, steps and behaviours
`CacheInit`, `CacheNext`, `CacheSpec` and `AccountsInit`, `AccountsNext`, `AccountsSpec`, because
a proof module extends each of them beside a second one.

**Sequencer.** `IInv` conjoins

- `TypeOK`, and `Drained`: once `free` has begun, no handler is inside the sequencer;
- `FreeWaitsForThreads`, for which finiteness and cardinality facts about the set of
  counted connections are lemmas;
- `LogInv`: the newest row has the number `autoinc`; every issued number lies at or
  below it, and is in the log, lost or purged; a marked loss lies at or below the mark;
  while SQLite does not fail, a log in use has reached every number the host used;
- `ConnInv(c)`: where a connection's cursor, frame, start and sent set lie relative
  to each other and to the log, by the place its thread is at;
- `SavedInv`: a saved cursor lies within the log, unless the log was rebuilt.

`StreamComplete` needs `LogInv`'s partition of the issued numbers, because a worker
that skips from its cursor to the next row is right only if everything between them
is gone. `OwnCursorNeverFuture` needs the newest row's survival. The assumption that
carries `NeverReused` is `Now`'s: the clock is above every number handed out before.

**Refinement.** `IInv` bounds frames and cursors by the AUTOINCREMENT mark, and `Feed`
speaks of the events there are, so `FeedInv` adds that numbers are unique, that what was
deleted lies below the newest row, and that no readable event lies between a worker's
cursor and the frame it holds. With it, an append is the feed's publication, a
retention pass or purge its withdrawal, the read and send of a frame its delivery, and
each other step changes nothing that the mapping shows.

**RepoStore.** `RepoInv` has a part for each guarantee, conditional on the failures that
would break it: what the connection sees is what a restart finds unless a COMMIT left
its transaction open (`Fits`); a writer past its transaction has its commit (`DurInv`)
and its blocks on disk (`CompleteInv`: what was counted as flushed is there); with no
failed commit, memory and disk have one head (`HeadInv`), the index differs from it
only in what is still to do or was torn (`IndexInv`), and the last announcement is the
head's or, during a write, its predecessor's (`AnnInv`).

**Account cache.** `CacheInv` says of each of the three what it needs of the lists: a
listed context's reference count is the number of references that threads hold on it
(`RefcountsExact`, with `Held` as a set of pairs of thread and position, so that it
changes by one element), a context is listed once, what is held is open, and one
between its open and its insertion is its thread's alone (`FreshInv`). That eviction drops
entries it scanned past takes nothing from this: those are in use, and only what is
idle is closed. `BudgetSettled` is inductive: over its budget the cache has no idle entry, a call adds
one entry or makes one idle, and a pass closes one; so the code's loop over passes
never makes a second one, which is why the model has one.

**Lifecycle.** A request is the list of its calls still to make, so the invariant says
for each call that may come next what the calls before it established: an account
about to be announced active has its flag set, one whose `#sync` is due has been
announced, one about to be purged has its deletion as its newest row. Each part is
asserted only outside the recorded overlaps. A starting server has made every
account agree that it has not still to reconcile (`StartInv`); this is what a crash at
any point falls back on.

**Accounts.** `AccountsInvariant` follows a request from stage to stage: what it has
established of its account and its names before each of its steps (`BeforeOk`,
`SignupOk`, `AfterOk`, `LocalOk`, `ToldOk`), what holds of an account that no request is on
(`RestOk`) and of a name that none works on (`Settled`: the zone's one record is its
account's, or it is nobody's and not in the zone). Requests that share an account or a
name, and requests that met a fault, have all their names in `blurred` (`MeetInv`), and what
they may still write is among those names (`Covered`). So a step touches nothing that
another request relies on: the lemma `OthersAreSpared` is proved once, for any step
that stays within its own account and names, and each action's lemma shows that
it does (`StepBy`), and what it establishes itself. A request that enters finds its
account at rest and its names settled, or blurs them (`EnterAlone`). The zone's
identifiers are drawn once (`ZoneInv`), so that a record found by a lookup is that record
or gone when it is written. An invite code's accounts and its sign-ups that may still
register one (`Holders`) are at most its uses (`InviteInv`).

**Sessions.** `Stored` relates every row, in the database and in the copy that a
ROLLBACK would restore, to the identifiers drawn and the credential of its chain;
`Rotating` says the same of successors drawn and not yet inserted. `ChainInv`: until a
rollback changes its row, a token has one successor, claimed by its row and by every
request that will return one. `FactorInv`: the steps accepted for the enrolled secret
are at most the one recorded. Attempting this proof refuted two earlier, simpler
versions of the properties (section 3).

**OAuth.** A single-use value is a row, or is carried by the one request that deleted
the row and has not yet written what it is exchanged for (`IdInv`). A chain of
refresh tokens is at one place: its code, its token, or the request that holds the
mutex between its two transactions (`RootInv`), so that a revocation, which takes the
mutex, finds it. What a row is bound to is handed on unchanged (`ProvInv`). Of a token
in a request's copy of the cookie that the answer will leave out, the invariant says
that it is no longer valid or still on the request's list to revoke; the answer comes
when that list is empty, and a number is not drawn twice.

**Blobs.** A record that no two requests wrote at once has one writer at most, and the
writer knows its value: before the commit the value it captured, after it the one it
wrote (`Owned`). So what is associated with the record and not named by it is still on
the writer's list to dissociate, and nothing on that list is named: no association
that a record needs is taken away, and none is forgotten. A write that runs alone has
every blob it found stored associated or still to associate (`Found`), which is why
its answer makes them due. For every blob that no crash tore, the directory says what
the index says (`Agreed`), and that is what a restart, in the middle of any operation
of the store, falls back on.

**VideoUpload.** One request at a time finishes a session, and the session is
`finishing` for as long as it does (`FinishInv`); parts, aborts and expiry all ask for
`created`, so that neither the files it reads nor what the client was told changes
under it (`ReadInv`), and every file is a version its client was told of (`FileInv`).

**Access.** At each point between the two reads of an account's flags, the invariant
says what the first still guarantees: with no change since, that it still holds, and
after one change, that the status which makes the coming answer true was seen
(`Truth`). Tokens are never altered and none is wider than the credential it was
issued for (`TokenInv`). That a narrow grant says what it lets through is a fact about
the parser's result, for any scopes (`AdmittedIsSaid`).

### Only model-checked

- The liveness properties `CatchesUp`, `FreeReturns` and `FinishingEnds`: fairness and
  `ENABLED` are beyond the prover.
- `CacheTypeOK` of `AccountCache` and `TypeOK` of `Lifecycle` as a whole (the order of the LRU list, `idle_count`,
  the shape of a row): the proofs above need only a part of each.

## 5. Not modelled

- Email tokens (confirmation, email update, password reset) and the administrator's
  mails. A confirm token is not tied to the address it was made for, and reset tokens
  survive an address change; both are visible in `account_routes.c` without a model.
- Backups: the archive is file I/O, and its guarantees are about directories.
- Key rotation (`key_rotation.cpp`), an offline tool, and DID documents, which are
  generated from state that `Accounts` has.
- Listing and paging queries, the appview proxy, preferences, labels, reports, metrics,
  status pages, configuration, logging and the slur filter: one statement, one string
  or one forwarded request each.
- Cryptography, encodings (CBOR, CAR, MST, JWT, DPoP, WebAuthn) and HTTP parsing, of a
  library or pure functions of bytes. `Scopes` is the exception, because authority
  depends on it.
- Rate limits, quotas in bytes, and the moderation service's principal.
- The `did:example` sign-up path, a test facility.

## 6. Plan

1. Email tokens, with the account store's mutex as the unit of interleaving.
2. The page walk of `listRepos` against a reference enumeration.
3. The zone as an abstract name service that `Accounts` implements for names that are not
   blurred: its step-wise facts are parts of `AccountsInvariant` already.

No module declares a RECURSIVE operator, so that each can be proved about.
Runs are kept few: one passing run per component, a second where liveness needs other
bounds, and a violated one only for a sentence that the code does not keep.
