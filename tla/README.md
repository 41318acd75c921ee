# A verification development of the VO API

The VO API (Verified Orchestration) issues and verifies Microsoft Entra Verified ID credentials.
It is a GraphQL server that runs in several instances behind a load balancer. The instances share a
SQL database, Redis (caches, publish/subscribe, job queue), blob storage and the Verified ID service.
What goes wrong in such a program goes wrong between its stores and between its instances, in an
order nobody wrote a test for. The modules here state what the code does in those places, TLC
explores every interleaving of small instances, and TLAPS proves the central properties for every
size.

Paths below are relative to the repository (`src/` is its source directory).

## 1. Inventory

| Component | State it keeps | Operations | Interacts with |
|---|---|---|---|
| Remote (async) issuance, `src/features/async-issuance`, `limited-async-issuance-tokens` | `async_issuance` row, data blob, five cache sections, notification jobs | create, notify and resend, update contact, cancel (mutation and batch job), send verification code, acquire a token, claim, complete, bounces of messages | background jobs, issuance, credential record, Verified ID, blob storage |
| In-person issuance and callbacks, `src/features/issuance`, `callback` | `credential_record` and `issuance` rows, `requestDetails`, `requestCallback` and `issuanceCache` sections | create request, Verified ID callbacks, forward to the consumer, cancel | Verified ID, the wallet, the consumer's endpoint |
| Revocation, `src/features/issuance/jobs`, `revoke-*-command.ts` | `issuance.is_revoked` | revoke one, revoke by contract, identity, user or wallet | Verified ID, background jobs |
| Credential records, `src/features/credential-record` | none of its own: a query over three tables | list, count, filter | all that write the three tables |
| Background jobs, `src/background-jobs`, `src/redis/pubsub.ts` | BullMQ queue, finished-event cache, subscriptions | add, run and await, run deduplicated, retry, publish and cache events | every component with jobs |
| Presentation flow, `src/features/presentation-flow`, `limited-presentation-flow-tokens` | `presentation_flow` row, contact blob, tokens, callback and notification jobs | create, notify and resend, update contact, request a presentation, callbacks and mDoc responses, submit, cancel, tell the application | background jobs, Verified ID, the wallet, the application's endpoint |
| Presentation requests and callbacks, `src/features/presentation` | caches per request, `presentation` rows | create request, callback, verify | Verified ID, presentation flow, OIDC login |
| OIDC provider, `src/features/oidc-provider` | login data and keys of pages in Redis, account blobs; on each instance the provider with its clients and signing keys; keys in blob storage | log in by presentation, also as a second factor of Entra; load, reload, rotate keys | background jobs, presentation, the oidc-provider library |
| Instance configuration, `src/features/instance-configs` | rows, and a copy of them in each instance | edit, notify, reload | Redis publish/subscribe |
| Migrations, `src/migrate-db` | the schema and the rows it moves | up, down | the database; the application before and after |
| Photo capture, `src/features/photo-capture` | capture session and photo in Redis | create, capture, use once | issuance |
| Contracts, templates, identities, users, partners, ... | rows | create, update, delete | issuance |
| Data access, `src/data`, `src/cqs` | transactions | dispatch a command in a transaction, reuse one | every component |
| Redis caches and rate limiters | cache sections, counters | get, set, delete with a TTL, consume | every component |
| Server, authorisation, configuration, tracing | none | - | - |

What is hard, and what makes each component correct:

- **Remote issuance.** A request lives for days and is acted on by the issuer, the recipient, jobs,
  Verified ID and message providers, on any instance. Its data is in three stores that no transaction
  covers. Correct: it is settled once, as cancelled or as issued with an issuance that exists; an
  entity that was read stays current until it is saved; the personal data is gone when it is settled.
- **Issuance and callbacks.** Verified ID sends a callback again until it is answered, and the
  handler runs from its start each time. Correct: nothing is told that is not recorded, everything
  is told in the end, and no retry takes a later step back.
- **Revocation.** Two systems change one after the other. Correct: what is listed as revoked is revoked.
- **Credential records.** One status is computed from three tables, and the filter says the same a
  second time. Correct: each record is listed once, and filtering in the query is filtering its result.
- **Background jobs.** The event a caller waits for may come before it listens; the listener
  recomputes what the queue has decided; a deduplicated call joins a run that may be over. Correct: a
  wait ends, at the end of the run waited for, and the result is there as long as the key.
- **Presentation flow, presentations.** The responder, the application, Verified ID and two jobs act
  on one row, and the job that tells of the end is queued before the end commits. Correct: a flow ends
  once, and the application is told of that end and no other, in the end.
- **OIDC login.** Every handler of a login reads the login data from Redis, does something slow and
  writes its copy back; logins with one credential share an account. The login data is also
  lost and started afresh. Correct: a login succeeds on a recorded presentation of its own, as the
  user whose credential it asked for, and the tokens of that user tell of a credential of that user.
- **Provider and configuration of each instance.** What the instances hold in memory is announced before
  it commits, loaded by calls that overlap, and rotated by whoever notices. Correct: a quiet instance
  is up to date, and a key that signs is published by all.
- **Migration to credential records.** It has to do on any rows, and on a database with some of its
  structures, what the application does for new rows. Correct: each row has a record of its own, each
  record its row, and a second run changes nothing.
- **Photo capture, rate limiters.** Single use under concurrent calls, limits at their boundary.

`PROJECT.json` lists every hazard at its line, with the properties that would notice it.

## 2. Plan

In the order of importance; all nine are done.

1. `AsyncIssuance`, the life cycle of a remote request, with `RemoteOffer`, the abstract
   specification it implements, and its proofs.
2. `BackgroundJobs`, the queue and the waits, with proofs.
3. `CredentialRecords`, the status query and filter, `CredentialRecordFilter`, the flattening of AND
   and OR, and `RecordQuery`, a client, with the proofs of all three.
4. `Issuance`, one request with its callbacks, the consumer, cancellation and revocation. It takes
   the status from `CredentialRecords`, by INSTANCE. With proofs.
5. `PresentationFlow`, with `FlowOutcome`, the abstract specification it implements, and its proofs.
6. `OidcLogin`, the login interaction, with proofs.
7. `RecordMigration`, the migration to credential records between two phases of the application,
   with proofs.
8. `InstanceReload`, what each instance holds of the provider, its keys and the configuration, with
   proofs.
9. The composition of the retries of `BackgroundJobs` with a component: inside `PresentationFlow` the
   callback job may fail and run again at any time, which is what `BackgroundJobs` allows.

What could come next: the attempt limiter of the verification code and the rate limiters at their
boundary; photo capture, whose one session has the races of every cache section (read, then delete);
the provisioning of a contract in Verified ID; the composition of `Issuance` with `AsyncIssuance`.

## 3. Modules and how they correspond to the code

`map` in `PROJECT.json` gives the lines of every definition.

### AsyncIssuance

One request; requests share none of this state. A *worker* is one execution of a handler: a GraphQL
call, a callback or a job run, on any instance. `op` is the handler it runs, `pc` its next step,
`ent` the `AsyncIssuanceEntity` it has in memory, `rid` the Verified ID request it deals with.

| Variables | Code |
|---|---|
| `row`, `expired` | the columns of `AsyncIssuanceEntity`; `expiresOn` has passed |
| `readers`, `writer` | locks on the row at REPEATABLE READ (`src/data/index.ts`) |
| `issuances` | `issuance` rows of the same credential record |
| `blob` | the data in `AsyncIssuanceService` |
| `code`, `throttle`, `session`, `details` | the Redis sections of `session.ts`, `limited-async-issuance-tokens/index.ts`, `callback/cache.ts` |
| `jobs`, `sent`, `terminating`, `request` | queued notifications, messages sent, floating clean-ups, the requests as Verified ID sees them |

An action is a piece of a handler between two points where others can act: a database statement, a
call to another store, the commit. Handlers that read the row inside the transaction that saves it
(`ReadShared`) take a shared lock; others take a copy (`ReadCopy`). `Save` is the save at the end of
a handler's transaction: TypeORM writes the columns in which the entity differs from the row, so a
stale entity overwrites. `Abort` rolls back the row and the locks and nothing else. `Kinds` says
which handlers an instance has, error handlers included, so that one instance explores a part of
the life cycle in depth; `Next` is the same in all. A call that its first check refuses changes
nothing and is no action.

### RemoteOffer

What a request promises: offered once, then settled once. `AsyncIssuance` implements it
(`ImplementsOffer`) by the mapping `stage <- Stage`, `credential <- row.issuanceId`, as long as no
handler saves an entity of an earlier transaction.

### BackgroundJobs

`queue`, `run`, `made`, `keys` are BullMQ's: where a job id is, which run, attempts made,
deduplication key. `ended` records what BullMQ decided. `publishing` holds the calls of
`publishBackgroundJobEvent` in flight, each with its next step: first cache, then publish. A caller
goes from `start` over `added` (job added) and `waiting` (cache looked at) to `done`. `subscribed`
says for whom the subscription is in force: the code asks for it before it looks at the cache but
does not wait for it, so `Subscribe` and `CheckCache` come in either order. `fresh` says of which
jobs the result was cached since their last run was added: the entry has the TTL of the
deduplication key and is written later, so it is there as long as the key; nothing keeps it for a
caller that was just told to wait for it. Jobs are fresh uuids, which run once, or names of deduplicated jobs.

### CredentialRecords, RecordQuery and CredentialRecordFilter

Pure operators with the names of the source. A record is a record of what its three tables hold, with
comparisons of dates already made; `Consistent` is what completing an issuance guarantees
(`ListedOnce` of `AsyncIssuance`). The CASE expressions, the WHERE conditions and the choice of
branches are three separate translations, so that they can disagree. `RecordQuery` is a client that
asks for one record with any status and method.

`CredentialRecordFilter` takes the calls of the recursive `flattenToConjunctions` in the order in which
they return: a step is a turn of its loop over AND (`AndClause`) or over OR (`OrClause`), with one of
the calls that have returned as the call for the clause, or the return itself and the start of the
next call (`Return`). Every finite filter is made in this way, its parts first, so no recursive
operator is needed, and an invariant of the steps is an induction over filters. Beside the
conjunctions the state keeps the rows that the filter means (`meant.all`, `meant.some`). The rows
selected by the conjunctions include these, and are these where the parts that must hold together set
different fields (`meant.once`; `FlatteningIsSound`).

### Issuance

One Verified ID request, in person or (`remote`) made for a remote issuance, until its credential is
revoked. For each kind of event, `callback` says whether Verified ID still sends it and `handler`
is the next step of its handler: `save`, `cache`, `forward`. `HandlerFails` and `ForwardFails` are
everything that makes the answer something other than a success. `Dated` tells a request that
gives the date on which the credential expires from one whose validity begins with the save, with
every delivery of the success anew (`ExpiryRenewed`). Commands of operators read, call
and save in separate steps. `record`, `issuance`, `past` are the columns from which
`CredentialRecords` computes the status, which is what the properties are about.

### PresentationFlow and FlowOutcome

One flow; flows share none of this state. `mode` says what ends it: the presentation itself, the
responder's submit, or an mDoc response. `row` is the committed row, `draft` the row as the
transaction that saved it sees it, `readers` and `writer` the locks. A worker is one execution of a
handler, with `op`, `pc` and the request it deals with (`on`). `request`, `details`, `tokens` are the
presentation requests and their cache entries; `jobs`, `posting`, `told` the callback job, queued,
being posted, accepted; `notices`, `sent`, `contact` the notification of the responder; `event` and
`view` a subscriber to the flow and what it last saw. A handler reads under a shared lock, calls,
saves, and commits or aborts: each is a step (an mDoc response finds the details of its request one
step before it deletes them, so that two responses to one request overlap), and an abort leaves the queue, the blob and Redis as
they are. `calls` is the set of events one behaviour is made of (`Scenarios`): a configuration
explores several groups of events deeply and leaves out those that do not meet.

`FlowOutcome` is what the application is promised: the flow ends once, and the application hears of
that end and of no other. `PresentationFlow` implements it (`KeepsOutcomePromise`) by
`outcome <- OutcomeOf`, `told <- ToldOutcomes`. An mDoc flow is mapped to one that stays open, because
its submission does not queue the callback (section 6); the property is about the other two.

### OidcLogin

The logins at one client. `interaction` and `result` are what the oidc-provider library keeps of a
login, `data` and `session` the two Redis sections, `page` the login whose page was given an access
token, `request` the presentation requests, `presented` and `presentations` the cache and the table
that a callback writes, `account` the account blobs, `told` the presentation that the tokens of a
login tell of. A worker's `copy` is the login data it has read and will write back: between the two
are the call to Verified ID, the transaction of a callback, the search for the presentation.
`kind` says how the authorization request begins a login: plain, as a second factor with or without a
known identity, or not at all. No handler looks at it. What they look at is `eam` of the login data
(`integrations.entraEam`), which is gone once the data has expired or a login has deleted it
and the page has started afresh; `request` keeps the `eam` a request was made with, which is the constraint
that Verified ID applies. Each delivery of a callback inserts a presentation of its own
(`inserted`, of the worker). `modern` is the setting that lets a page be loaded again after the login
has started.

### RecordMigration

The rows of three tables as far as the migration reads and writes them, `has` the structures in
place, `step` the next statement, `before` the database when the migration began. Other sessions see
none of its statements (one transaction for each migration), so the application's actions are for
`step = "none"`; an error takes back the whole. `Starts` says what can be in place: nothing, with any
rows; everything; or the first of the seven migrations this one replaces. New ids are any that are
not in use. `up` may run again on its own result, `down` may take it back, the application works on
the migrated schema in between, and `up` then meets the rows it left. `details` are the ids of
credentials to be issued as the application caches them: a callback inserts the row with that id, or
saves it when it comes again (`Issue`), and a remote request can be claimed several times. `stale` are
the remote requests of which a handler has an entity without the flag; its save writes that back
(`SaveEntity`). The details are kept over a migration, and a callback of before may come after it.

### InstanceReload

`topic` is what is loaded: the OIDC provider (clients from the database, keys from blob storage), a
list or the settings of the instance configuration; all three are announced and reloaded by the same code.
`committed` is the version in the database, `tx` and `timer` a command that has told of its change and
the debounced call of its instance, `held` what each instance works with, `load` its loads in flight,
`subscribed` the instances that hear of changes. `made`, `blobs`, `mature`, `due` are the keys by the
day on which they were made, `jobDue` and `job` the job of the night, `creating` a rotation between
its delete and its create. Timing assumptions: a reload ends within the day and, unless "overlap" is
among the events, before the next notification.

## 4. Runs

`CHECK_DEADLOCK FALSE` is set everywhere because a request, or a set of calls, ends.

| Run | Instance | What it shows |
|---|---|---|
| `delivery` | 2 workers; creation, notification, verification code, contact update, both cancellations, failed sends and bounces; throttle and request details can expire | types; an entity read under a lock stays the committed row |
| `claiming` | 2 workers; verification code, token, both claims, callback, the claims' error handlers, batch cancellation; the session can expire | issued and cancelled are left only by a stale save; an issued row names an issuance that exists, stale saves included |
| `lifecycle` | 2 workers; the handlers that read and save in one transaction; code and request details can expire | implements `RemoteOffer`; data gone when issued; listed once; flag kept |
| `jobs` | 2 callers, a job with two attempts, a deduplicated one with two runs, 1 lost instance; subscriptions, keys and results at any time | types; a final event is only told of a run that ended so; the result is kept as long as its key; who is subscribed before the final event stops waiting |
| `records` | all 36,864 combinations of a record and a filter; all filters of depth up to 3, up to 4 conditions, 2 fields, 2 values, after up to 3 filters that they can contain (`MaxFilters`), each any number of times | listed by one branch; filter agrees with status for all but two statuses; flattening misses no match and is exact without conflicts |
| `issuance` | both kinds of requests, without a given date, 2 operators, 1 failure | types; told is recorded; revoked is revoked; the life cycle goes forward only; each event of an in-person request reaches the consumer |
| `flow` | 2 workers, 1 request, its callback delivered twice, flows of all three modes in three groups of events | types; implements `FlowOutcome`; an end has its job; submitted on a committed presentation; no message once closed; an mDoc end is seen |
| `login` | 2 workers, 2 logins, 2 pages, 2 requests, 2 credentials, one of them the Entra user's; a second factor with repeated callbacks and failures; a plain login with expiry and abort; two logins, plain or second factors, with logouts; a plain one beside an unmatched second factor whose data expires | types; a login succeeds on a presentation made in its own page, recorded if delivered once; it ends as the user its credential was asked for; tokens of the Entra user tell of a credential of that user |
| `migration` | 2 issuances, 2 remote requests, 4 ids, 2 migrations up or down, from nothing or everything | types and foreign keys; each row has its own record, each record its row; links survive a second run |
| `reload` | 2 instances, 3 versions; quiet nights, edits, slow commits, restarts, overlapping loads, early rotations, failures | types; a quiet instance is fresh; the key in use is published by all and stored, and is replaced in time; every edit is loaded |
| `settled_not_final`, `key_at_once` | the least that shows it | violations, section 6 |

**Why the bounds are enough.** Two workers give every pair of handlers in every interleaving, and
each in turn continues as any other handler; the stale saves need just two, and so does a
shared lock that meets an exclusive one. One Verified ID request per remote request suffices where no
second can be made usable. `Expiring` lists the cache entries that reach their TTL in an instance:
each of the four expires in one of the runs, and elsewhere an expiry only leads to the refused branch
of the call that finds nothing. Attempts: 2 of 18, so that a first, a retried and a last attempt
exist; two runs are needed for a stale event. One failure makes one handler run twice, after any of
its steps, next to two operators. The filter's limits are lowered from twenty conditions to four: a
conflict needs two, a conflict across an AND and an OR three; of the three levels allowed, each
contains a filter that was flattened before, so three of these reach every level. `flow`: one request delivered twice is
one presentation over another; two jobs are the most that a second delivery makes. `login`: two pages
of one login, or one of each of two; two requests, so that the later can overwrite the earlier; one
account shared or one each. `migration`: two rows of each table can share a record, or have one each;
up and up, up and down; what `down` leaves for a later `up` are rows of the start "nothing". `issuance`:
with a date, an expired record is one step further in the order (`Phase`), for which the proof holds as
well. `reload`:
keys rotate after two days instead of seven, which keeps the order of a key that matures before the
next is due; nine days are four rotations, one more than keys are kept. The theorems of section 5 do
not depend on these bounds.

**What `reload` does not claim.** `FreshWhenQuiet` and `EditIsLoaded` are not claimed of overlapping
loads, restarts and failed loads, nor of a commit later than its notification except by the provider,
whose load waits for the locks; the keys' properties not of a rotation that something other than the
night's job makes, nor of restarts and failures. Each of these is a hazard of the list at its line,
and the runs of section 6 show some of them.

**What `jobs` does not claim.** `AwaitEnds` is about a caller that is subscribed while the final event is
still to be published (`WillHear`). That one can come too late, and then waits for ever, is a fault of
the code that `jobs_late_subscription` shows (`EveryAwaitEnds`, section 6).

**What `login` does not claim.** `LoginOnRecorded` is about callbacks that were delivered once. When one is
delivered again while the first runs, its event and the login data name its presentation even
if it is rolled back, and the login, which reads the first one's row and the second one's event, ends
on an id that is in no table. That a login with its data lost *ends* differently than it began is not
excluded either: only that it ends differently than its credential was asked for.

**Fairness.** `jobs`: workers take jobs and finish attempts (BullMQ polls; handlers have
timeouts), calls of listeners go on, callers go on; nobody has to call, nothing has to expire.
`issuance` and `remote_untold`: Verified ID sends a callback again until it is answered with a success, and an
instance that received one goes on or fails; failures are bounded. Operators and the wallet owe
nothing. `flow`: a queued callback job is taken (WF), and an application that is called again and
again accepts in the end (SF: the job is retried for three days). `reload`: what an instance has
begun, it ends, and a rotation goes on (WF of `Work` and `Rotate`); nobody has to edit, start or stop.
`login` and `migration` have safety properties only.

## 5. Proofs

| Module | Theorem | Property |
|---|---|---|
| `AsyncIssuance_proofs` | `TypeCorrect` | `TypeOK` |
| | `SnapshotStaysCurrent` | `SnapshotCurrent` |
| | `IssuedIsLinked` | `IssuedLinksIssuance` |
| | `IssuedKeepsNoData` | `IssuedHasNoData` |
| | `OnlyStaleSavesUnsettle` | `SettledLeftOnlyByStaleSave` |
| | `RefinesOffer`, `IsListedOnce`, `FlagIsKept` | of every handler of the code: each step but a stale save is one of `RemoteOffer`, keeps `ListedOnce`, keeps the flag |
| `RecordQuery` | `ListedOnce`, `FilterNarrowsResult` | `EachListedOnce`, `FilterIsExact` |
| | `FlatteningSound` | `FlatteningIsSound` |
| `BackgroundJobs_proofs` | `TypeCorrect`, `EventsAreTrue`, `ResultOutlivesKey` | `TypeOK`, `FinalEventsAreTrue`, `KeyedResultKept` |
| `Issuance_proofs` | `TypeCorrect`, `ToldIsRecorded`, `ListedRevokedIsRevoked`, `LifecycleGoesForward` | `TypeOK`, `SuccessIsRecorded`, `RevokedInEntra`, `PhaseNeverGoesBack` |
| `PresentationFlow_proofs` | `TypeCorrect`, `EndIsQueued` | `TypeOK`, `OutcomeQueued` |
| | `SubmittedWithPresentation`, `ResponseIsSeen` | `SubmittedOnPresentation`, `MdocOutcomeSeen` |
| | `MessagesWhileOpen` | `NoMessageOnceClosed` |
| | `FlowKeepsOutcome` | the safety part of `KeepsOutcomePromise` (`KeepsOutcomeSafely`) |
| `OidcLogin_proofs` | `TypeCorrect` | `TypeOK` |
| | `LoginOnOwn`, `LoginIsRecorded` | `LoginOnOwnPresentation`, `LoginOnRecorded` |
| | `EndsAsRequested`, `EntraTokens` | `LoginAsRequested`, `TokensOfEntraUser` |
| `RecordMigration_proofs` | `TypeCorrect` | `TypeOK` |
| | `RowsAreRecorded`, `RecordsHaveRows` | `EveryRowRecorded`, `NoRecordWithoutRow` |
| | `LinksStay` | `LinksKept` |
| `InstanceReload_proofs` | `TypeCorrect`, `KeysAreNewest` | `TypeOK`; the stored keys are the last ones made (`KeysInv`) |
| | `QuietIsFresh` | `FreshWhenQuiet` |
| | `InUseIsPublished`, `InUseIsReplaced` | `KeyInUsePublished`, `KeyInUseNotOld` |

They hold for every number of workers, requests, callers, jobs, operators, failures, logins, pages,
migrations, instances, edits and rotations, any interval between rotations, and filters over any
fields and values, of any depth and size, under the named
assumptions on the constants (`ConstantsOK`, `DatedAssumption`, `FailuresAssumption`, `FlowConstants`, `LoginConstants`,
`MigrationConstants`, `ReloadConstants`), which are types and the distinctness of the sentinels.

*AsyncIssuance.* `SnapshotCurrent` is not inductive: nothing in it says who holds a lock. `LockInv`
says that the locks are exactly those of the transactions in flight, read off `op` and `pc`, and
that exclusive means it; `EntityInv` that the entity of such a transaction is the committed, open
row; `PurgedInv` that the data is gone before a callback commits. Four lemmas describe the ways a
worker moves (goes on, takes a shared lock, leaves, writes and leaves) and each action is one of
them. The last three theorems assume nothing of the handlers. Stale saves do reopen a request, list it
twice and clear the flag (section 6); what is proved is that nothing else does, in whatever state
an earlier one has left the row. `SaveInTransaction` and `OtherSaves` carry it: the entity of any other
save is the committed, open row.

*BackgroundJobs.* `KeyedResultKept` needs the cached entry to be one that outlives the key
(`FreshResultKept`), not one of an earlier run. For the rest, `ended` only grows, so what was true when told stays true. The step that needs an
argument is `Fail`: the listener's formula and BullMQ's rule agree (`ListenerAgrees`), although the
listener computes its own from the option and a default.

*Issuance.* Both invariants look one step back: a success that is about to be told is recorded
(`Recorded`), a revocation that is about to be saved has happened (`Revoking`). The latter needs
that Verified ID never makes a revoked credential valid again, hence `IssuedOnce`.
`LifecycleGoesForward` first proves that the query finds an in-person record in one branch
(`QueryPhase`), then that no step takes a column back (`ColumnsGrow`), but for the expiry without a date.

*PresentationFlow.* As in `AsyncIssuance`, the invariant first says which locks are held by whom
(`RowInv`): a transaction that writes is the only one that has read the row, so the draft it commits
continues the row it checked. `ToldInv` follows an end from the handler to the application: it is
queued before its transaction commits, kept once committed, and every job in the queue or in flight
carries an end that was committed or is about to be. From the two, each step maps to a step of
`FlowOutcome` or to a stutter.

*OidcLogin.* A handler works on a copy of the login data that others overwrite meanwhile, so nothing
holds of the data alone. What does hold is that everything a copy refers to belongs to the login from
whose page it came, that its `eam` is that of its request (`Fits`, `Handling`), and that what a
request is for and who presented to it never change (`Lasting`). A login compares the identity at its
end with the `eam` of its copy, hence with what the credential was asked for; the account of the
Entra user is only written after that (`AccountOfSubject`), whoever overwrites it.

*RecordMigration.* The invariant is stated of the database and of `before` alike, because an error
puts `before` in the place of the database. `Sound` says that links lead to existing records and that
two rows share a record only if one names the other; `Reserved` and `DetailsInv` that the ids and the
record in cached details belong to one request only. From these the backfills leave rows that the
constraints accept, and a callback, however often it comes, inserts a row with a record that no other
has: no index is used as a guard there.

*InstanceReload.* In every scenario the stored keys are the last *n* made, two of them between the
delete and the create of a rotation and at most three at other times (`KeysInv`); a list read from
them is then known up to the place of the newest key (`NewestTaken`, `HeldBackTaken`).
`KeyInUsePublished` compares two instances and is not inductive: nothing in it says that an instance
with the keys of yesterday will load again. `HeldInv` says it of each instance alone. What it holds is
as new as the keys, or the last rotation was today and a job, a timer or a load will bring it up to
date. That the rotation was today is what keeps its key out of use, since a key matures only the
day after (`CalendarInv`). The step that needs the argument is `RunJobAfter`: the instance whose job
waited for the rotation cannot yet use the newest key, hence finds the keys changed, and tells all.
`KeyInUseNotOld` follows from the calendar: a key becomes due within `RotateAfter` days and is
replaced the night after. For `FreshWhenQuiet`, `FreshInv` says of each instance that has not the
committed data that its load has yet to read it or that a timer still runs; only the provider may
lose the timer before the commit, and there every load waits for the commit (`Readable`).

*RecordQuery.* One lemma for each branch says that the statuses it filters by are those it computes;
that the methods agree, and that a consistent record is in one branch, are lemmas of their own.
The domain is finite and the run enumerates it; the proof adds the reason, branch by branch. For the
filter, `FlatteningInv` says of each call that has returned, and of both variables of the call under
way, that the conjunctions stand for the rows meant (`StandFor`) and set fields of the filter only
(`Within`), without which "no common field" would say nothing of the conjunctions. `MergeStandsFor` is
the step: a row that satisfies two conjunctions satisfies the merged one, and the other way round if
they have no field in common.

*Only model-checked:* liveness (`AwaitEnds`, `EventsReachConsumer`, `EditIsLoaded` and that of
`KeepsOutcomePromise`), which needs fairness; and the refutations.

## 6. Disagreements between code and documentation

Each is a run whose trace is the evidence; `findings` in `PROJECT.json` quotes the lines.

- `settled_not_final`: the authenticated claim saves an entity of an earlier transaction before it
  checks its status, so a cancelled request is open again.
- `key_at_once`: an instance that loads the keys while a rotation is due returns them newest first
  (`keys.ts:28`), and so signs with a key that no other instance publishes; the comment above it and a
  test say that the newest goes to the end until it is old enough.

More of them came up. They have a configuration and a property, with the document's words beside it,
but are not among the regular runs. A configuration with two properties shows both with `-continue`.

| Configuration (module) | Property | What its trace shows |
|---|---|---|
| `settled_keeps_data` (`MCAsyncIssuance`) | `SettledHasNoData` | a contact update that loses to a cancellation has already uploaded the data again |
| `listed_twice` (`MCAsyncIssuance`) | `ListedOnce` | the batch cancellation saves rows it read up front, over an issued one (`cancel-async-issuance-requests.ts:46`) |
| `issued_after_expiry` (`MCAsyncIssuance`) | `NotIssuedAfterExpiry` | a verified request has no expiry (`async-issuance-entity.ts:119`) |
| `cancelled_issued` (`MCIssuance`) | `CancelledIsNotIssued` | a cancelled in-person offer can still be redeemed, and is then listed as issued (`issuance-callback-handler.ts:42`) |
| `remote_untold` (`MCIssuance`) | `SuccessReachesConsumer` | if the consumer's endpoint fails once for a remote issuance, it never hears of it (`complete-async-issuance.ts:21`) |
| `final_overwritten` (`MCIssuance`) | `FinalEventStaysCached` | a repeated `request_retrieved` replaces the final event for pollers (`issuance-callback-handler.ts:84`) |
| `jobs_retried` (`MCBackgroundJobs`) | `UnrecoverableIsNotRetried` | an `UnrecoverableError` is retried, because it is wrapped (`worker.ts:55`) |
| `jobs_no_result` (`MCBackgroundJobs`) | `CompletedReturnsResult` | an awaited job returns its event, not its result: no event carries `__typename` (`background-jobs/index.ts:81`) |
| `jobs_stale_event` (`MCBackgroundJobs`) | `AwaitedRunIsOver` | an awaited deduplicated job returns the event of its previous run (`background-jobs/index.ts:107`) |
| `jobs_late_subscription` (`MCBackgroundJobs`) | `EveryAwaitEnds` | an event between the look at the cache and the subscription is missed (`redis/pubsub.ts:60`) |
| `records_filter` (`MCCredentialRecords`) | `FilteredStatusIsReturned` | the filters by `offered` and `verificationStarted` return records with another status (`find-credential-records-query.ts:240`) |
| `records_filter` (`MCCredentialRecords`) | `AllConditionsMatch` | of two conflicting conditions under AND one is dropped (`find-credential-records-query.ts:64`) |
| `expired_reopened` (`MCPresentationFlow`) | `ExpiredIsTerminal` | an expired flow is reopened by a presentation that arrives late: a verified flow has no expiry (`presentation-flow-entity.ts:152`) |
| `outcome_unseen` (`MCPresentationFlow`) | `OutcomeSeen` | the end of a flow is published before it commits: a subscriber reads the state before it and hears no more |
| `mdoc_untold` (`MCPresentationFlow`) | `EveryOutcomeQueued` | an mDoc submission queues no callback (`process-mdoc-presentation-response-command.ts:97`, `presentation-flows.mdx:211`) |
| `login_mixed` (`MCOidcLogin`) | `TokensOfOwnPresentation` | two logins with one credential share an account blob: the tokens of one tell of the other's presentation (`ttl.ts:12`) |
| `login_unmatched` (`MCOidcLogin`) | `UnmatchedIsDenied` | an unmatched second factor is an error, or a login that goes on, but never denied (`entra-eam.ts:146`) |
| `migration_split` (`MCRecordMigration`) | `IssuedSharesRecord` | the migration gives an issued request one record and its issuance another; the application gives them one (`create-issuance-request-for-async-issuance-command.ts:95`) |
| `migration_split` (`MCRecordMigration`) | `FlagOnlyWhenSent` | the migration sets the flag for any message that failed (`async-issuance-entity.ts:97`) |
| `migration_fails` (`MCRecordMigration`) | `NoStatementFails` | on a database with the first of the replaced migrations, records without a context make NOT NULL fail (`1776384000000-add-credential-record.ts:15`) |
| `settings_stale` (`MCInstanceReload`) | `AlwaysFresh` | an instance announces a change before its commit; if that takes longer than the debounce, all load the old settings (`instance-configs/index.ts:44`) |

## 7. Assumptions about what is not in the repository

- SQL Server at REPEATABLE READ: shared locks last to the end of the transaction, no two transactions
  save a row that both have read. Inserts under a unique index wait for each other.
- BullMQ: a job whose id is in the queue, or whose deduplication key lives, is not added; a job is
  retried unless its attempts are used up or its error is an `UnrecoverableError`; a stalled job runs again.
- Redis delivers a published event to the subscriptions in force, in order. The result of a
  deduplicated job is cached as long as its key lives and from a later time on; both can expire before a caller looks.
- Verified ID issues one credential per request, sends a callback again until it is answered with a
  success, and callbacks of one request may overlap. A revoked credential stays revoked. In
  `Issuance` the request details (one hour) outlive the callbacks of a QR code (five minutes); in
  `AsyncIssuance` they can expire.
- In `PresentationFlow`, an application that is called again and again accepts in the end. Verified ID
  delivers an event of a presentation again after an error, and a wallet may present at any time.
- The oidc-provider library keeps an interaction and its result together, lets a login be resumed once,
  and asks for the account when it makes tokens. Blob storage keeps the last upload of a name.
- Each migration is one transaction, and no migration runs while the application that needs its result
  serves.
- In `InstanceReload`, a load takes less than a day; a notification reaches all instances that are
  subscribed; a transaction that reads the provider's clients waits for those that changed them.

## 8. Not modelled

- In remote issuance: the attempt limiter of the verification code, the photo capture that an
  acquired token can open, the validation of the bulk input. Merged into one step: the two deletes of
  a redemption, the session entries that are set together, making a Verified ID request and caching
  its details.
- In issuance: locks of the operators' transactions (left out, which only allows more
  interleavings), consumers that gave no callback, the subscription to issuance events.
- In background jobs: the scheduler, progress events, result handlers (which apply results of
  different runs in the order of their arrival), a listener's call that nobody awaits and that is lost
  (`pubsub.ts:39`).
- Modelled, but with no property about them: two attempts that both redeem one verification code, the
  session in progress that is ended without waiting, a notification job that runs before the insert of
  its request has committed; in flows, contact details stored for a row that is
  rolled back, a repeated notification that marks a sent one as failed, a verified callback that throws
  because its token has no entry.
- In presentation flows: what the result holds, templates, constraints on claims, the message's wording.
- In OIDC login: the protocol itself (the oidc-provider library), grants, the claims of tokens and the
  filter of claim mappings (`session.ts:290`).
- In the migration: indexes that are not unique, the repairs of two tables of the OIDC provider, and the
  previous version of the application, which works on the schema without records and is not in the
  repository. `down` also drops the records of offers in person that nobody accepted; no property says
  otherwise.
- Photo capture: one session for each capture in Redis, with single use by read and delete.
- Whole components: see the plan, and `components` in `PROJECT.json` with the reason for each. Rows
  that are created, changed and deleted by one transaction each, pure input validation,
  authorisation rules, configuration and tracing have no behaviour of the kind these modules are for.

## 9. Reproducing

`tlc -config <run>.cfg <module>.tla` for a run (module and properties are in `PROJECT.json`),
`tlapm <module>_proofs.tla` (or `RecordQuery.tla`) for a proof. A definition marked *Variant* is a faulty form of the one
after it: put it in that one's place and the property named in `mutants` fails, which shows that
the property depends on the code.
