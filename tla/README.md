# acat-go-common: a verification project

TLA+ models of the parts of this library where order, failure and concurrency
decide whether it is right, model-checked with TLC on small instances, and
theorems about them for every size, checked by TLAPS.

    cd tla
    tlc -workers 2 -config serial_exclusive.cfg MCSaToken
    tlapm SaTokenProofs.tla

## 1. The system

The library is the common base of several Go services: every instance of a
service handles HTTP requests in goroutines, keeps sessions in Redis, business
rows in MySQL and documents in MongoDB. Nothing in the library locks across
calls: what two goroutines or two instances share is in those stores.

| Component (package) | State | Operations | What is hard | What makes it right |
|---|---|---|---|---|
| Sessions (`satoken.Logic`) | three keys per account and token in the store: token, last-activity stamp, Account-Session | Login (kick, share, renew, new), Logout, CheckLogin, GetSession, SaveSession | every operation is several store calls; a call may fail before or after it took effect; whole sessions are read, changed and written back unlocked | accounts never mix, a removed token stays removed, one live token with `IsConcurrent = false`, an idle token is refused, a store fault is no 401 |
| Stores (`MemoryStore`, `RedisStore`) | keys with a time to live | Get, Set, Delete, Expire, SetExpire | expiry between check and delete; read-then-write without a transaction | one call is atomic; an expired key is absent; a fresh value is never deleted as expired |
| Session codec | none | marshal, unmarshal of the Java-typed JSON | four writers with four forms of one session; wrappers that look like data | permission checks decide what the last login meant; Java reads back what it wrote; no terminal is lost |
| Middleware, apperr | none | Auth, WithSession, Recover, Trace, CORS, Chain, WriteError, HTTPStatusOf, CodeOf | errors wrapped in errors; which becomes which answer | 401 only without a valid login, 503 for a store fault, 500 for a panic |
| Permissions, authn | the session snapshot of a request | CheckPermission, RequireAll/Any, groups | root, empty lists, missing sessions | equals the set definition |
| JWT login (`jwtauth`) | none (signed token) | Login, Logout, CheckLogin, GetSession | a logout that cannot revoke | a token is accepted until it expires |
| Transactions (`db`) | a transaction in the context | Within, nested Within, statements through the handle | inner errors, panics, cancelled contexts, commits of unknown outcome | all or nothing; nothing left open |
| MySQL helpers (`mysqlx`) | rows with version and is_deleted | Insert, Update, Delete, paging | optimistic locking over stale reads | no lost update, no revived row |
| Outbox (`mongox`) | the table `t_read_mongo_outbox`, MongoDB | Enqueue, Sweep, Loop | crash between two stores, retries, several instances | no event lost, the stores agree, attempts are limited, every event settles |
| Server, health | listener, checks | Run, closeService, ReadyHandler | shutdown racing handlers, a listener that fails, the shared deadline of the checks | handlers end before the service closes, a signal ends Run, probes do not lie |
| Configuration | none (a file and the environment, read once) | Load, ExpandEnv, Normalize | four layers applied in turn | what a service starts with is usable |
| result | none | NormalizePage, Offset | the width of int | pages tile the list |
| logging, redisx, objectstore | none or a client | I/O | | see section 8 |

The middleware calls `Logic.CheckLogin` and `Logic.GetSession` for each request;
services call `Login`, `Logout` and `SaveSession`; `Logic` calls a `Store`. A
service calls `db.Handle.Within` with a function that calls repositories, which
use `mysqlx`; the outbox row is written in the same transaction as the business
row, and a `Replayer` of each instance carries it to MongoDB.

`PROJECT.json` lists every component with its status, and the hazards of the
code with the line where each one bites and the properties that watch it.

## 2. The modules

| Module | Models |
|---|---|
| `Stores` | `src/satoken/store.go` and `src/satoken/store_redis.go`: two implementations of one interface |
| `StoresProofs` | theorems about `Stores` |
| `SessionCodec` | `src/satoken/session_codec.go`, and Jackson as the Java services use it |
| `Permission` | `src/permission/permission.go` with the checks of `src/satoken/logic.go` |
| `SharedSession` | the composition of the two: one session with four kinds of writers |
| `SharedSessionProofs` | theorems about `SharedSession`, `SessionCodec` and `Permission` |
| `Config` | `src/config/config.go` |
| `Answers` | `src/apperr`, `src/result` and `WriteError` of `src/middleware/middleware.go` |
| `Service` | `src/server/server.go`, `src/health/health.go`, Auth and Recover, the providers of a login; on `Config` and `Answers` |
| `ServiceProofs` | theorems about `Service`, `Config`, `Answers` and `Paging` |
| `Paging` | the offsets of `src/result/result.go` |
| `MCStores`, `MCSharedSession`, `MCService` | their small instances for TLC |
| `SaToken` | `src/satoken/logic.go` as `src/middleware/middleware.go` uses it |
| `TokenLifecycle` | the abstract life of a token: fresh, pending, live, dead |
| `SaTokenOverlap` | `SaToken` with a history of which requests overlap a newer session |
| `MCSaToken`, `MCSaTokenOverlap` | symmetry sets for TLC |
| `SaTokenProofs`, `SaTokenRevocation`, `SaTokenSerial` | theorems about `SaToken` and `SaTokenOverlap` |
| `MongoOutbox` | `src/mongox/mongox.go`, the replay of the outbox |
| `MongoOutboxProofs` | theorems about `MongoOutbox` |
| `Transactions` | `src/db/tx.go` and `src/db/affected.go` with the writes of `src/mysqlx/mysqlx.go` |
| `MCTransactions` | symmetry set for TLC |
| `TransactionsProofs` | theorems about `Transactions` |

A definition marked MUTANT is a plausible mistake in the definition after it,
used by no specification. Put in its place, it makes a property fail that the
code's own definition satisfies; this shows that the property can fail.

### SaToken

A member of `Procs` is a request handler of any instance. `req[p]` holds its
program counter and locals: the copy of a session (`sess`), the terminals still
to kick (`todo`). There is one action per call of the store, with the local code
up to the next call folded into it: `ReplacedGet`, `ReplacedDeleteToken`,
`ReplacedDeleteActive`, `ReplacedSave` are the four calls of `replaced`, and so on
for `renew`, the new login, `Logout`, `CheckLogin` and `SaveSession`. `StoreFails`
is an error before the call took effect, in any state; `Answered` also allows an
error after it took effect (a timeout). Both end the request, as every caller in
`logic.go` returns the error; the exception is the read of the stamp in
`CheckLogin`, whose error is ignored, and in the model too.

Abstractions. Time is what decides an outcome: a stamp is recent or idle, and
`GoIdle` makes it idle. `Expire` removes a key whose time to live is over. The
dataMap of a session is the number of the last business update it contains. The
order of the terminal list is the order of the indices. The Token-Session key
is only ever deleted, so its call is folded into the one before. A token no
login has drawn is answered like one that was removed, so only drawn tokens are
presented. `issued`, `condemned`, `revoked` are history variables for the
properties; no guard reads them. A login draws a token nobody has drawn:
random values do not repeat.

`Spec` lets all requests overlap. `ApartSpec` is `Spec` for clients that send the
requests of an account one after another (`Apart`): those of different accounts
still overlap as they like. Nothing in the library makes clients do so; it is the
condition of the theorems of `SaTokenSerial`, and "More counterexamples" in section 3
says what overlapping costs.

`SaTokenOverlap` adds one history variable to `Spec`, with requests overlapping as
they like: `behind`, the requests that were already running when a session with newer
business data was stored. Such a request may hold the copy of before and write it back
(`saveSession` overwrites the key), so permissions can really be rolled back;
`RollbackOnlyByOverlap` says that nobody else does it, and so what a caller of
`SaveSession` may count on: a request that comes in later never brings back the older
permissions, whatever overlaps, fails or expires.

`TokenLifecycle` is what a token promises without sharing: it is drawn, is live
once, and is dead for good. `Lifecycle` in `SaToken` gives the refinement mapping
(`Stage`).

### MongoOutbox

`Enqueue` is a committed business transaction: the write and its event, or
neither; events are numbered in the order of `created_at`, which is taken to be
the order of commits. A sweep is `Select` (the oldest `Batch` pending rows with
attempts left), then `Apply` and `MarkSynced` or `MarkFailed` per event. `Apply` may
return an error although MongoDB took the write; a mark may return an error,
written or not, and ends the sweep. `Crash` loses the rest of a sweep. Writes of a
service to MongoDB past the outbox are not part of the library.

### Transactions

Each run is a call of `Within` whose function is chosen step by step: `Read`,
`Update`, `Delete`, failing statements, nested calls (`Join`, `InnerReturns`), errors
it handles (`Ignore`), a return (`Commit`, `Rollback`) or a `Panic`. Statements go to
the pool before `Within` begins and to its transaction inside, which is what
`Handle.ExecContext` does with the context. `rows` are committed, `pend[p]` what run
`p` has written, `locks` InnoDB's row locks. External and modelled as used: MySQL
rolls back the victim of a deadlock as a whole, after which statements of a
function that goes on autocommit (`tx = "gone"`); database/sql rolls back when the
context of `BeginTx` ends (`Cancel`); the answer of a commit may be lost.
`Careless` says whether functions ignore that their transaction was rolled back.

The copy an update is based on may be as old as one likes, from before the
transaction included, so reads of an InnoDB snapshot are covered. Not modelled: a
function that uses the outer context inside `Within`, and a panic that an
intermediate function recovers (to `Within` it is a return). In `Row`, `ops` is the
set of runs whose updates the contents include; `by` (the runs that have updated the
row) and `bare` (one of them did so without a version) are history.

The updates of `mysqlx` are four actions: `Update` of an entity with a version, which
checks it and counts it up; `UpdateBare` of one without, which does neither and
overwrites; `UpdateColumn`, which has not read the row; and `UpdateNothing`, an entity
with no column to set, for which no statement is sent and 0 rows are reported. The last
three rest on mysqlx.go:283-302. An update without a version loses what it did not
read, and since it leaves the version as it was, a checked update that read the row
before it undoes it in turn. So `NoLostUpdate` speaks of the rows whose updates all
carried the version they read; mixing the two kinds on one table is up to the caller.

### Stores

`SaToken` takes a call of the store as one step that may fail; this module looks
inside the step. `call[p]` is the call of goroutine `p`. A lock section of
`MemoryStore` is one action: `Get` reads the entry (`MemRead`) and judges its
expiry after the unlock (`MemGetCheck`), where it deletes whatever the key holds
by then. `Set` computes the expiry before it takes the lock. A command of Redis is
one action, and an error may come after it took effect; `SetExpire(NeverExpire)`
is a GET and a SET (`RedisSetExpire`, `RedisRewrite`). No call touches two keys, so there
is one. Time is counted in ticks and a second has two of them, because `Get`
compares strictly (`After`), `Expire` does not (`<= 0`), and both truncate.

History: `seen` is what the key showed while the call was running, `intended` what
the key would hold if every call were one step, `tainted` that the last write
overlapped a call with an older copy, `reported` that a call answered "missing" and
no Set came since: any call of either store, of which each says so in its own way.

`MissingStaysMissing` is about a key that is missing and has been reported so. Both
halves are needed. `RedisStore.Expire` answers "missing" for a key with less than half
a second left, which still lives (store_redis.go:105, against store.go:26), so a report
alone proves nothing. And a GET that falls between the two commands of
`SetExpire(NeverExpire)` may rightly say that the key is gone and the SET then bring it
back, so that rewrite is the one way, besides a Set, in which such a key returns
(`Rewritten`).

What the reading found and the properties allow for, by name: `MemoryStore.Get`
may delete a value set after the expired one was read (store.go:72), and
`RedisStore.SetExpire(NeverExpire)` may undo an overlapping write
(store_redis.go:122): `ContentsAsWritten` holds unless `tainted`. `MemoryStore.SetExpire`
gives an expired entry that nobody has read a new life, which Redis cannot
(store.go:148). At the instant of expiry `Get` returns a value that `Expire` would
delete. `Expire` of `MemoryStore` answers 0 for a live key with less than a second
left, which store.go:26 does not count as valid. A `Timeout` of 0 or below -1 makes
`Set` a no-op, so `Login` would return a token that was never stored. The product
`timeoutSeconds * time.Second` overflows beyond 292 years.

### SessionCodec, Permission, SharedSession

A JSON value is a record with one field that names its kind; objects are
functions on a small set of member names. `DecodeCollection`, `DecodeDataValue`,
`DecodeDataMap`, `TerminalInfo` and `WrapValue` are the functions of the code, case by
case. A number that goes through `any` becomes a float64 (`Float`): `Exact` stands for
2^53, up to which that changes nothing, and the integers up to twice it are rounded as
IEEE 754 does. A nil `[]any`, which is what a list of earlier Go code without items
decodes to, is not the empty one (`NilList`). The extraData of a terminal is part of
it, and a terminal that does not decode fails the whole session.

Where the code calls itself on a value inside a value, the module calls a constant
operator (`AnyNested`, `DecodeInner`, `InnerToJson`, `JavaInner`): the proofs hold for
any. `MCSharedSession` gives them for the values inside those of its instance, and an
assumption there checks that on these they are the functions themselves.

`JavaValue` and `JavaDataMap` are what Jackson's default typing makes of the result
(external). A map has its class as a member, as in the repository's own fixture
testdata/satoken-java-session.json, or is in an array with it, as the comment at
session_codec.go:73 has it; `JavaWrites` writes either form and the reader takes
both. In `SharedSession` Java services (`JavaWrites`), earlier Go services
(`OldGoWrites`), a writer without types (`BareWrites`) and this package (`GoLogin`,
`GoRenew`, `GoLogout`, `GoSaves`) write one key in turn, whole operations at a time,
since `SaToken` has their interleaving. `codes`, `roles`, `attr` and `terms` are what
the writers meant.

What the reading found, and where each property stands to it:

* A numeric login id from seven digits on is printed with an exponent, so the session
  is saved under a key no request reads (logic.go:394). All three properties are
  stated while the stored id names its own key (`SameKey`).
* A map among the attributes loses its class in a rewrite (session_codec.go:420), and
  Java then refuses the whole session; a boxed number in an array with its class is
  taken for a list and comes back as an `ArrayList` (session_codec.go:346). These are
  the values that are not `Portable`, and `JavaReadsBack` says nothing of them.
* A number inside a list beyond 2^53 is rounded (session_codec.go:335, 453). The
  property allows that by name (`AsDoubles`) and nothing else.
* Inside the members of a map a list of a text and a list loses one layer per rewrite.
  A map is not `Portable` anyway; the theorems ask that its members come back
  (`MapInside`).
* A nil list is written as `[class, null]` and is read back as a list of two, its
  class being the first (session_codec.go:350, 227). Only earlier Go code writes one,
  and not as codes.
* extraData that Java wrapped in an array fails to decode (session_codec.go:303), and
  with it the session, for every request. `TerminalsSurvive` says exactly when;
  `DecisionsFollowSnapshot` speaks of sessions that decode (`Readable`).

`Permission` keeps nil pointers apart (actor, checker, its logic, session).
`RequireAllPermissions()` and `RequirePermissionGroups()` without arguments pass even
a nil actor; `RequireAnyPermission()` passes root alone.

### Service, Config, Answers

The main goroutine of `Run` (`Main`: `Start`, `SeesError`, `SeesSignal`, `Drained`, `TimesOut`,
`Close`), the listener and one goroutine per request are interleaved. `Shutdown` is
two steps, closing the listener (`SeesSignal`) and waiting (`Drained` or `TimesOut`).
Where `select` finds both cases ready either is taken. A request is a probe or
passes Auth: `ExtractToken`, `Login` (CheckLogin), `LoadSession` with the hook of the
service, `Handle`. `Outcomes` is what a provider may answer: the store of
`satoken.Logic` may fail at any time and does once the service is closed;
`jwtauth.Logic` has no store, its `Logout` and `SaveSession` do nothing, and its
sessions carry no permissions, so that behind it every check of a permission ends
with 403. A panic goes to `Recover`; if the handler had begun to answer, the status
that was sent stands ("late").

`Answers` has errors as chains of layers, the outermost first. A business failure
is looked for in the whole chain and comes first, so an `apperr.Error` around one
is answered 200, which `AnswersMatchCause` says.

`Config` has one field for each kind that the code treats alike; a value is a word
for where it came from or what is odd about it. A variable that does not parse
is ignored without an error. `Normalize` looks at the numbers in `Positive`; those in
`AsGiven` (`Database.Port`, `Redis.DB`, `ConnMaxLifetime`, `ConnMaxIdleTime`, and
`Timeout`, `ActiveTimeout` and `CookieMaxAge` of Sa-Token) it takes as they are, so a
service does start on a port or a login timeout of 0. The comment at config.go:276
promises more. `ConfigUsable` says of each number which of the two it is: replaced when
not positive, or exactly what the strongest source gave (`Given`). `Service` keeps the
file and the environment for that (`file`, `env`). A number given as `""` in the file fails the whole file, since
`yaml.Unmarshal` returns an error.

More found while reading: after a failed listener the service is closed without
`Shutdown`, so handlers run on closed resources (`OpenWhileHandling` names the case);
an error of closing hides one of the shutdown (server.go:102); the requests' base
context is the caller's, so the end of that context cancels requests in flight, a
SIGTERM does not.

## 3. What is checked

| Run | Instance | Shows |
|---|---|---|
| `concurrent_noshare` | 2 handlers, 1 account, 2 tokens, faults, kicking off, sharing off | `RevokedStaysDead`, `IssuedTokenIsTimed`, refinement of `TokenLifecycle` |
| `accounts` | 2 overlapping handlers, 2 accounts, 2 tokens, kicking and sharing, faults, expiry, 1 business update | `AccountIsolation`, `TerminalListWellFormed`, `RollbackOnlyByOverlap` |
| `serial_exclusive` | 1 handler, 1 account, 3 tokens, kicking, faults, 1 business update | `LiveTokenListed`, `AtMostOneLive`, `NoSpuriousRefusal`, `EveryRequestEnds` |
| `apart_share` | 2 handlers, 2 accounts, 3 tokens, the requests of an account one after another, sharing, no faults | `RevokedStaysDead`, `IdleTokenRejected`, `IssuedTokenIsTimed` |
| `outbox_single` | 1 replayer, 2 documents, 4 events, 2 crashes or failed marks | `StoresAgree`, `SyncedWasApplied` |
| `outbox_retries` | 2 replayers, 3 events, batch 1, failing applies, 1 crash | `AttemptsBounded`, `AttemptsCounted`, `StaleOnlyByRetry`, `EveryEventSettles` |
| `stores` | both stores, 2 goroutines, 2 values, timeouts -2, -1, 0 and 1 s, 4 ticks | `ReadsAnswerWhatWasThere`, `MissingStaysMissing`, `ContentsAsWritten` |
| `sharing` | 4 writers, 3 code lists, 2 role lists, 11 attributes, 3 extraData, 2 forms of a map, 3 login ids, 2 tokens | `DecisionsFollowSnapshot`, `JavaReadsBack`, `TerminalsSurvive` |
| `service` | 2 requests, 2 dependencies, all single-field files and environments, 4 error chains | `OpenWhileHandling`, `CleanExit`, `AnswersMatchCause`, `ReadyHonest`, `ConfigUsable`, `SignalEndsRun` |
| `transactions` | 2 runs, 2 rows, nesting 2, 5 steps each, updates with and without a version | `AllOrNothing`, `NothingLeftOpen`, `NoLostUpdate`, `DeletedStaysDeleted` |

Bounds. `Tokens` bounds the logins of a behaviour; two suffice for a token and
the one that kicks, shares with or overlaps it, three for a chain. Two handlers
are every pairwise race; the races found need no third, and the properties proved
hold for any number. `MaxSaves` bounds business updates: with one, the copy of a handler is from
before it or from after it, which is all that a rollback needs. `MaxEvents` bounds the
outbox (an old and a new event of one document, and one more), `MaxFaults` its
crashes and failed marks, `MaxAttempts` is 2 so that the limit is reached,
`MaxSteps` lets a run read and update a row, work in an inner call and go on.
`MaxTime` lets an entry of one
second expire for every way of comparing, with time left to be written again; `MaxCount` lets a session gain
four terminals; the attributes hold every way a wrapper can be mistaken for data,
in two levels, and a number that no float64 holds. A configuration file sets one field at a time, because fields do not
depend on each other, with the exception of the two names, which a file and an
environment reach together. The theorems have none of these bounds.

`serial_exclusive` asks what requests of an account, one after another and failing
anywhere, can do to it: the faults are what fills its list of terminals. It has one
handler, so that its liveness can be checked without symmetry; with `ApartSpec`,
two accounts, two tokens, two handlers and `FullSymmetry` (`FairSpec` and
`EveryRequestEnds` left out) its other properties hold too, as they must by the
theorems. `apart_share` lets the requests of other accounts run in between; the
concurrent runs ask what overlapping can do. Properties are stated for the
configurations in which they hold, and the next table says where they do not.

### Where the code does not do what it says

| Run | Property | In short |
|---|---|---|
| `kick_race` | `AtMostOneLive` | two concurrent logins with `IsConcurrent = false` both stay logged in (logic.go:21 says the old one is kicked) |
| `outbox_two_replayers` | `StoresAgree` | two instances: the slower one applies an old image after the newer event was synced (mongox.go:107 says several instances are safe) |

More counterexamples are found by changing a constant or a line of a .cfg.
`IsShare = TRUE` with `Faulty = TRUE` violates `RevokedStaysDead`: a Logout that failed
after it deleted the token key (logic.go:172) leaves the terminal, its retry finds no
login id and returns nil (logic.go:181), and the next Login renews the revoked token
(logic.go:150). `InnerErrorRollsBack` as an invariant of `transactions` is refuted: an
inner error that the outer function handles rolls nothing back, although tx.go:112
says so. `Faulty = TRUE` in
`apart_share` violates `IdleTokenRejected` (logic.go:262 ignores an error of the
read). `ApplyFails = TRUE` in `outbox_single` violates `StoresAgree` with one replayer
(a failed event is retried after a younger one). `Careless = TRUE` in `transactions`
violates `AllOrNothing` and `NoLostUpdate`: this is an obligation of the functions
passed to `Within`. `NoLostUpdate` without the word `bare` fails for both updates without
a version: one overwrites what it did not read, and a checked one undoes it. With two handlers in `serial_exclusive` `LiveTokenListed` fails: a
Logout deletes a session that another login has just joined (logic.go:192). Each of the
six properties proved of `ApartSpec` fails when two requests of one account
overlap, without a fault:
`LiveTokenListed`, `AtMostOneLive` and `IssuedTokenIsTimed` with `IsConcurrent = FALSE`,
`RevokedStaysDead` with `IsShare = TRUE`, the others with `IsConcurrent = TRUE` and
`IsShare = FALSE`. That no request ever puts an older permission snapshot back fails in
`accounts` too, which is why `RollbackOnlyByOverlap` names who may.

## 4. Fairness

`SaToken!Fairness` is weak fairness of each handler: a goroutine keeps running
until its function returns, and every store call returns or fails by its own
timeout (`RedisStore.ctx`). Starting a request is not fair. `MongoOutbox!FairSpec`
is weak fairness of each replayer's sweep: `Loop` sweeps at every tick for as long
as the process lives, and a crashed instance is started again. Nothing is assumed
of `Apply`: it may fail for ever. `Service!Spec` is weak fairness of the main
goroutine of `Run` alone: it is scheduled, `svc.Close` returns, and the timeout of
`Shutdown` passes (`Config` makes it positive). No request need ever end, which is
what `SignalEndsRun` is about; `service` does not look for deadlocks because `Run` really
returns. `Stores`, `SharedSession` and `Transactions` state safety only. `Transactions` assumes no fairness; a run may
stop anywhere, so its runs do not look for deadlocks: a run that waits for a lock
can always become MySQL's victim.

## 5. What is proved

For every value of the constants, within the named assumptions.

| Theorem | Statement |
|---|---|
| `TypeCorrect`, `AccountsIsolated`, `TerminalsWellFormed` (`SaTokenProofs`) | `TypeOK`, `AccountIsolation`, `TerminalListWellFormed`, every configuration |
| `RevocationIsFinal`, `TokensDieOnce` (`SaTokenRevocation`) | `RevokedStaysDead` and the refinement of `TokenLifecycle`, `IsShare = FALSE` |
| `LiveTokensListed`, `OneLiveToken`, `RefusalsJustified` (`SaTokenSerial`) | `LiveTokenListed`, `NoSpuriousRefusal`, and with `IsConcurrent = FALSE` `AtMostOneLive`: `ApartSpec`, store faults, no expiry |
| `OnlyOverlapRollsBack` (`SaTokenSerial`) | `RollbackOnlyByOverlap`: `OverlapSpec`, every configuration, any number of overlapping requests, store faults, expiries |
| `RevokedStayDeadAlone`, `IdleTokensRejected` (`SaTokenSerial`) | `RevokedStaysDead`, shared tokens included, and `IdleTokenRejected`: `ApartSpec`, no faults, no expiry |
| `IssuedTokensTimed` (`SaTokenSerial`) | `IssuedTokenIsTimed`: `ApartSpec`, no expiry, `IsShare = FALSE` or no faults |
| `OutboxTypeCorrect`, `NoEventLost`, `AttemptsAreReal`, `AttemptsWithinLimit` (`MongoOutboxProofs`) | `TypeOK`, `SyncedWasApplied`, `AttemptsCounted`, any number of replayers; `AttemptsBounded`, a finite number |
| `StoresDoAgree` (`MongoOutboxProofs`) | `StoresAgree`, one replayer whose Apply does not fail |
| `OnlyRetriesAreStale` (`MongoOutboxProofs`) | `StaleOnlyByRetry`, any number of replayers, failing applies, crashes, failed marks |
| `TransactionsTypeCorrect`, `WithinIsAtomic`, `NothingStaysOpen`, `NoUpdateLost`, `DeletedRowsStay` (`TransactionsProofs`) | the five properties of `transactions`, `Careless = FALSE` |
| `StoresTypes`, `StoreReads`, `StoreMissing`, `StoreContents` (`StoresProofs`) | all properties of `stores`, any goroutines, values, timeouts and length of a second |
| `ServiceTypes`, `ServiceOpen`, `ServiceCleanExit`, `ServiceAnswers`, `ServiceProbes`, `ServiceConfig` (`ServiceProofs`) | the invariants of `service`, any requests, checks, files, environments and error chains |
| `SharingDecisions`, `SharingJava`, `SharingTerminals` (`SharedSessionProofs`) | the three invariants of `sharing`: any lists of codes, login ids and tokens, other values of any nesting within the assumptions below |
| `GoReadsBack` (`SharedSessionProofs`) | what Go writes it reads back, and a second rewrite changes nothing, for every session whose dataMap holds text, float64, null and lists of any nesting, but no object and no nil list |
| `RootPasses`, `NobodyPasses`, `GroupsMeaning`, `GrantsAreMonotone` (`SharedSessionProofs`) | what the checks of permissions mean, for all sessions and groups |
| `PageNormalized`, `PagesTile`, `OffsetOverflows` (`ServiceProofs`) | the offsets of pages, for every width of int |

Arguments.

* `SaTokenProofs!IInv`. The invariants talk of the store, but a handler writes
  back what it read before, so they must hold of every copy in flight too: the
  session a handler holds, the terminals it will kick, the token it carries.
  `StoreOK` and its counterpart for handlers say so, and each action moves a value
  that already satisfies the invariant. That is why interleaving cannot hurt.
* `SaTokenRevocation!RInv`. Without sharing, only the handler that drew a token
  ever sets its key, and it does so once: while it has still to, no session in the
  store or in a copy that could make somebody remove it leads to a second set.
  A dead token is therefore held by no handler about to set it.
* `SaTokenSerial`. What the code promises when the requests of an account come one after
  another and those of others as they like (`ApartSpec`), for any number of handlers,
  accounts and tokens. A step changes only keys of the account its request works for
  (`Account`, which `IInv` ties to every copy), so what the handlers of other accounts
  know of the store stays true: the lemmas `Others...` say so once for each invariant,
  and what remains is the handler whose turn it is (`Turn`). `ListInv`
  says that the copy a handler works on is still the session in the store, and that the
  calls come in an order that keeps a token listed from before it is accepted
  until after it is not: a fault between any two of them leaves a listed token
  that is not accepted, never the reverse. The other invariants rest on it, one
  per promise: `KickInv` (a login that kicked left nothing accepted), `RefusalInv` (a token whose key is
  missing is in `condemned`), `SettledInv` (a token reported as removed is listed
  nowhere, so no login can share it), `TimedInv` and `IdleInv` (the stamp is written
  before the token is handed out and read before a request passes). `Apart` is
  necessary: see "More counterexamples".
  `BehindInv` is about `OverlapSpec` and needs no `Apart`: a copy older than the stored
  snapshot belongs to a request in `behind`, because it was read while the request ran
  and the newer one was stored after. A step that lowers the snapshot writes such a copy.
* `MongoOutboxProofs!OInv`. An event whose `Apply` returned nil is remembered in
  `applied` before any mark of it; a replayer that is about to mark is about to
  mark an applied event. `BInv` counts the replayers that hold an event: the
  attempts counted and those that may still be counted by holders stay below
  `MaxAttempts` plus their number.
* `MongoOutboxProofs!SInv`. With one replayer, the events below the one it is at
  are settled or not selected, and MongoDB holds the image of the last event
  applied; a crash or failed mark makes it go back to the oldest pending event,
  and everything after is applied again, in order, so the last image is the last.
* `MongoOutboxProofs!RInv`. Nothing of `SInv` survives a second replayer but the order of
  first calls: an event older than one a sweep holds is in that sweep or has been tried,
  because a selection takes the oldest due rows and a row stops being due only by an
  attempt. So as long as no event of a document was tried twice, the latest one tried
  is the last one applied.
* `TransactionsProofs!IInv`. A pending row extends the committed one: it adds at
  most the run itself to `ops`, its version grows with every change of `ops`, and it
  never revives (`PendInv`); it is protected by its lock (`LockInv`). A copy is never
  newer than the row it will be compared with, and equal versions mean equal
  contents unless the row is `bare` (`CopyInv`), which is what the version check relies
  on, and which holds although `Delete` does not change the version. A row that is not
  `bare` holds every update made of it (`Whole`), committed or pending. What the function was told it
  wrote is what is pending (`WroteInv`). Each step is one of four: local, a write
  under lock, a discard, a commit.
* `StoresProofs!IInv`. `CallInv`: a Get between its lock sections holds what the key
  holds, or another call has written; and its value was shown during the call, or
  had expired. `ReportInv`: in memory a reported key is gone, because the call that
  reports an expired entry deletes it, so `SetExpire` finds nothing to revive; in Redis
  an expired key is absent to every command, so only the SET of a rewrite is left. `ContentInv`: unless `tainted`, what
  the calls in flight hold is what the key should hold, so deleting it for its
  expiry, or writing it back, is what the callers asked for.
* `ServiceProofs!IInv`. `MainInv`: `closes`, `ret` and `timedOut` follow `phase`. `QuietInv`: past
  the shutdown no request runs, unless it timed out or the listener failed, since
  nothing is accepted outside "serving". `ProbeOK`: a probe that is still healthy has
  seen every check before the next one up. `ApiOK`: an answered request has the
  status of its cause, by the lemmas on chains of errors (`WriteErrorMeaning`: the
  outermost layer with a meaning decides).
  `ConfigUsable`: what `Normalize` gets was either replaced by it or has parsed
  (`LoadUsable`) and is what `Given` says, whatever the file and the environment hold; a field that fails to
  parse in the file ends the start before `Load` (`NumbersParse`).
* `SharedSessionProofs!IInv`. `Means` says that the stored JSON decodes to a session that
  holds what the writers meant; `JavaMeans` says the same of what Java makes of it;
  and a stored value is well formed, or the rewrite could not be predicted. Go's rewrites
  keep it because of the lemma behind `GoReadsBack`: `Unmarshal(Marshal(s))` differs
  from `s` only in `Rewritten` values (an `[]any` of text has become a `[]string`,
  which encodes alike). Numbers are rounded by the first decoding and by no later one
  (`Float` of a float64 is itself). When a terminal is not `Legible` nothing decodes, so
  Go leaves the key alone. What Java writes is an array of a class and a body, of which
  Go opens no more than the list, or an object: what is inside goes through the inner
  functions, of which the assumptions below are all that is used.
* The loops of `Permission` are quantifiers, so its theorems unfold them. `PagesTile`
  is `WrapExact`: below half the range nothing wraps. `OffsetOverflows` gives the
  witness: page h + 1 of size 2 begins at 2h, the first number that is not an int.

Two statements were corrected by their proofs. `CheckRole` refuses an empty role code
even when the session lists one (`DecisionsFollowSnapshot` now says so); and a number
given as `""` was let through by an earlier `FromFile`, which the code does not do.

Only model-checked: the liveness properties (`EveryRequestEnds`, `EveryEventSettles`,
`SignalEndsRun`), since they need ENABLED; and what the codec's recursion computes for
a value inside a value, which is induction over data (the assumptions of `SharedSession`
and `MCSharedSession` evaluate it on the values of `sharing`).

Assumptions are named in the modules that declare the constants and evaluated by
TLC in every run; `SaToken!MissingSessionAssumption` only says that no session is the
model value that stands for a missing key. Those of `SharedSession` say what other writers
write: lists of codes are sequences (`ListsAssumption`); login ids are text or numbers
(`LoginIdsAssumption`); another value is text, a number, an array of a class and a body,
or a map with its class whose members come back from a rewrite (`AttrsAssumption`, of
the values inside which it asks that rounding twice is rounding once); Java reads a
portable value of its own, with its numbers rounded too (`JavaAttrsAssumption`), and a
code inside a list as text (`JavaTextAssumption`); extraData is nothing, an object of
small numbers, or something that is no object (`ExtrasAssumption`).
`Service!FileAssumption` says that a file sets fields, or is missing or unreadable.

## 6. The plan

Done, in this order: sessions, outbox, transactions; then the stores, the codec with
the permissions, and the service with configuration, answers and probes.

Then the promises to accounts whose requests do not overlap, as theorems (`SaTokenSerial`), and
those of the shared session and the configuration (`SharedSessionProofs`,
`ServiceProofs`).

What is left: `SaToken` over `Stores` instead of over atomic calls, and the CORS
answers.

## 7. How the models were kept honest

Every definition is mapped to the lines it translates in `PROJECT.json`. Every
property of a passing run is violated by a mutant of a mapped definition under
the same configuration. Invariants that are proved are run first.

## 8. What is not modelled

Logging, wording and trace ids, CORS (headers from constants), `PageData`, the styles
of token values, the DSN and the text of SQL, `truncate` (the wording of an error),
the signature of a JWT, the Redis and MySQL clients' construction and pings, S3
request signing: formatting or I/O with no state of their own. Auth without a
provider and `NewLogic` of jwtauth without a secret end a service's start or answer
500 for good. `EnsureBucket` is HEAD then PUT, whose outcome is the object
store's. `MySQL` isolation beyond row locks and stale reads, replication and
failover of Redis: outside the repository.
