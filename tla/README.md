# Verification of the Thintuit web application

TLA+ specifications, TLC model-checking runs and TLAPS proofs for the web
application in this repository: a FastAPI service (`fastapi_app/main.py`) that
keeps user accounts in PostgreSQL, the pages under `public/` that talk to it,
and the part of the PostgreSQL 16 sources in `dataset/` on which the service's
guarantees rest.

## The system

| part | source | state | operations | modelled in |
|---|---|---|---|---|
| account API | `fastapi_app/main.py` | a handler per request | register, login, user info, change password, delete account, list users, accuracy, logout, root | `AccountService`; its promise in `AccountLedger` |
| password handling | `main.py` | - | length check, bcrypt hash, bcrypt check with plain-text fallback | `Credentials` |
| users table | `models.py`, SQL in `main.py` | rows | five SELECTs, INSERT, UPDATE, DELETE | `UsersTable` |
| pool and process | `main.py` (`get_db`, `lifespan`), `start_api.sh` | free and held connections, phase of the process | start with or without database, acquire, release, shutdown, crash, restart | `AccountService` |
| statements in the database | `dataset/postgresql-16.0/src/backend` (heap, nbtree, transam, executor) | row versions, index entries, transactions, locks | scan, insert, update, delete, lock, wait, commit, abort, cancel | `UsersHeap`; its promise in `AtomicStatements` |
| registration, login, dashboard | `public/register`, `public/login`, `public/dashboard`, `public/js/main.js`, `public/js/dashboard.js` | `localStorage`, the page of each tab | submit, store the session, check, show, log out | `BrowserSession` |
| request rewriting, API test page | `public/js/secure-requests.js`, `public/api-test.html` | clicks under way | rewrite an address, try four addresses | `SecureRequests`, `ApiTest` |
| accuracy query, visualization page | `main.py`, `public/visualization/` | rows, filters, charts | group and round; load, filter, draw, switch view | `AccuracyQuery`, `ChartPage` |

**How the parts interact.** One asyncio event loop runs all handlers.  A handler
runs undisturbed from one `await` to the next; it waits to acquire a connection,
to get the answer to a statement, and to give the connection back.  Each
statement is a transaction of its own, so what a handler read can be out of date
when it writes.  Inside PostgreSQL a statement is again many steps, taken by one
backend per connection.  A page's script runs undisturbed from one `await` to
the next in its own tab, but tabs share `localStorage`, and nothing orders the
accesses of one with those of another.

**The layers.** `AccountLedger` is what a client of the API may rely on;
`AccountService` implements it, with each SQL statement one step (`DbExecute`,
by the operators of `UsersTable`).  `AtomicStatements` says the same of a
statement, by the same operators; `UsersHeap` implements it with row versions,
locks and commits in several steps.  So the one-step database of
`AccountService` is not taken for granted.  `BrowserSession` and `ApiTest`
use the service as one step per request, which may be lost on either way.

**What is hard here.** Check-then-act over two statements (register, change,
delete); statements that take effect although their answer is lost; handlers
that leave `async with` by return, by `HTTPException` and by error; a request
that needs two connections one after the other; a server that starts without
its database; shutdown with requests in flight; a crash with a statement under
way; backends that wake from a wait to find the row changed; keys of a session
written one by one; answers that arrive between two clicks.  `PROJECT.json`
lists these hazards with their lines and properties.

## The modules

`Credentials` - a password is a value, of which the code can tell whether it is
shorter than 6 characters (`Short`) and whether encoding or hashing it raises
(`Unhashable`).  `Stored` is the text of the column: a bcrypt hash of a password
or a text that is no hash (the demonstration rows, `"hashed_pwd"`).  Salts are
left out since no code compares two hashes.  `ValidPassword` is the check of
`login_user` and `change_password`, with its fallback.

`UsersTable` - a table is a set of rows; each SQL statement is an operator on it.

`AccountService` - the state machine.  Per request: `req` (what it asks), `pc`
(`new`, `acquire`, `query`, `release`, `reacquire`, `done`, or `lost` in a
crash), `sql` (the statement under way), `result` (the database's answer),
`reply` (HTTP status and the accounts the body names) and `conn`.  Globally:
`users`, the pool (`pool`, `idle`), the process (`life`, `boots`) and the
auxiliary `history` of all row versions.  `Accept` is a handler up to its first
await; the actions named after the handlers are their steps from an answer to
the next await; `DbExecute` and `DbRefuse` are the database.  An exception in a
handler is followed to the status it ends in, including the `except Exception`
of `register_user` that catches the handler's own `HTTPException(400)`.

`AccountProperties` - its properties.  `MCAccountService` - the instances.

`AccountLedger` - the abstract specification.  On behalf of a request the table
changes at most once, after the request is received and never after it is
answered; a lost request may still take effect.  A 500 promises nothing, a
refusal that nothing was written, a 200 what was asked for; the exception is
`change_password`, whose 200 does not promise a change (run `change_ack`).

`AccountHistory` - `AccountService` with the history variable `effect`, the
identifiers of the rows written for each request, and the refinement mapping.
The variable is needed since the state of a handler that got an error does not
tell whether its statement was executed.

Left out of the service model: FastAPI's validation of request bodies (422,
before any handler runs), JSON bodies of `/change-password` whose fields are not
strings, names and timestamps, the rows of the accuracy query, logging.  Modelled
externally from the way `main.py` uses them: PostgreSQL, asyncpg's pool (a
waiting `acquire` has no time limit, a release that cannot reset the connection
raises, the holder returns to the pool in every case), bcrypt and uvicorn (a
graceful shutdown lets requests in flight finish).

`UsersHeap` - the statements in PostgreSQL.  `heap` is the sequence of row
versions with `xmin`, `xmax`, `ctid` and the heap-only flag; `index` holds the
entries of both unique indexes; `proc`, `clog` and `xlock` are the three places
that know of a transaction (procarray, `pg_xact`, the lock on its xid), which it
leaves in three steps (`RecordTransactionEnd`, `ProcArrayEndTransaction`,
`ResourceOwnerRelease`); `tuplock` are the heavyweight tuple locks; `tx` is the
local state of a backend.  Actions carry the names of the C functions.  One
action is what a backend does under one buffer lock or in one call of the lock
manager: a scan is one step, since the snapshot decides what it sees, and so is
a unique check with the insertion of its entry, since `_bt_doinsert` keeps the
leaf locked.  A statement that finds its row being modified queues for the tuple
lock, sleeps on the transaction and judges the row anew; one that finds it
updated follows the chain of versions (`heapam_tuple_lock`).  A statement can be
cancelled wherever the code checks for interrupts, and leaves its versions and
row locks behind.  A row inserted by a transaction gets that transaction as its
identifier: `gen_random_uuid()` repeats no value.

`AtomicStatements` - what a statement promises: it takes effect in one instant,
and its answer is right about some instant between its arrival and its end.
`UsersHeapHistory` - the history variable `seen` (the answers that would have
been right so far), the mapping and the properties.  A statement's effect is
mapped to the moment it leaves the procarray, when snapshots begin to see it.

`BrowserSession` - per tab the `page`, its host (`origin`), what its `script`
does and how many storage accesses are behind it (`at`); per host the `storage`.
Each `setItem` and `removeItem` is a step.  The static site and the service's
host serve different sets of pages, which decides where a redirect ends.
`SessionProperties` - its properties.

`SecureRequests` - the two rewritings of addresses (`fetch`,
`XMLHttpRequest.open`) as operators on scheme, host, ports and path.
`ApiTest` - the test page's loops over four addresses, for clicks in any order.

`AccuracyQuery` - the grouping, counting and rounding of `/api/accuracy` over a
bag of test records, in hundredths of a percent, and the complement the purity
charts compute.  `ChartPage` - the page as a state machine: a handler's changes
and the redrawing it ends in are one action.

The `MC...` modules give the constants their values.

## The runs

| run | instance | checks | result |
|---|---|---|---|
| `faults` | 2 requests of any kind, 2 connections, 1 fault, 1 restart | `TypeOK`, `PoolConserved`, `AnswersNameTheirAccount`, `ImplementsLedger` | holds |
| `races` | 3 writing requests, 2 connections, 1 fault, 1 restart | `UniqueKeys`, `PasswordProvenance`, `AcknowledgedAccountsLast`, `RefusedRegistersNothing`, `DeletedIsGone`, `ChangeWasAuthorised`, `AdminListSound`, `DeletedStaysDeleted`, `RowsKeepAddressAndRole` | holds |
| `live` | 2 requests of any kind, 1 connection, 1 fault, 1 restart | `EveryRequestAnswered`, `ShutdownCompletes` | holds |
| `heap` | 3 backends, 1 row, 7 combinations of statements | `TypeOK`, `UniqueWhenSeen`, `NoInternalError`, `StatementsAreAtomic`, `EveryStatementEnds` | holds |
| `one_tab` | 1 tab, 2 hosts, 2 identifiers | `TypeOK`, `OneIdentity`, `LogoutLocksBothPages`, `AnnouncedLoginStays`, `EveryScriptEnds` | holds |
| `two_tabs` | 2 tabs, 1 host, 2 accounts | `LoggedInHasIdentity` | holds |
| `api_test` | 2 clicks, 2 addresses | `TypeOK`, `OneAccountPerClick`, `RewritingSettles`, `FetchReachesService`, `EveryTestEnds` | holds |
| `chart_page` | 2 models, 3 categories, 39 tables | `TypeOK`, `ScreenIsCurrent`, `DrawnChartsAreListed`, `NoFiguresAfterError`, `RatesAddUp` | holds |
| `duplicate` | 2 requests | `DuplicateAnswered400` | violated |
| `change_ack` | 3 requests | `ChangeAckMeansChanged` | violated |
| `stale_check` | 3 requests | `CurrentPasswordReplaced` | violated |
| `typed_address` | 1 tab | `RegisteredCanLogin` | violated |

The four violated properties are what the code says of itself:

- `main.py:149` raises a 400 for an address that is taken; the answer is a 500,
  because the `except Exception` at line 171 catches it (`log.out:849` shows one).
  Only a registration that loses the race to the INSERT gets the 400 of line 170.
- `main.py:406` reports a changed password also when the account was deleted
  after the SELECT, so that the UPDATE met no row.
- `main.py:373` verifies the current password, on a row read earlier: of two
  concurrent changes presenting the same password both succeed, and the second
  replaces a password its client did not present.
- `js/main.js:62` asks a visitor who has registered to log in; the script has
  lower-cased the address, the login page sends it as typed, and the service
  compares exactly, so typing the same address again is refused.

**Limits the models show.** These are written into the properties as exceptions
or restrict the instance, and each is a behaviour of the code:

- `OneIdentity` holds for one tab.  With two, the logins of two accounts can
  interleave and leave the name of one beside the role of the other.
- `AnnouncedLoginStays` excepts a name that is empty after trimming, which the
  dashboard takes for no login, and a login page served by the service's host,
  whose keys the dashboard on the static site does not see.
- `dashboard.js` on the service's host sends every visitor back to the login
  page, since it looks for a key nobody writes and asks `/user/info` without a
  `user_id`.  The listeners it would install afterwards (log out, change
  password, delete account) are never installed.
- `secure-requests.js:41` speaks of removing the port; `fetch` writes it in.
  `FetchReachesService` states what the two rewritings do achieve.
- A click on the register test whose answer was lost can report failure although
  the account exists: the retry is refused.  `OneAccountPerClick` claims success
  only when it was reported.
- After an error answer the visualization page keeps what was drawn before, with
  no figures.  3D charts are never disposed of.

**Bounds.** *Service:* a race needs two handlers with statements under way, hence
two connections; with one connection requests wait for each other, which the
liveness run needs.  Three requests are an account's registration and two
requests that meet on it.  One fault is enough for each failure alone (statement
refused, answer lost, acquire or release failing, start without database); one
restart is enough for a statement of a dead process to take effect after a crash.
`UserId` has an identifier for every registration that can succeed, so an INSERT
never blocks for want of one.  Each request is handled once; a retry by the client
is another request.  Requests and connections are interchangeable, and the safety
runs use that symmetry.
*Heap:* three backends are a writer, one that waits for it and one that changes
the row again before the second wakes; the combinations in `MCUsersHeap` are
those in which statements meet on one row or one address.  Each backend runs one
statement; the next statement of a connection is another transaction.
*Browser:* two tabs interleave a login with another or with a logout; two hosts
matter only for where pages come from, hence with one tab.  One address in two
spellings and a name of blanks exercise the conversions.
*Charts:* two models, one of them without tests of a category; 32 tests are the
least for which a percentage ends in half a hundredth, so both roundings meet it.

**Fairness.** The event loop runs every handler that can run, asyncpg serves
waiters in order, the database answers each statement of a live handler (with a
result or an error), and uvicorn starts up and closes down when it can.  The
operating system runs every backend that is not asleep.  A browser goes on with
a started script and settles every fetch.  There is no fairness on clients,
visitors, shutdown signals, crashes, restarts, faults or cancellations, nor on
the statements a crashed process left behind.

## The proofs

TLAPS proves every safety property of the passing runs except `RatesAddUp` and
`StatementsAreAtomic`, for all values of the constants that satisfy the named
assumptions:

| module | theorems |
|---|---|
| `AccountServiceProof` | `TypeCorrect`, `PoolIsConserved`, `KeysAreUnique`, `PasswordsHaveProvenance`, `DeletionIsFinal`, `AddressAndRoleAreFixed`, `AcknowledgedDeletionHolds`, `AnswersAreRight`, `ChangesAreAuthorised`, `ListIsForAdministrators` |
| `AccountLastingProof` | `RegistrationsLast`, `RefusalsRegisterNothing` |
| `AccountLedgerProof` | `ServiceImplementsLedger` |
| `UsersHeapProof`, `UsersHeapSafeProof` | `UsersSafe`, `UsersTyped`, `UniqueAlways`, `NoInternalErrorEver` |
| `BrowserSessionProof` | `SessionSafe`, `SessionTyped`, `LoginNeverHalf`, `OneTabSafe`, `OneTabOneIdentity`, `OneTabLogoutLocks`, `OneTabLoginStays` |
| `ApiTestProof` | `ApiTestSafe`, `ApiTestTyped`, `OneAccountAlways`, `RewritingAlwaysSettles`, `FetchAlwaysReaches` |
| `ChartPageProof` | `ChartSafe`, `ChartTyped`, `ScreenAlwaysCurrent`, `NoChartLost`, `ErrorShowsNoFigures`, `RatesOfARow` |

**The assumptions** are facts of the code or of its environment.
`ServiceAssumption` and `CredentialsAssumption`: requests are well-formed and the
initial table has unique keys; requests, connections, menu and table are any.
`UsersHeapAssumption`: the initial rows have unique keys, an identifier is no
address, and `gen_random_uuid()` does not return an identifier that an initial row
has; backends and statements are any.  `SessionAssumption`: the static site is one
of the hosts, an absent key is no value, and the empty name is not the text
`"true"`.  `ChartAssumption`: the body of an error is an object and so not the
empty list of rows.  `ApiTestAssumption`: the page knows some address.  Two groups
of theorems have a hypothesis of their own: `RefusalsRegisterNothing` compares
numbers of accounts and of requests and is for any finite number of requests; the
theorems named `OneTab...` are for a browser with one tab, since another tab can
write the storage between a script's accesses and the page it leads to (see the
limits above).

**The service.**  None of its properties is inductive alone, since each depends on
what a handler remembers between two awaits.  The invariant is built in layers:
`FlowInv` ties statement, request, answer and connection to the program counter
(so that, for example, an INSERT under way has passed the length check); `PoolInv`
adds that no handler runs without a pool; `TableInv` adds that all versions of a
row share address and role and that every password has an origin; `ResultInv`
states what an answer read earlier still guarantees when it is acted on (a row
found by a SELECT has existed, a deleted identifier stays gone, a password that
opened the account did so at some moment); `LastInv` follows a registered account
from its INSERT.  The steps rest on `HandleCases`, `DbCases` and `TableCases`,
which reduce the handlers and statements to their few effects.  TLC checked each of
these layers as an invariant of the two safety instances first.

`RefusedRegistersNothing` counts, and counting cannot be followed step by step.
`MakerInv` says instead that there is an injective map from the accounts made to
registrations of their address that are *spent*: their INSERT was answered, and
not by a violated key.  A spent registration sends no further INSERT and is not
answered 400, so an INSERT extends the map by a registration it does not yet have.
The inequality follows from the library's theorem on injections into finite sets.
TLC checked `MakerInv` on the instance of `races`.

The refinement rests on the same invariant and on `EffectInv`, which ties the
history variable to the handler: nothing is written for a request before its
statement is executed, an INSERT that returned a row wrote that row, one that met
the unique constraint wrote nothing, and a refusal is given only where nothing was
written.  With it each step of the service maps to a step of the ledger or to
none: `DbExecute` of a writing statement to the change of the table, the steps
that end in `done` to the answer, a crash to the loss of the requests in flight.

**The heap.**  `UsersInv` has five parts.  `TypeOK` includes that update chains
lead forward.  `BackendInv`: the place of a backend tells the state of its
transaction, which keys it has yet to enter, and that the tuple it has in hand is
committed. `VersionInv`: only a committed version gets stamped, and the version
its `ctid` leads to has the same keys and was made by the transaction that stamped
it; a backend that has written a version is past its write.  `IndexInv`: every
version that is not aborted is reachable from an index entry for each of its keys,
through its heap-only chain, unless its inserter still has that key to enter. 
`UniqueInv`: of two versions reachable by one key that could both be live, one is
replacing the other for a transaction still running.  The argument is that of the
code: `_bt_doinsert` checks and enters under one lock, and it sees every
competitor because each is reachable; it waits for those whose fate is open. 
Heap-only chains are defined as least closed sets, so that what an update does to
them is shown without induction.  TLC checked the parts on the instance of the run
`heap`.

**The browser.**  `LoggedInHasIdentity` is inductive given `SessionInv`: a script
that has not begun its storage accesses stands at 0, and a login being written has
an account to write.  The proof follows each `setItem` and `removeItem` of one tab
past what any other tab has yet to do.  For one tab, `OneTabInv` adds that the
storage of a host is *at rest* (one account's login, or none) unless the tab's own
script is inside its accesses, that the keys behind a script have the values it
wrote, that the dashboard shows what was read at rest, and that the dashboard a
login leads to finds that login.  TLC checked it on the instance of `one_tab`.

**The other pages.**  `ApiTestInv` ties the accounts a click has made to its test:
none or one, that one registered under the address the click drew, so that a later
try is refused, and success of a registration only if there is one.  The rewriting
theorems follow the three rewriting steps of an address (`RedirectDataIs`,
`MakeAbsoluteIs`, `RewritePortIs`) to the settled forms. `ChartInv` adds to the
page's properties that there are no rows while the request is out, without which
an error could arrive over drawn figures.  `RatesOfARow` is the arithmetic of
`RatesAddUp` for any counts.

**Only model-checked:** the liveness properties and all fairness, which are beyond
TLAPS here; `StatementsAreAtomic`, which needs, over `UsersInv`, invariants about
what every snapshot in use still sees; and `RatesAddUp` over whole tables, whose
counts are folds over bags: what a fold computes is proved by induction over data,
which the provers cannot instantiate.

## Not modelled

- **The rest of PostgreSQL.**  `dataset/` holds the complete sources of PostgreSQL
  and readline, about 1.57 million lines of C, against a few thousand lines of the
  application itself.  The application only calls the server, so `UsersHeap` takes
  the path of its single-row statements through the heap, the unique indexes and
  the end of a transaction: a few thousand of those lines, and well under one
  percent of the distribution.  Left out there: parser and planner (which row a statement is about is
  given), hint bits (they cache the final state of a transaction), vacuum and
  pruning (and with them a version's slot being reused), multixacts and
  savepoints (no statement takes a shared row lock or nests), WAL and recovery
  of the server (a crash of the *service* is modelled, of the database not),
  replication, other access methods, client programs.
- **Page routes, CORS, static mount.**  Stateless configuration; which page exists
  on which host is part of `BrowserSession`.
- **`static/`** holds older copies of the scripts; `js/login.js` is loaded by no page;
  `secure-requests.js` only by the API test page.  `downloadChart` changes no state.
- **`database.py`, `models.py` as programs.**  `models.py` imports a name `database.py`
  does not define, so it does not run; its DDL gives the table's constraints.
- **Hugo content, layouts, themes and notebooks.**  Text and material that is not
  part of the running system.
