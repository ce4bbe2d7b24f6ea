# A TLA+ model of Bylot

Bylot is a marketplace for goods near their expiry date: an Express server over
MySQL (`backend/`) and a React client (`bylot/`). This directory holds TLA+
modules of the parts whose behaviour is hard to test, TLC configurations that
check them on small instances, and proofs that TLAPS checks for every instance.
Paths below are relative to the repository.

1. [Inventory](#1-inventory) of the system and its hazards
2. [Modules](#2-modules): what each models and how it corresponds to the code
3. [Runs](#3-runs), bounds and what they show
4. [Disagreements](#4-disagreements) between the code and what it says of itself
5. [Fairness](#5-fairness)
6. [Proofs](#6-proofs)
7. [What is not modelled](#7-what-is-not-modelled)
8. [Plan](#8-plan)

## 1. Inventory

| Component | State it keeps | Operations | Hard behaviour |
|---|---|---|---|
| Orders (`controllers/orderController.js`) | tables `orders`, `order_items`, `products.stock_quantity` and `.status` | createOrder, cancelOrder, updateSellerOrderStatus | transactions of many statements, row locks taken in different orders, rollback half way, edits in between |
| Database pool (`config/db.js`) | connections, queue of waiters | getConnection, execute, release | handlers that hold one connection and ask for another; no timeout |
| Sessions (`controllers/authController.js`) | `refresh_tokens`, `users.token_version`, the browser's cookie | login, refreshToken, logout, resetPassword | rotation and reuse detection over separate statements, lost answers |
| E-mail accounts (`authController.js`) | one row of `users`, mailed links | register, verifyEmail, googleLogin, resetPassword | a row read, then written, by requests of the owner and of others |
| Two-factor sign-in (`services/twoFactorService.js`) | challenges, recovery codes, `admin_2fa` | challenge, verify, recover, enable, regenerate, disable | read then write of attempt counters, codes replaced while they are used |
| Account lockout (`security/accountLockout.js`) | attempts by e-mail and address, in memory | recordFailure, isLocked, recordSuccess, clean-up | windows and logins that overlap |
| Token blacklist (`security/tokenBlacklist.js`) | a map and a table | blacklist, isBlacklistedAsync, init, clean-ups | memory and table disagree after a failure or a restart |
| Client session (`api/backendApi.js`, `context/AuthContext.jsx`) | access token, `isRefreshing`, `refreshSubscribers`, user | apiRequest, silentRefresh, login, logout, initAuth | many requests refused at once, one refresh, answers in any order |
| Evidence reports (`services/reportArchiveService.js`) | `admin_report_archives`, encrypted files, plaintext on disk | request, job, delete, retention sweep | background jobs, failure at each step, process death, deletion of what is being made |
| Product images (`middleware/uploadMiddleware.js`, `scripts/cleanupOrphanUploads.js`) | `products.image_url`, files | upload, add, edit, delete, expiry clean-up, orphan sweep | rows and files change in separate steps of several actors |
| Product lifecycle (`sellerController.js`, `adminController.js`) | status, prices, expiry | add, edit, block, delete, relist, sweep | checks on a row read before the UPDATE |
| Catalogue caches (`productController.js`, `backendApi.js`) | cached lists | getCached, setCached, clear | a list read before a write is cached after it, and again by the client |
| Sellers, users, disputes | `sellers`, `users`, `product_reports` | approveSeller, blockUser, reportProduct, resolveReport | check then write; two statements that belong together |
| Migrations (`scripts/migrate.js`) | `schema_migrations`, the schema | apply pending files | failure in the middle of a file |
| Pages (`bylot/src/pages`, `components`, `context`) | what is shown, what was asked | loads, forms, dialogs, polling, redirections | answers late, lost and out of order |

They interact as follows. A page sends requests with the access token it holds
in memory and lets its cookie answer for it when the token is refused; the
server authenticates each request against the token blacklist and the user's
row. All handlers share one connection pool. The order handlers, the product
handlers and the administrators' handlers write the same rows of `products`:
the first inside transactions, the others by autocommit UPDATEs. Uploads are
written to disk before the handler that records them runs, and are unlinked by
whoever replaces them, by the expiry clean-up after its answer was sent, and by
a script in another process. Report jobs run after the request that started
them and share row and file with deletions and with the retention sweep. Lists
of products pass two caches, one on each side, that do not know of each other.

What makes each component correct: stock is never oversold and every unit is
accounted for; a transaction is all or nothing; every handler and every request
for a connection ends; a family of refresh tokens has one that is good, and an
ended family none; a page is not mistaken for a thief of its own token and no
request is forgotten; a signed-out token stays out, a recovery code works
once, a lock is earned; a report offered for download can be read and leaves no
plaintext; a listed product has its image, two prices that agree and a date to
come; a page at rest shows the answer to its question. `PROJECT.json` lists the
hazards at their lines and the property that covers each, or why none does.

## 2. Modules

Constants are the finite sets a model runs over. Every module that is checked
defines a type invariant; its other properties are at its end, each with a
comment that names the code it is about. Operators marked *mutant* are
plausible faults, used to see that a property can fail, and are no part of any
specification. Variables marked *history* record what no code keeps: they are
read by properties, never by a guard, except where a comment says *bound*.

### Orders: OrderRules, OrderBook, OrderLedger, OrderTxn

`OrderRules` holds the data and the pure rules: `Sellable` is the stock check
of createOrder, `Successors` is validTransitions, `Deducted` and `PutBack` are
the two UPDATE statements on `products` (MySQL evaluates SET from left to
right, so the IF sees the new stock), `EditedStatus` what editProduct writes.
Product statuses other than active and out_of_stock are one value, *unlisted*:
the order handlers treat them alike.

`OrderBook` is the abstract specification: each handler is one action on the
tables. `OrderLedger` states the account of stock over it: `Sold` is what the
orders in force hold of a product, a sum over `Live`.

`OrderTxn` is the code. `product`, `order` and `shop` hold the rows with
uncommitted writes in place; `plock`, `olock`, `slock` the row locks; `pc` and
`job` where each handler stands and what it has read; `undo` and `done` InnoDB's
undo log for `products`. A statement is an action:

| Action | Statement |
|---|---|
| BeginCreate, LockProduct, LockSeller | lines 13-73: SELECT ... FOR UPDATE, one row lock at a time, in any order (the plan is the optimiser's) |
| InsertOrder / RefuseCreate | 75-106: the checks, then INSERT INTO orders |
| Deduct | 108-118: one line |
| CommitCreate | 120 |
| BeginCancel, BeginUpdate, LockOrder / RefuseOrder | 155-168, 265-309 |
| Restore | 170-176, 317-322: one line |
| SetStatus, CommitStatus | 178-183, 325-330 |
| Fail | any statement fails: the catch block rolls back |
| Victim | InnoDB rolls back a member of a circular wait |
| EditProduct, UpdateProductStatus, SetShop | the autocommit UPDATEs of other handlers, which wait for the row's lock |

`CommittedProduct` and `CommittedOrder` are the tables as another connection
sees them; `Book == INSTANCE OrderBook WITH ...` maps them to the abstract
specification, and `Atomic == Book!Spec` says that the transactions implement
it; `StockConserved` is the account of `OrderLedger` over the same committed
tables. `supply` and `reopened` are history variables.

### ConnPool

`owner`, `queue` and `pc` are the pool of mysql2 and the handlers. Most handlers
take one connection; the order handlers (`Readers`) ask for a second one, by
pool.execute, while they hold their transaction's (orderController.js:123 and
:333, before the finally block releases it). A released connection goes to the
first waiter; there is no acquire timeout.

### Who is signed in: RefreshTokens, EmailAccounts, TwoFactor, AccountLockout, TokenBlacklist, AdminRoster

`RefreshTokens`: one user, `Devices` with one cookie each. `state` and `family`
are the rows of refresh_tokens; a request walks through the statements of
refreshToken: `Lookup`, `CheckUser`, `Rotate`, `ReadUser`, `Issue`, or
`EndFamily` and `BumpVersion` when the token was revoked, then `Answer`, which
moves the cookie. `Login`, `Logout`, `ResetPassword`/`RevokeAll`, `SetActive`
and `Lapse` interleave; `Lose` is a failed statement, a dead process or a lost
answer at any point. `Overlap` says whether a device may send before it was
answered.

`EmailAccounts`: the row of one address under register, verifyEmail,
resendVerification, googleLogin, forgotPassword and resetPassword, each a read
and a write that others come between. Anybody may register the address; only
the owner can follow a mailed link or sign in with Google. `proven` is whether
the owner chose or approved the password that is in the row; where development
settings verify a row at once, its password counts as the owner's.

`TwoFactor`: the three tables of the second step. A visit is a challenge: it is
asked for (`Purge`, `InsertChallenge`), and answered by any number of handlers
at once (`Answers`), each of which opens it (`Open` is getChallenge) and checks
a code (`CheckTotp`, `CheckSetup`) or a recovery code (`LockCode`, `BurnCode`,
under the row's lock); `ReadAttempts` and `CountFailure` are the two statements
of recordChallengeFailure, with no lock between them. `told` counts the wrong
codes a challenge answered, `crossed` those that others overtook between the
two statements. The settings page regenerates and disables beside it. Whether
six digits are right is a free choice.

`AccountLockout`: the records of an e-mail and of an address, `Failed` being
recordFailure of one of them, with a clock, a clean-up and an administrator who
lifts a lock. A login asks before the password is compared and records after.

`TokenBlacklist`: `memory` and `table`, with `AskMemory`, `AskTable` and
`Verify` of authenticate, the two clean-ups, a table that fails to answer and a
process that starts again and loads the table later.

`AdminRoster`: blockUser and the authentication before it, in four statements.

### ClientRefresh

One open page. JavaScript runs each callback to its end, so an action is what
runs between two awaits. `token`, `refreshing`, `subscribers`, `user` are the
page's variables, `jar` the cookie; each request has its step and what its
fetch carries. `Send` is apiRequest up to fetch; `BeginRefresh`, `Subscribe`,
`Renewed`, `Expired` and `Finish` are the branches after it; `Booted` ends the
refresh of initAuth. The server's answers are atomic here (`AcceptCall`,
`SignIn`, `AcceptLogout`, `Refuse`; `Rotate`, `Reused`, `NoCookie` for a
refresh): its statements are in RefreshTokens. A call may be sent without a
user, as EditItem does. There are two kinds of sign-in: "login" is refused
without more ado, while the 401 of "confirm" (google-login, the second step),
which isAuthEndpoint does not name, starts a refresh like that of a call. The
refresh of initAuth is outside isRefreshing, so a refresh begun while it is out
presents the same cookie (`PresentsWithBoot`): the one way, besides sign-outs
and lost answers, in which the page is taken for a thief of its own token. The
server always returns the user with the token. Opening the page again is not an
action: a page that goes away loses the answers under way, which is
RefreshTokens with `Overlap`.

### ReportArchive

`row`, `file` and `plain` are the row, the encrypted file and the plaintext of
each report; `job` is executeReportGenerationJob (`Start`, `Stage`, `Encrypt`,
`Record`, `Break`, `Catch`, `CleanUp`); `handler` is an administrator's request
(`Ask`, `Insert`; `FindReport` or `SelectExpired`, `Unlink`, `Mark`).
`Crash` is the death of the process: jobs and handlers go, rows and files stay.
The in-memory set activeGenerationLocks is left out: it holds report ids, and
every request makes a fresh one, so its test never refuses.

### Products: ProductImages, ProductLife, PriceEdits

`ProductImages`: `status` and `image` are two columns of products (every status
but deleted is *listed*), `disk` the files, `young` those of the last hour.
`handler` is a request with its upload and the image_url it read. `doomed` and
`dying` are the two halves of cleanupProductImages, before and after its COUNT;
`sweeping` and `refs` are the orphan script. An upload has a fresh name.

`ProductLife`: the status and the last day of one product, the shop and the
user it belongs to, the server's cache of lists, a calendar. A handler reads
the row (`FindForEdit`, `FindForInventory`, `FindForDelete`), writes it
(`Update`) and clears the cache (`Clear`) in separate steps;
`UpdateProductStatus` and the two halves of resolveReport (`CloseDispute`,
`BlockDisputed`) clear nothing; the expiry handlers (`SelectExpired`, `Sweep`)
hold the row's lock. `ReadList` and `StoreList` are a list before and after the
query. `EnsureProfile`/`InsertProfile`, `UpsertProfile`, `ApproveSeller` and
`BlockUser` decide whether the shop is open.

`PriceEdits`: MRP, selling price and discount under edits that check the form
against the row they read. The discount is in hundredths of a percent, rounded
as toFixed(2) does. `mixed` marks the one case in which edits that cross can
break the agreement, until the next edit is written: a form left out a price
that another edit has changed since this one read the row. The page EditItem
always sends both prices, so it takes another caller of the API.

### What is shown: Storefront, CacheAges

`Storefront`: one product while its owner or an administrator deletes it, on
the pages that list it. A cache is the set of keys under which it keeps an
answer that shows the product: `hotCache` of the server, `apiCache` of the
client, with the keys the pages use. `HandleDelete` clears the client's cache
when the request is sent, and `DeleteFromPanel` does not: the admin panel, which
is one of the pages here, deletes by requests of its own. `left` is what the
client's cache then still holds, until it lapses. `ClearHotCache` clears the
server's after the UPDATE; loads of pages the visitor has left, and of others,
store what they read.

`CacheAges`: one list under one key of each cache, with its age and how long it
was kept; ticks of a clock; requests that overtake each other. Its operators
are named for it (`AgesInit`, `AgesNext`), since MCCatalogue, which checks it,
takes it in by EXTENDS.

### Migrations

A file is a sequence of statements, each of which looks first (`AddIf`,
`DropIf`), may be made once (`Add`, whose repetition MySQL refuses) or can be
repeated (`Ensure`). A runner executes what schema_migrations does not name and
records each file after its last statement; it may stop anywhere, be started
again, and another may run beside it.

### Pages: AdminSignIn, ArchiveTab, LocationContext, PageLoads, ExpiredTab, EntryPages, SellForm, DisputeDesk

An action is an event and what its handler does up to the next await, or the
rest of the handler when the answer comes. The server answers in one step; its
statements are in the modules above. Buttons that are disabled cannot be used.

- `AdminSignIn`: the sign-in form of Login.jsx, TwoFactorAuthFlow.jsx with its
  screens, and AdminTwoFactorSettings.jsx with its dialogs. (AdminPanel.jsx has
  a sign-in form too, which is never reached: AdminRoute, App.jsx:33, lets
  nobody to it who would see it.) The n-th set of recovery codes is n; `shown`
  are the sets that came on the screen. A form or settings that have been left
  take their dialog along (`Unmount`), what the settings asked is then awaited
  by nobody (*gone*), and an answer that comes late closes whatever dialog is
  open by then.
- `ArchiveTab`: AdminReportsTab.jsx, whose timer polls while the list shows a
  report being made. Loads, polls and deletions are answered in any order; the
  tab is left and opened again (`Leave`, `Return`) while its requests go on. A
  deletion may come before its report's job has begun or ended, and the job
  then writes its status all the same (`Begin`, `JobEnds`).
- `LocationContext`: the state of the page, three keys of localStorage and
  answers of geolocation that come when they come; a reload restores the state
  from the keys (`Restored` is getInitialLocationState).
- `PageLoads`: thirteen views as records of what they do with a late answer, a
  failed one and a change of their own, over one protocol of loads. `sticks` is
  VerifyEmail, which never takes an error back.
- `ExpiredTab`: ExpiredProductsTab of AdminPanel.jsx with search, pages, ticks
  and the dialogs of three deletions, over the handlers that select and delete.
  A search is taken up 300 ms after it is typed, be a dialog open by then.
- `EntryPages`: the routes that redirect (App.jsx, Login.jsx, Sell.jsx and
  others), sign-ins, sign-outs, timers. `hops` counts redirections in a row.
- `SellForm`: Sell.jsx: state and districts, address and GPS, picture,
  telephone dialog, submission; getDistricts and addProduct of the server. A
  telephone of spaces is saved as none, and answered as a success (*blank*).
- `DisputeDesk`: complaints from ProductCard.jsx, closed in AdminPanel.jsx by
  resolveReport in its two statements, beside the panel's other actions.

Throughout, a statement that fails is taken to have had no effect, and a DELETE
of a file to succeed.

### Runs of several parts

MCAccounts, MCServer, MCCatalogue and MCPages each take modules that share no
state and run them one at a time: the initial state chooses the part. In the
first two the other parts stay where they begin; in the last two their
variables are 0, so that a part has the states it has alone, and a property is
guarded by its part. An interleaving of parts that share nothing would multiply
the states and add no behaviour of any of them.

## 3. Runs

| Run | Instance | What it shows |
|---|---|---|
| order_txn | 1 product, 2 orders, 2 connections, a shop and an administrator | stock is never negative, uncommitted writes included, and every unit is on the shelf or in an order that stands |
| order_txn_two | 2 products, 2 orders, 2 connections, fair | orders of two lines, half done and rolled back; circular waits; the inductive invariant; the refinement of OrderBook; every handler ends |
| refresh | 2 devices, 4 tokens, 2 families, 2 requests | one good token in a family, an ended family stays ended, nobody who lost no answer is signed out, and a session a password reset ended stays ended on every device |
| client_refresh | 2 requests with or without a user, and initAuth; 3 pairs of tokens, fair | no request waits for a refresh that is not under way; a token that was rotated is presented in the one stated way only; every request ends |
| accounts | 2 challenges, 2 answers to them at work and 2 recovery codes; 2 logins, 2 e-mails, 1 address; 1 token and 2 requests; 3 requests of one address | a recovery code works once and a second step has codes; wrong answers are limited; a lock is earned; a signed-out token stays out; Google leaves no password its owner did not approve |
| catalogue | 2 handlers, 1 product, 2 days, 4 prices, 3 images; 1 visitor on 2 pages; 2 loads | what caches may keep; prices and discount agree; a listed product has its image; what was deleted does not come back; how old a list can be; only what expired is swept |
| server | 2 reports, 2 handlers; 2 connections, 4 requests, 2 of them order handlers, queue of 2; 2 runners, 3 starts; fair | a READY report can be read, plaintext goes, a refusal is true, every living job settles; the pool is accounted for and everybody is answered, or all connections are with handlers that wait for their second; migrations can be run again |
| pages | 2 requests of a page, 2 questions, 1 report of the tab that is left and opened again, 2 products on pages of one, 2 states, 2 complaints | recovery codes are seen, jobs watched, locations restored, answers belong to questions, ticks kept, redirections end, an item is listed where it is, a genuine complaint takes its product off sale |
| order_reopen, refresh_overlap, last_admin, unblock | small | section 4 |

Every property has a mutant in `PROJECT.json`: one definition changed as a
plausible bug would change it, after which TLC finds the property violated.

Why these bounds are enough to meet the hard cases. A race, a dirty read and a
deadlock need two transactions, a half-written order and a circular wait two
products; each is in a run of its own because together they do not fit. Supply
is bounded (`MaxSupply`) and an order is reopened once. order_txn_two has no
administrator and no shop (`AdminFlags = {}`), since liveness excludes
symmetry; order_txn has both. Four tokens let a family rotate, be stolen and be
ended while another lives. In client_refresh one request refreshes, one
subscribes and initAuth overlaps both, and three pairs allow a refresh after a
sign-in after a start with a session, and the reuse of a token that initAuth
had rotated. In accounts a challenge allows two wrong codes and a window two
failures (`MaxAttempts`), so that both limits are met and passed; two answers
to one challenge overlap, and lose a count; the clock has room for a window and
what comes after it (`Horizon`); a token expires no later than its row in the
table does, as in the code. In catalogue two handlers are a read and a write
that cross, two days are the last day and the day after, four prices are zero,
two that are close and one between; the visitor goes between any two pages
(`Stops`) with one load under way, which together with a held list of somebody
else is what puts a deleted product back; ages run to the bound the property
names (`HotLife` 2, `ApiLife` 3, a flight of 1), and the theorem holds for all.
In server four requests fill the pool and overfill its queue, and two order
handlers among them exhaust it; two reports of one period are two jobs that
should have been one; three starts are a run that is cut short, one that
repeats it and one that crosses it. In pages two requests are what an answer
out of order needs; loads and changes are bounded (`MaxLoads`, `MaxWrites`), as
are sets of recovery codes (`MaxCodes`) and geolocation requests (`MaxAsked`);
two sets of codes let a newer one replace an older on its way (a late answer
that meets a newer dialog with codes of its own takes a third, for which the
theorem stands); redirections are followed to the third (`MaxHops`), one more
than a property that allows one needs.

TypeOK is checked by order_txn and is part of the inductive invariant of
order_txn_two; the other modules' type invariants can be checked by adding
`INVARIANT TypeOK` to a configuration. Symmetry is used where no liveness is
checked. Deadlock is not checked where a system may stop: parts whose requests,
tokens, days or loads are used up.

## 4. Disagreements

Each is a run in which TLC finds a behaviour of the code that a line of the
repository denies; `PROJECT.json` quotes the lines.

- **order_reopen.** An administrator is exempt from validTransitions and may
  take an order out of cancelled. Its stock was given back and is not taken
  again; cancelling it a second time gives it back twice.
- **refresh_overlap.** Two tabs refresh with one cookie. Both find the token
  good or one finds it revoked by the other and ends the family, while the
  other has yet to insert its successor: the ended family has a good token.
- **last_admin.** Two administrators deactivate each other. Each counts two
  active administrators before either writes, and none is left.
- **unblock.** An administrator blocks a product; its seller deletes it, which
  overwrites the status, and then edits it to active.

Others met on the way and not made into runs:

- As many order handlers as connections wait for each other for ever
  (reports/DATABASE_AUDIT.md:53, "unbounded queue with timeout handling"; the
  pool has none). `RequestsEndOrExhaust` states it as the exception.
- On reuse of a refresh token the answer says "All sessions have been
  terminated" (authController.js:391), but only the tokens of its own family
  are revoked: the user's other families lose their access tokens, by
  token_version, and refresh them. `SessionKept` holds of them.
- resetPassword revokes "all refresh tokens" (authController.js:455), but a
  refresh that had passed its look-up inserts the next token afterwards, which
  outlives the reset; `ResetEndsSessions` excepts it.
- A request refused while the refresh of initAuth is out (EditItem without a
  user, google-login, a code of the second step) starts another with the same
  cookie; the server takes one of the two for a theft and ends the family. A
  wrong second-step code is sent again if the refresh it causes succeeds.
- Overlapping wrong codes for one challenge count once: recordChallengeFailure
  reads and writes without a lock, so MAX_CHALLENGE_ATTEMPTS can be passed.
- Two requests for one period can start two jobs (reportArchiveService.js:805,
  "Enforces single job concurrency"). A report deleted while its job is at work
  comes back when the job writes its status (tests/admin_reports.test.js:459),
  while the tab shows it as deleted and polls no more. Leaving the tab during a
  generate and coming back before its INSERT leaves the new report unwatched
  (AdminReportsTab.jsx:86, "Auto-poll if any report is PENDING or GENERATING").
- Two migration runners at once can leave 0002 recorded without its constraint,
  if one is cut between its DROP and its ADD.
- ensureSellerProfile inserts *approved* sellers (sellerController.js:234 says
  that new sellers start as pending).
- BYLOT_LOGIN_AUTH_AUDIT.md:42 says that token_version is incremented on each
  refresh; refreshToken does so only on reuse.
- resolveReport closes a complaint and blocks the product in two statements; a
  failure between them leaves the complaint resolved and the product on sale.
  getReports answers a database error with an empty list.
- updateProductStatus, resolveReport, approveSeller and blockUser clear no
  cache; edits and new listings clear none of the client's, nor do the
  deletions of the admin panel (AdminPanel.jsx:419, 449, 727, 749, 771), which
  other pages show for up to 45 seconds; Category and Location keep showing the
  card just deleted.
- Of two overlapping edits one may change the MRP and the other the selling
  price: each is checked against the row it read, and together they may leave a
  selling price above the MRP (sellerController.js:334).
- A telephone of spaces passes the form and the validators and is stored as
  NULL; its seller then lists without one (Sell.jsx:207, "A verified phone
  number is required for all sellers.").
- The answer of initiate2FASetup lacks requires2FASetup, so the dialog of the
  settings opens in verify mode and cannot enrol. Closing the dialog while the
  codes are on their way loses them.
- A late poll can stop the polling of AdminReportsTab; a late answer of
  geolocation replaces a city chosen by hand; ExpiredTab stays past its last
  page after deletions; a filled form of Sell can be sent again after success,
  and while the districts of its state load.
- resolveCategoryId passes four values for three placeholders
  (sellerController.js:75). The orphan sweep takes the thumbnails of listed
  products, which no row names; ProductCard then shows the full image.

## 5. Fairness

Safety properties are checked and proved of `Spec`, without fairness.

- OrderTxn: weak fairness of a handler's next statement (`Proceed`: the event
  loop runs what can run), strong fairness of a lock being granted (InnoDB
  queues the waiters of a row, so one that is passed over again and again is
  served), weak fairness of the deadlock detector. Clients need not send.
- ConnPool: weak fairness of each handler's next step: queries return, or the
  driver reports an error. The queue is first come first served by itself.
- ClientRefresh: weak fairness of an answer, which may be a broken connection,
  and of the callback that handles it. fetch has no timeout in the page: that
  the network reports an error in the end is the browser's.
- ReportArchive: weak fairness of a job's next step, which may be a failure.
  `Crash` has none and may come at any time, and EveryReportSettles excepts
  what died with the process.

The other modules state no fairness: what they promise is safety. RedirectsEnd
is one too, as a bound on redirections in a row.

## 6. Proofs

Every theorem is of `Spec`, safety only, and holds for every value of the
constants that satisfies the named assumptions of the modules: any number of
rows, requests, handlers, tokens and pages, any limit and lifetime. A run of
section 3 checks the same property on a small instance. Each proof has the same
course: an inductive invariant, a lemma per action that the step keeps it
(actions that touch the same parts share lemmas), and a theorem that draws the
property from it.

| Module | Theorems | Property |
|---|---|---|
| OrderTxnProofs | Invariance, TypeCorrect, NeverOversold | `IInv`, `TypeOK`, `StockNeverNegative` |
| | TransactionsAreAtomic | `Atomic`: OrderTxn implements OrderBook |
| | StockIsConserved | `StockConserved` |
| OrderLedgerProofs | BooksBalance | `StockConserved` of OrderBook |
| RefreshTokensProofs | TypeCorrect, ResetIsFinal | `TypeOK`, `ResetEndsSessions` |
| | OneLiveToken, ReuseEndsForGood, PatientDeviceStaysIn (of `Overlap = FALSE`) | `OneLivePerFamily`, `EndedStaysEnded`, `SessionKept` |
| ClientRefreshProofs | TypeCorrect, NobodyIsForgotten, NoReuseOfItsOwn | `TypeOK`, `NobodyForgotten`, `NoSelfReuse` |
| ServerProofs | ReadyIsReadable, PlaintextIsRemoved, RefusalsAreTrue | `ReadyCanBeRead`, `PlaintextGoes`, `RefusalIsTrue` |
| | PoolIsAccounted, RerunsAreSafe | `PoolAccounted`, `RerunIsSafe` |
| AccountsProofs | RecoverySignsInOnce, EnabledCanRecover, GuessesAreLimited, OnlyFailuresLock | `RecoveryCodeOnce`, `EnabledHasCodes`, `AttemptLimit`, `LocksAreEarned` (of every step) |
| | SignedOutStaysOut, GoogleOwnerIsAlone, TypeCorrect | `SignedOutIsRefused`, `LinkedPasswordIsOwned`, `TypeOK` |
| CatalogueProofs | PricesStayTogether, ListedImageIsThere, CachedListIsCurrent | `PricesAgree`, `ImageThere`, `CacheKeepsUp` |
| | DeletedStaysAway, SweepTakesThePast, TypeCorrect | `DeletedIsGone`, `OnlyPastIsSwept` (of every step), `TypeOK` |
| | StalenessBounded | `NothingOlder` of CacheAges |
| PagesProofs | CodesAreSeen, JobStaysWatched, ReloadRestores | `CodesReachTheAdmin`, `JobIsWatched`, `ReloadKeepsLocation` |
| | RestingPageAnswers, TicksStay, NobodyGoesInCircles | `AnswersToTheQuestion`, `TicksAreKept`, `RedirectsEnd` |
| | ListingsFit, GenuineStaysOffSale, PagesTypeCorrect | `ListedWhereItIs`, `GenuineIsOffSale`, `TypeOK` |

**Orders.** That stock does not fall below zero is not inductive: the step that
deducts checks nothing, the check was made statements earlier. `IInv` says what
makes it still true. `LocksExplained`: a lock is held only by a transaction
that has taken it and for a row of its request. `WritesLocked`: an uncommitted
write is under its writer's lock, so no two undo logs hold the same row.
`CreateCovered` and `MoveCovered`: what the handler found when it was granted
its locks holds of the rows as they would be without its writes.
`StockNeverNegative` includes the rows a ROLLBACK would put back.

The lemmas of the actions share three: what a handler relies on is not
disturbed by a step that leaves its locked rows alone (`OthersUndisturbed`,
`OthersKeepTheirPart`), a rollback keeps the invariant (`RollbackStep`), and so
does a commit (`CommitStep`). For the refinement every step but the two commits
and the autocommit UPDATEs shows nothing to others (the `...ShowsNothing`
lemmas); `CommitCreatePlaces` and `CommitStatusMoves` map the commits to
`Place`, `Cancel` and `Move`, with `SameRules` for the guards.

The account of stock is proved of `OrderBook`, where a handler is one step
(OrderLedgerProofs), and carried to the transactions by the refinement: what
they commit is a behaviour of the book. The sum over the orders in force is a
fold of the library, whose induction theorems take a predicate and so cannot be
cited; `SubsetInduction` puts a set in the place of the predicate, and from it
follow the lemmas on sums that are needed: a sum loses what an element held
(`SumWithout`), gains what a new one brings (`SumAdds`) and depends on nothing
else (`SumAlike`). `LedgerInv` adds to the account that the orders in force are
finitely many, since only over a finite set the sum is one: so `Orders` itself
may be infinite.

**Refresh tokens.** `Shape` is what holds however requests overlap: what a
handler has read agrees with the rows. What needs one request of a device at a
time is under the hypothesis `Overlap = FALSE`, and that it needs it is not a
convenience of the proof: refresh_overlap is the counterexample. The invariant
then says that a family is one device's (`OneHolder`), which token a handler
may find good at each of its statements (`HandlerInv`), and that a cookie whose
token was rotated away is about to be replaced or has been lost on the way
(`CookieInv`). The reset needs no such hypothesis: `SweptInv` says of a session
it ended that all its tokens are revoked and no handler of it is past its
look-up.

**The page.** `Gathered` makes NobodyForgotten inductive: the subscribers are
exactly the requests that wait, and one request is at the refresh they wait
for. For NoSelfReuse a token is *fit* if presenting it raises no alarm, or one
that is excused: what an answer brings is fit and nobody else has it
(`CarriedFit`, `AnswersApart`), the cookie is fit or the answer that replaces it
is on its way (`CookieFit`). The refresh of initAuth takes no turn with the
others, so one of them may present the same cookie; `TogetherExcused` says that
nothing else presents a token twice, and that then its family is excused.

**Reports and the pool.** A deletion unlinks only what it found in the row, and
the path is written in a job's last step but one, so a file that is still being
written is never unlinked (`ReportInv`, `DeletionInv`). In the pool nobody is
queued twice (`Distinct`), so that a release which hands a connection to the
first of the queue takes exactly one waiter away, and the connections of a
handler follow from its step (`Counted`).

**Migrations.** What files 1 and 3 to 8 do is `Lasting`: nothing adds the
payments again or removes what those files add, so a statement that has taken
is never undone, by whatever runner. File 2 does undo: its constraints are
dropped and added again. `Constrained` says of each that if it is missing, and
the file is recorded or some runner is past its ADD, then a runner stands, or
was cut short, between its DROP and its ADD; the property itself, which asks
only for a runner past the DROP, is not inductive, for that runner may be the
one that records the file. `Alone`: a runner nobody crosses has what it saw
before it, and no file to do that is recorded; hence MySQL refuses it nothing.

**Accounts.** `VisitInv` and `LockInv`: whoever burns a recovery code holds its
row, and found it unused after it had the lock; the attempts of a challenge
that is still there fall behind the wrong codes it has answered by at most
MaxAttempts for each that crossed another. `LockoutInv`: a record that is not
stale counts no more failures than there were since its first. `BlacklistInv`:
the row of a token outlives it, and a request that was let through with a
signed-out token asked after it had expired; it needs `Held >= Life`, which
`BlacklistAssumption` takes from the code: logout lists a token for 24 hours
and it lives for less. `AccountInv`: the password of a verified row is the
owner's, and a Google sign-in that found nothing to clear still finds nothing
to clear when it writes.

**Catalogue.** `PriceInv`: what an edit is to write agrees with the prices it
has seen, so that it agrees with the row unless a price it leaves out has
changed. `FileInv`: a file is in one row at most, an upload in hand is young
and in no row, what is to be replaced is in no other row, and the orphan script
knows every file that was in a row when it read them. `LifeInv`: a list that is
about to be stored and was not overtaken shows what the database does; only one
sweep has the lock. `StoreInv`: while a deletion is under way that nothing has
crossed, the client asks for nothing and keeps no more than what the panel left
it, and once the server has cleared its cache that keeps nothing. TLC did not
need, but the proof did, that a request whose answer was read is for a list
that the server caches.

`AgesInv` splits the bound on the age of a list along the way the list takes: on
its way from the database it is as old as its wait, in the server's cache it is
at most a flight older than it was kept there, on its way to the client at most
HotLife + Flight older than its wait, in the client's cache that and a flight
older than it was kept. Ages beyond the bound are not told apart, which is why
an entry's part is only claimed while the entry is good.

**Pages.** Each page has its invariant. `CodesInv`: a set of recovery codes is
with an answer that brings it to a dialog that is still there, has been shown,
or is counted as missed. `WatchInv`: but for reports deleted while they were
made, a list on its way is never ahead of the server (`NotAhead`); after
"generate" one load is due that will bring the new report (`Reloading`), and
the first list of a tab brings what it finds being made (`FirstList`).
`PlaceInv`: that page and store agree is inductive by itself. `LoadsInv`:
unless an answer overtook another on a page that does not look, the page shows
the latest load or the latest load is under way (`Trusted`). `TicksInv`: while
a deletion is answered its dialog covers the list, so the ticks are still those
of the click. `EntryInv`: where one redirection led, no other leads away.
`SellInv`: the dialog that asks for a telephone covers the form; the district
is one of those offered, which are the state's once the answer to the last
change is there (`Settled`). `DeskInv`: a call of the panel writes what it was
made for.

The attempt to prove `CodesReachTheAdmin` showed that the module was wrong: a
late success closes the dialog that is open when it comes, though it is a newer
one, and the model had it close its own. No two sets of codes show it; with
three TLC finds it too.

**Parts of a run.** In MCAccounts, MCServer, MCCatalogue and MCPages the part
that the initial state chose moves by its own steps, and the others not at all.
The invariants of the parts are proved apart, from each part's own module, and
`AccountsKeep`, `CatalogueKeeps`, `PagesKeep` and the `...Always` lemmas of
ServerProofs put them together.

Only model-checked: liveness under fairness, and ENABLED (`EveryHandlerEnds`,
`EveryCallSettles`, `EveryReportSettles`, `RequestsEndOrExhaust`), which are
out of the prover's reach. Every invariant and every action property of a
passing run is a theorem. That the code breaks what section 4 quotes is shown
by TLC's counterexamples.

## 7. What is not modelled

Totals of orders, addresses, texts and formats: no property depends on them.
The functions of `utils/pricing.js` and `utils/expiry.js` are comparisons of
one number or date. JWT signatures, hashes and ciphers are taken to work, and
with them the time step of a code and its replay. Rate limits, CSRF checks and
sanitizers are filters of one request; SEO pages, the MCP server, notifications
and categories keep nothing that others rely on; mail and Google are other
services. The daily quota of uploads and thumbnails are left out, as are the
demonstration data the client shows when it is built with them, search boxes,
filters and ranking. Transactions are those of one MySQL server whose locks are
exclusive and per row; gap locks only add waiting. An image_url that a request
body gives as text and that happens to name an uploaded file is not modelled,
nor is a request or a run of the orphan script that lasts an hour. The answer
of createOrder after its commit is not part of its model.

## 8. Plan

The modules are complete as planned, and every safety property that a run
checks is proved. What is left is worth doing in this order:

1. The type invariants of ReportArchive, ConnPool and Migrations together as a
   theorem of MCServer. Their parts are in the inductive invariants, but for
   the counter of starts of Migrations, which needs `MaxRuns` to be a number.
2. The abstract specification of sign-in, with RefreshTokens shown to implement
   it: a family of tokens as one session that is rotated, ended or lost.
3. The lemmas on sums of OrderLedgerProofs in a module of their own, should a
   second sum be proved about.
