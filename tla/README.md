# Verification of the second-hand market

TLA+ modules of the Flask application in `src/` (`app.py`, `blueprints/`, `security.py`, `db.py`,
`schema.sql`), TLC configurations that check them on small instances, and TLAPS proofs that hold for
every value of the constants. `PROJECT.json` maps each definition to the lines it models and lists
the runs, the mutants, the hazards, the findings and the theorems.

## 1. The system

One Python process serves HTTP requests and Socket.IO events on **threads** (`extensions.py:22`,
`async_mode="threading"`). Every request opens its own SQLite connection (`db.py:39-52`, WAL,
`busy_timeout` 5 s). There are no locks in the application except inside the chat limiter: requests
meet in the rows of the database, in the files of the upload directory, in the browser's session
cookie and in the limiter's memory.

| Component | State it keeps | Operations | Meets |
|---|---|---|---|
| Database access (`db.py`, `schema.sql`) | tables; SQLite's write lock | `execute` (one statement, committed), `transaction` (BEGIN IMMEDIATE ... commit/rollback) | everybody |
| Transfers (`blueprints/transfers.py`) | `users.balance`, `transfers` | POST /transfer | balance adjustment, product deletion, suspension |
| Administration (`blueprints/admin.py`) | `users.role/status/balance`, `products.status`, `reports.status` | `user_action`, `adjust_balance`, `product_action`, `report_action` | all of these |
| Reports (`blueprints/reports.py`) | `reports`, `report_count` | POST /report, `_apply_threshold` | administration, sellers |
| Products (`blueprints/products.py`) | `products`, image files | create, edit, delete, `change_status`, search | reports, administration, transfers |
| Accounts (`blueprints/auth.py`, `app.py`) | `users` rows | register, `flask create-admin` | administration |
| Login (`blueprints/auth.py`, `security.py`) | `failed_logins`, `locked_until`, `password_hash` | login, `change_password` | administration |
| Sessions (`security.py`, the hook of `app.py`) | the signed cookie, in the browser | `start_user_session`, `end_user_session`, `enforce_session_policy`, reauthentication | login, password change, chat sockets |
| Chat (`blueprints/chat.py`, `static/js/chat.js`) | `messages`, rooms, what each tab shows | connect, `global_message`, `private_message`, direct form, histories | limiter, suspension |
| Chat limiter (`security.py:330`) | time stamps per user | `allow` | chat |
| Audit log (`security.py:303`) | `audit_logs` | `audit` (errors swallowed) | everybody |

What is hard to test here:

* **Read, decide, write.** Most handlers read a row in one statement and write in another. Whatever
  happens in between is not seen again: balance adjustment, seller's status change, count of
  administrators, failure counter, rehash, image path, report count.
* **Atomicity.** Only the transfer uses a transaction. All other handlers commit statement by
  statement, so a lock timeout or a dying thread leaves what was committed so far.
* **Two stores.** Image files and rows change separately.
* **Time.** Locks that expire, sliding sessions, a clock read outside the limiter's lock.
* **State outside the server.** The session is the cookie: answers put it back in any order, or get
  lost. A chat tab has a page and a socket, which are filled by different handlers.

What makes each component correct: the books balance and the history explains them (transfers); the
measure follows the reports and nobody else is hit (reports); a block stays until an administrator
lifts it (products); there is always an administrator (administration); a name has one owner
(accounts); the lock comes after the limit, not before, and lasts (login); a changed password stays
changed (login, sessions); a picture that is referenced exists, and no file is left over (images); a
session ends when it should and not before (sessions); messages reach those they concern, and only
them, once and in order (chat); nobody exceeds the limit, and nobody within it is refused (limiter).

## 2. Modules

| Module | What it is |
|---|---|
| `Ledger` | abstract: bonus on opening, money moves and is recorded in one step, an administrator sets a balance |
| `Wallet` | transfers and adjustments, one action per SQL statement; shown to implement `Ledger` |
| `WalletProofs` | inductive invariant of `Wallet`; sums over finite sets, and the books; refinement proof |
| `Moderation` | reports, thresholds, seller's status change, administrators' statements |
| `ModerationProofs` | inductive invariant of `Moderation` |
| `Accounts` | registration, create-admin, user actions, automatic suspension |
| `AccountsProofs` | inductive invariant of `Accounts` |
| `Login` | login with failure counter, lock and rehash; password change; activation |
| `LoginProofs` | inductive invariant of `Login` |
| `ProductImages` | create, edit, delete of a product and its file |
| `ProductImagesProofs` | inductive invariant of `ProductImages` |
| `Sessions` | the cookie of a browser: login, checks before a request, reauthentication, logout, password change, answers |
| `SessionsProofs` | inductive invariant of `Sessions` |
| `ChatLimiter` | `SlidingWindowLimiter.allow`, with the clock read outside the lock |
| `ChatLimiterProofs` | inductive invariant of `ChatLimiter` |
| `Channel` | abstract: messages are posted, and shown to those they concern |
| `Chat` | extends `ChatLimiter`: from the event or form to the sockets, pages, connections; shown to implement `Channel` |
| `ChatProofs` | inductive invariant of `Chat`; `Chat` implements `ChatLimiter` and `Channel` |
| `MC...` | instances for TLC; those of `Wallet`, `Accounts`, `Login`, `Moderation` and `ProductImages` extend the proof module, so that TLC can be given the inductive invariant too |

**Conventions.** One action is one SQL statement or one file operation; a purely local computation
(password verification on a row already read) belongs to the statement before it. `pc` says what a
request does next, `job` (`form`, `adjust`, `change`) holds its inputs and what it has *read*; the
action that writes uses the stored value, as the handler does. A variable marked "history" is
auxiliary: nothing of the program depends on it. Operators named `Bug...` are mistakes a programmer
could make; each property is seen to fail when one of them replaces the definition that follows it.

### Wallet

`lock` is SQLite's write lock, taken by `BeginImmediate` and given back by `Commit` and `Rollback`;
`image` is the balances as the open transaction sees them. Statements outside a transaction
(`WriteBalance`, `Audit`, registration, status changes, deletions) need the lock to be free, or run
into `LockTimeout`; reads always see the committed rows (WAL). `Crash` stops the process: requests
vanish, committed rows stay. `InsertTransfer` models the foreign key on `product_id`; deletion of a
product sets it to NULL. The CHECK `balance >= 0` of the schema is deliberately left out: `TypeOK`
then shows that the handlers keep balances non-negative by themselves, and the CHECK is only a
second line of defence, as `schema.sql:2` intends. Registration gives the bonus of `SIGNUP_BONUS`.
Suspension is one of two values (`blocked` stands for dormant and banned), because the transfer only
asks for `active`.

### Moderation

A report is INSERT, COUNT, UPDATE of `report_count`, and the guarded UPDATE of the status
(`_apply_threshold`), each a statement of its own; `LockTimeout` ends a request at any of the
writes. `StartReport` holds the checks in front of the INSERT, including the daily limit, within one
day. `StartStatusChange` and `ApplyStatusChange` are the two halves of `change_status`. The
administrators' handlers read only to answer 404, so each of their statements is one action;
`intervened` remembers the targets a person acted on. The properties `ThresholdEnforced` and
`EnoughReportsSuppress` are about the others: there, the reports alone decide.

### Accounts

`FindNameFree`/`InsertAccount` and `LookUpAdminName`/`PromoteExisting`/`InsertAdmin` separate the
look-up from the write; UNIQUE on the name refuses the second INSERT. `StartAction` holds the guard
on oneself, `CountAdmins` the SELECT COUNT, `ExecuteAction` the UPDATE, which looks at nothing but
the id. `overlapped` records that two administrators' requests were ever in progress together.

### Login

One row stands for every account, since accounts share nothing here. `StartLogin` reads the row and
settles the outcome (wrong, blocked, rehash, success); `RecordFailure`, `Rehash` and `Reset` write
later, from what was read. A failure that reaches the limit takes two steps: `ReadClock` computes the
end of the lock, and `LockAccount` writes it once the UPDATE gets SQLite's lock. Two failures may
therefore write in another order than they read the clock, and a lock that is running is shortened by
as much as the later UPDATE had to wait: `LockStands` allows this and no more. In the program
`busy_timeout` limits the wait to 5 s; the model lets it last as long as it likes. The lock is a time;
`Tick` lets it pass. `streak` counts the failures since the counter was last reset, `failedAt` is the
time the last of them took (in `LockAccount` the one it read), `wrong` counts all failures.

### ProductImages

File operations and SQL statements are separate actions, in the order of the handlers: save the new
file, remove the old one, then UPDATE; remove the file, then DELETE. `Die` covers a lock timeout in
the statement and a thread that ends anywhere. `overlapped` and `interrupted` name the products on
which something went wrong; `PicturesPresent` and `NoOrphans` are about the rest, `NoSharedFile`
about all.

### Sessions

The server keeps no session. A request is `Send` (the browser sends the cookie it has), `Enforce`
(`enforce_session_policy`: signature, idle time, time stamp of the password, status), the handler,
and the answer, which carries the request's own copy of the session (`SESSION_REFRESH_EACH_REQUEST`).
`Receive` puts it into the browser, after whatever other answers came before; `Lose` is an answer
that never arrives. What a request asks for is left open until it is served, so that `Send` and
`Enforce` need no kinds of requests. `StartSession`, `Reauth`, `Logout` and `CommitChange` are the
handlers that touch the session; the two steps of a password change (time stamp, UPDATE) and of
a login (row, session) are apart, and `LockTimeout` ends either with an error page: the UPDATE of the
change, and the statements a login executes before its session starts (rehash, counter). `Reauth`
stands for `/reauth` and for a transfer, which both call `mark_reauth`. A chat socket keeps the cookie
of its handshake (`Connect`), and
only `Authenticated` looks at it. `auth_at` and `password_changed_at` are only compared with each
other, so both are counted in changes. The history variables `calm`, `quiet`, and `typed`, `raced` and `began`
inside a session say when the properties may demand something: each exemption was seen to be needed.

### ChatLimiter and Chat

`ReadClock` is the line before the lock, `Allow` and `Refuse` the block under it. `admitted` keeps
all times let through, `latest` and `disordered` whether threads came with their times in order; the
exact limit is claimed as long as they did. `Chat` extends it: `EnterLimiter`, `Admit` and `TurnAway`
are the steps of a message through the limiter.

A request of `Chat` is one message: accepted (`SocketEvent`, `SubmitForm`), the partner read, limited,
stored, emitted. `Emit` takes the members of the room as they are (`Room`), `SendTo` puts the message
into one socket after the other, `Echo` sends a direct message back to the socket it came by. Messages
of the form end after `StoreMessage`. A tab goes from `closed` over `page` (it has the history,
`LoadPage`) to `joined`; `Drop` loses the socket with all that is on its way to it, and `Join` comes
back without a new page, as the client library does. A page that is loaded again is another tab.
A page has at most `HistoryLimit` messages (`Histories`); the newest by `created_at`, which is taken
in whole seconds before the INSERT, so that any of a few close together may be left out.
`missed` records what a tab cannot have, because it was sent while the tab had no socket, or hidden
or too old when the page was made; `ScreenComplete` claims the rest. `grace` records the requests a suspension
came too late for.

## 3. Runs

| Run | Checks | Shows |
|---|---|---|
| `wallet` | `TypeOK`, `FullInv`, `ReconciledUnlessOverwritten`, `NoDanglingProduct`, `AuditHonest`, `LockReleased`, `Answered`, `Implements` | money is only lost where an adjustment overwrites blindly; everything else is atomic, audited truthfully and answered |
| `wallet_books` | `Reconciled` fails | `adjust_balance` overwrites a transfer |
| `wallet_audit` | `EveryTransferAudited` fails | the audit entry of a committed transfer is lost on a lock timeout |
| `moderation` | `TypeOK`, `ThresholdEnforced`, `NoWrongfulMeasure`, `OnlyAdminsMoveProtectedAccounts`, `BlockOutlivesFreshSellers`, `EnoughReportsSuppress` | thresholds work under every interleaving |
| `moderation_seller` | `OnlyAdminsUnblock` fails | a seller's stale request lifts a block |
| `accounts` | `TypeOK`, `ActiveAdminSurvives`, `OnlyDemotionRemovesAdmins` | administrators remain while their requests do not overlap; names are never taken over |
| `accounts_last_admin` | `AdminRemains` fails | two administrators demote each other |
| `login` | `TypeOK`, `LockEarned`, `SequentialLockout`, `LockStands`, `LimitHolds` | the lock comes at the limit, and stays; the limit goes on when the lock has expired |
| `login_rehash` | `RehashKeepsPassword` fails | the rehash brings an old password back |
| `product_images` | `TypeOK`, `PicturesPresent`, `NoOrphans`, `NoSharedFile` | pictures are lost, and files left, only by overlap or death |
| `chat` | `TypeOK`, `RateKept`, `RefusalJustified`, `OrderKept`, `ScreenComplete`, `SuspendedSilenced`, `Implements` | messages reach those they concern, once, after those they were sent after; nothing is lost between page and socket; suspension and limit hold through every interleaving |
| `sessions` | `TypeOK`, `LogoutHolds`, `SocketBounded`, `PasswordChangeRevokes`, `IdleTimeKept`, `ReauthEarned` | what a password change, a logout, the idle time and the reauthentication window guarantee although answers arrive in any order |

Each failing run contradicts a sentence of the code or its documents; PROJECT.json quotes it under
"findings".

**Bounds, and why they are enough.** *Wallet*: two users, one product, two transfers, one adjustment,
amounts equal to the bonus: the second transfer out of an account fails, or succeeds when money came
in; the adjustment can be refused, overwrite, or not. Two transfers and an adjustment give every pair
of concurrent writers, and a crash may come at any point. `MaxStatusChanges` = 1 is one suspension.
*Moderation*: thresholds of 2 are reached by two reporters; an administrator, a seller and a third user, each of whom
may report or be reported; `MaxInterventions` = 1 statement of an administrator and one seller's
request at every possible moment; a daily limit of 1, which concurrent requests overrun. *Accounts*:
three names, two administrators' threads, one registration thread, create-admin; nothing is counted,
so the state space is finite and threads serve any number of requests. *Login*: limit and duration 2,
`MaxTime` 4, no new login after `MaxWrong` = 4 failures: the lock is set, expires and is set again.
*ProductImages*: two products, two threads, three uploads.
*Chat*: two messages of three users, the smallest number with an order, a third person
and a refusal (one message per window, `Window` 0, `MaxTime` 1: an event may be in the window, just
outside, and be passed by a thread with an older time). One tab shows everybody's chat, one a direct
conversation; a third user has none and writes by form. `MaxSuspensions` = 1 with any number of
activations, `HistoryLimit` = 1: the second message of a conversation cuts off the first. *Sessions*: one browser and two threads. Browsers share nothing but the row, which
changes through any request; a second browser would only add a second source of the same password
change and suspension, which other actions already make at any time. `ReauthWindow` 0, `Idle`
1 and `Lifetime` 2 are ordered as configured, and `MaxTime` 3 has both sides of each limit: a session
that is used every minute outlives its lifetime. Passwords are typed up to `LastTyping` = 0, the first
minute; sessions start, and a change is stored, at any time after. One password change.

**Deadlock** is checked in `accounts`, `login`, `chat` and `sessions`, where something can always happen. In the others
requests, products or uploads run out and the system stops.

**Fairness.** `Wallet!FairSpec` and `Moderation!FairSpec` assume weak fairness of the steps of a
request that has begun: the operating system schedules its thread, and SQLite's busy handler gives up
after 5 s, so that a waiting statement either runs or fails. Nothing is assumed of users, who need not send
requests, nor of administrators. `LockReleased` and `Answered` need no strong fairness, because a
blocked statement may time out; `EnoughReportsSuppress` names the timeout as an excuse. `Chat` and
`Sessions` state no liveness: a connection may break and an answer may get lost for good, so that
nothing has to arrive; what must be on the screen once a message is done with is the invariant
`ScreenComplete`.

## 4. Proofs

All theorems are checked by TLAPS for every value of the constants that satisfies the named
assumptions; each is a statement about the same definitions TLC checks.

* **WalletProofs.** `Inv` strengthens `TypeOK`: a request inside the transaction holds the lock and
  its image, and nobody else has one (`LockInv`); it has passed the checks on its form (`FormInv`);
  its image differs from the committed balances by what it has executed so far, because nobody else can write
  while it holds the lock (`ImageInv`); an adjustment never writes a negative value (`AdjustInv`);
  request and history agree (`HistoryInv`). `TypeOK` alone is not inductive: that a debit does not go
  below zero follows from the check only while nobody else writes. From `Inv`: `TypeCorrect`,
  `ReferentialIntegrity`, `AuditSound`, and `Refinement`: every step maps to `Ledger!Open`, `Move`,
  `Set` or a stutter; the commit is the `Move`, and it needs `ImageInv` to be one.

  `FullInv` adds `Books`: the history is finite and names existing accounts, sender and receiver of
  a transfer differ, and every balance no adjustment wrote over is what the history sums up to
  (`Booked`). A commit adds one row and two balances change by its amount; an adjustment adds its
  difference; a registration opens an account nothing in the history names; no other step touches
  either side. The sums are those of the community module `FiniteSetsExt`, folds defined by
  recursion over an arbitrary choice of the next element. That such a sum exists, is unique and
  grows by the value of an added element (`AddsExists`, `AddsUnique`, `TotalAdd`) is proved without
  the induction theorems: the sets on which it fails would have a smallest one, since strict
  inclusion of finite sets is well-founded (`WFMin`), and that one cannot fail. From it
  `FullInvariance` and `MoneyConserved`.
* **ModerationProofs.** `Inv` adds what a request is about (`JobInv`); that a count in its hands is
  not above the number of users who reported by now (`CountInv`: a report changes its status but is
  never removed); and that somebody owes the measure (`DebtInv`): a target with enough counted
  reports that no person acted on is suppressed, or a request is going to count, holds a count that
  reaches the threshold, is about to act - or died before it could. The INSERT that reaches the
  threshold makes its own request the debtor, and whoever counts afterwards sees it. A request that
  finished owes nothing, which is `Enforced`. `NotWrongful` is `CountInv` at the moment of `Act`;
  `Protected` and `BlockOutlives` follow, step by step, from the conditions in the UPDATE statements
  and from `JobInv`. `Users` is assumed finite, as the rows of a table are; the daily limit plays no
  part.
* **ProductImagesProofs.** `Inv` adds who owns a name: a product, or the requests that hold it as
  the picture they read or will store, and those all work on that product (`OwnedInv`); that the only
  request on a product knows the row as it is (`AloneInv`); that the file a request is about to store
  exists unless others interfered, and the one it removed is gone for good, since names are never
  used twice (`FileInv`); and, while nothing overlapped or died, that each file is a picture or in
  the hands of a request that will make it one (`KeptInv`). `NamesKept` shows once what the steps on
  files leave alone. From it every property of the run: `TypeCorrect`, `Present`, `NothingLeft`, and
  `Unshared`, which needs neither exemption.
* **AccountsProofs.** `Inv` adds: a running request passed its checks (`JobInv`), create-admin
  remembers an existing row (`CliInv`), and, until two requests have overlapped, the only one running
  belongs to an active administrator (`AloneInv`) - which is why he survives his own action.
  Theorems `TypeCorrect`, `SequentialAdmins`, `RoleLoss`.
* **LoginProofs.** `Inv` adds: no count, stored or read, exceeds the failures recorded (`CountInv`);
  without overlap the running login has read the counter as it is (`AloneInv`); no running login saw
  a lock that is still in force, a lock runs for at most `Lockout`, and whoever is about to write one
  has reached the limit and read the clock by now (`LockInv`); without overlap an account at the limit
  is locked until `Lockout` after its last failure (`LimitInv`). Hence a lock that is written later
  than its clock was read falls short of `clock + Lockout` by the wait, and the lock it replaces ends
  no later than that: `LockIsKept`. `LimitIsKept` is `LimitInv` at the moment a login finds the lock
  expired; also `TypeCorrect`, `LockIsEarned`, `ExactCount`.
* **SessionsProofs.** `Inv` adds what is true of every copy of a session - in the browser, in a
  request, in an answer, and what a socket keeps (`Sound`, `SessionInv`): its times lie in the
  history, and unless its login raced with a change it either began with the password as it is or is older
  than `password_changed_at`, and older than the stamp of any change still to be stored. The
  properties look at one request; a copy an old answer brings back makes them true only because all
  copies are sound. `ChangeInv` is about the stamps, `RequestInv` about requests, `HistoryInv` says
  that no recorded time lies in the future, `QuietInv` that nobody has a session or is logging in
  after a quiet logout, `CalmInv` that the browser has, or is about to get, the latest `last_seen`.
  `SoundKept` and `CopiesKept` show once what most actions have in common. From it every property of
  the run: `TypeCorrect`, `Quiet`, `Bounded`, `Revoked`, `Idled`, `Reauthenticated`.
* **ChatLimiterProofs.** `LimiterInv`: as long as the times of a user came in order, they rise, the
  bucket is the end of what was let through, and everything before the bucket has left the window. So
  a full bucket is `MaxEvents` events inside the window, and an event let through is further than the
  window from the one `MaxEvents` before it. Theorems `LimitKept`, `NoWrongRefusal`, for any number of threads,
  any limit and window.
* **ChatProofs.** `ChatInv` adds: a message is stored before it is sent (`JobInv`), is on its way to
  open sockets of its room only (`RoomInv`), and is not on its way to where it was received
  (`ReceivedInv`); what is due to a tab is on the page, received, on its way or `missed`
  (`ScreenInv`); requests a message was sent after stay finished (`AfterInv`); an author and a
  partner are still active unless a suspension was recorded (`WatchInv`). From it every property of
  the run: `TypeCorrect`, `Order`, `Complete`, `Silenced`, `Refinement` (every step maps to
  `Channel!Publish`, `Show` or a stutter), and `LimiterInside`: `Chat` implements `ChatLimiter`, which
  hands its theorems on (`ChatLimitKept`, `ChatNoWrongRefusal`).

Assumptions on constants: request sets are disjoint, `None` is none of the values it stands beside,
amounts are positive, limits and durations are naturals (positive where they count events), tabs have
an owner and do not show a conversation of their owner with himself. The idle time is at most the
lifetime of the cookie, as configured (`IdleWithinLifetimeAssumption`; only `Idled` needs it).

Every safety property of the passing runs is proved. Only model-checked are the liveness properties
`LockReleased`, `Answered` and `EnoughReportsSuppress`: fairness and ENABLED are outside the prover's
reach. The run of `Wallet` checks the inductive invariant as well; those of `AccountsProofs`,
`LoginProofs`, `ModerationProofs` and `ProductImagesProofs` hold on the instances of their runs (`Inv`
under INVARIANTS in place of `TypeOK`, which it contains).

## 5. Not modelled

* Calendar days in the daily report limit (`reports.py:103`): a single day only, see the plan.
* IP rate limits and CSRF protection (Flask-Limiter, Flask-WTF) are libraries; the handlers are
  modelled as if every request were let through.
* Form validation, templates, headers, search, listing, inbox: no state, single inputs.
* Configuration loading and demo data: start-up only.
* In the chat: the order of the messages on a page (`created_at` counts seconds), and a restart of
  the process, which empties the limiter and the rooms.
* `time.time()` running backwards. The limiter's own disorder, a thread that is overtaken between the
  clock and the lock, is modelled.
* The passing of time inside a statement, and SQLite itself, beyond lock, commit and constraints.

Seen while modelling, without a run of its own:

* `security.py:138` leaves an absolute expiry to `PERMANENT_SESSION_LIFETIME`, and SECURITY_CHECKLIST.md:19
  claims one after 60 minutes ("절대 만료 60분"). With `SESSION_REFRESH_EACH_REQUEST` (`config.py:62`) the
  cookie is signed again with each answer, so that a session in use never expires: a session that is
  let in every minute is let in more than `Lifetime` after its login. `IdleTimeKept` therefore demands
  that a session in use goes on only within `Lifetime` of its login, and takes neither side after
  that. `SocketBounded` is what the lifetime still bounds.
* `security.py:273`: two failures at the limit may write their locks in another order than they read
  the clock, and the later one shortens a running lock by the time its UPDATE waited (`LockStands`).
* `security.py:271`: logins that fail side by side have read the same count and store the same count,
  so that more than `MaxFailures` wrong passwords can be tried before the lock. `SequentialLockout`
  and `LimitHolds` are about logins that do not overlap.
* `chat.py:157`: an open socket is not reached by logout, idle time or password change. A suspended
  user can send nothing (`SuspendedSilenced`), but his open socket stays in its rooms and receives
  until he sends something; SECURITY_CHECKLIST.md (C-2) speaks of events only.
* `chat.js:64`: a message that is stored before the page is made and sent after the socket is there
  shows twice, and one sent between page and socket does not show until the page is loaded again
  (`missed`).
* `chat.py:135`: messages of the form are stored and never emitted.
* `security.py:338`: with times out of order a user can pass more than the limit by as many messages
  as threads were overtaken.
* `auth.py:86`: a login that read the row before a password change may start its session after it,
  and this session survives (`raced`).

## 6. Plan

1. `ReportQuota`: days, the text comparison of time stamps, the count before the INSERT.
2. Composition of `Login` with `Sessions`, of `Accounts` with `Moderation`; an abstract
   specification of moderation (reports against a target lead to one measure) to refine, as a
   consequence of `DebtInv`.
