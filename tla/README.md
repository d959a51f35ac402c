# A TLA+ model of the PyCon ID back end

The repository is the back end of a conference site: a FastAPI application over
one Postgres database, a worker process with two periodic jobs, and two outside
services, the payment gateway Mayar and the video platform Mux. This directory
holds TLA+ modules that model its stateful parts, TLC configurations that check
them on small instances, and theorems about them that TLAPS proves for all
instances.

## 1. How the program runs

Several things make its behaviour harder than its code looks.

* **Coroutines with synchronous database calls.** Most handlers are `async def`
  functions that use a synchronous SQLAlchemy session
  (`models/__init__.py:29-35`). Between two `await`s such a handler occupies the
  event loop of its process, also while it waits for a row lock or for a
  connection. Other API processes, the worker and Mayar go on meanwhile.
  Handlers declared with plain `def` (vouchers, for one) run in threads.
* **What was loaded is stale after an await.** A session loads a row once and
  keeps it. Nothing is read again before a commit.
* **A commit writes columns, not rows.** SQLAlchemy writes the columns whose
  value differs from the one it loaded, with absolute values. The session has
  `autoflush=False`: unless the code calls `flush`, a row is changed, and locked
  by that, at the commit only.
* **Transactions span calls to other services.** `create_payment` flushes a
  payment and a voucher decrement, awaits Mayar, and commits afterwards.
* **Processes end.** An API process or the worker may die at any point. Its
  connections close and Postgres rolls its open transactions back.
* **Two deployments.** `railway.json:7` starts one process, `Dockerfile:64` five.
  Handlers that await nothing between their first SELECT and their commit overlap
  on different processes only, and several promises hold for one process alone;
  they are stated that way (`Single`, `process`).

## 2. Inventory

| Component | State it keeps | Operations | What is hard | What makes it correct |
|---|---|---|---|---|
| Ticket purchase and settlement (`routes/payment.py`, `repository/payment.py`, `core/mayar_service.py`) | table `payment`; `user.participant_type`; Mayar's invoices | create, webhook, detail page, close other invoices | reports late, twice or never; stale reads over awaits; crash between Mayar and commit | PAID only for money; PAID is not lost; a customer who paid is served |
| Payment sync (`repository/tasks.py`, `core/scheduler.py`, `worker/`) | none of its own | poll UNPAID payments, commit one batch | its batch is stale when it commits; it competes with webhooks | as above |
| Vouchers (`routes/voucher.py`, `repository/voucher.py`) | tables `voucher`, `voucher_ticket` | validate and use; create, seven kinds of update | row lock held across an await; absolute writes; managers in threads | quota conserved, never negative; what was checked holds at the commit; locks released |
| Watch sessions (`routes/streaming.py`, `repository/stream_watch.py`) | table `stream_watch_session` | start, heartbeat, end, clean-up of abandoned sessions | two requests for one session on two processes; the clean-up between a read and a commit | seconds watched bounded by real time; qualified only with enough seconds; an ended session stays ended |
| Streams and Mux webhooks (`routes/streaming.py`, `repository/streaming.py`, `core/mux_service.py`) | table `stream` | webhook: active, recording, idle, asset ready | events reordered, repeated | a recording once reported is kept, whatever the order |
| Schedules (`routes/schedule.py`, `repository/schedule.py`) | tables `schedule`, `speaker_schedule`; Mux live streams | create, update, delete, recreate stream | several services changed in one request; a list replaced row by row; lock order with the deletion of a speaker | a schedule never loses its only stream; its list is one request's list; it ends after it starts (not kept, section 7) |
| Accounts and OAuth (`routes/auth.py`, `repository/user.py`, `core/security.py`, `core/oauth/`) | tables `user`, `token`, `email_verification`, `reset_password`; mails | sign up, verify, log in, log out, reset, GitHub, Google | check-then-insert without a unique column; a mail between SELECT and commit; a row rewritten under an open link | a link makes the account that was mailed, once; a password changes by mail only; one person, one user |
| Check-in and profiles (`routes/ticket.py`, `repository/checkin.py`, `routes/user_profile.py`) | one row of `user` | check in, reset, save the profile, settle | three writers of one row, one of which awaits an upload | none writes its columns over another's |
| Rate limiter (`core/rate_limiter/`) | sliding window in memory, per process | count or refuse a request, clean up | boundary of the window; what the list forgot | at most the limit in any stretch of one window; retry_after is enough |
| Organizers, volunteers (`routes/organizer.py`, `routes/volunteer.py` and their repositories) | one table each | create, move to another user, delete | check-then-insert in threads | one entry per user; what was deleted stays deleted |
| Patrons (`routes/patron.py`, `repository/patron.py`, `core/file.py`) | table `patron`, files | create, update, delete | a row and a file, which no transaction keeps together | the image that a row names can be read |
| Speakers (`routes/speaker.py`, `repository/speaker.py`) | table `speaker` | create, update, delete, list by pages | the list moves while it is read | nobody untouched is missed (newest first) or repeated (oldest first) |
| Locations (`routes/locations.py`, `seeders/initial_country_city_state.py`, `cli.py`, `validators/location.py`) | tables `country`, `state`, `city` | import, removal, lists, validation of a profile | an import in batches, interrupted or run twice, next to users and removals | complete at its end; a removal takes all or nothing; nobody's place goes |
| Analytics (`routes/streaming_analytics.py`, `routes/user_analytics.py`) | none | queries | the same figure computed by different queries | the pages do not contradict one another |
| Mail, files, logging, telemetry, health, settings, migrations, other seeders, scripts | | | input and output | not modelled (section 8) |

Components interact through the database: payments set the participant type
that streams, watch sessions and check-in require; the worker changes the rows
of payments and of watch sessions under the handlers' feet; a profile, a desk
and a settlement write one row of `user`; a recreated stream moves the watch
sessions that refer to it; an update of a schedule and the deletion of a speaker
want the same rows of `speaker_schedule`.

## 3. Modules

| Module | What it is |
|---|---|
| `TicketPayments` | purchase, settlement, worker sync, vouchers, Mayar, crashes: one composed state machine, since they share rows and row locks |
| `PaymentLedger` | the abstract specification that `TicketPayments` implements |
| `WatchSessions` | watch sessions and the clean-up of the worker |
| `StreamLifecycle` | schedules, streams, live streams at Mux, webhooks |
| `Accounts` | sign-up, login, reset, OAuth, with mails |
| `RateLimiter` | the sliding window of a process |
| `Programme` | schedules, the lists of their speakers, and speakers, with Postgres' row locks |
| `Staff` | organizers and volunteers |
| `Patrons` | patrons and their files |
| `Attendance` | the row of a user: desks, profile, settlement |
| `Paging` | the list of speakers, read by pages while it changes |
| `Figures` | the pages of the analytics as operators over the tables |
| `VoucherDesk` | the managers' writes of a voucher next to purchases |
| `Locations` | import and removal of places next to profiles |
| `Desks` | `Programme`, `Staff`, `Patrons`, `Attendance`, `Paging`, `Figures`, `VoucherDesk` and `Locations` side by side, with the properties of each |
| `MC...` | values of the constants for TLC |
| `...Proofs` | theorems about the module of that name, and their proofs |
| `SumLemmas` | what sums over finite sets are, for the proofs about `Figures` |

`DesksSpec` is the conjunction of the parts, each an `INSTANCE` (`Talks`, `Office`, `Wall`,
`Door`, `Pages`, `Figs`, `Counter`; the places are extended) with variables of its own.
In `MCDesks` a variable `desk` says which part moves. Here no part reads what
another writes, so a behaviour of all of them together is an interleaving of one
behaviour of each, and every property speaks of one part: exploring the parts one
at a time loses nothing and saves the product of their states.

### 3.1 TicketPayments

**State.** The table `payment` is one function per column (`status`, `owner`,
`coupon` for `voucher_id`, `paidAt` and `closedAt` as booleans), with status
"absent" for a key that is not used. The table `voucher` is `quota`, `active` and
`locked`, the holder of the row lock. `ptype` is `user.participant_type`.
`gateway` is what Mayar itself records of every invoice and `hooks` are the
webhook calls it may still make; a call stays in the set when it is delivered
(it may be repeated) and may leave it at any time (it may be lost). `api` has the
locals of the handler in progress in each slot; a slot is one of the places for
a request in a process. `worker` has the locals of the sync job. The commented
list at `OnLoop` says what each `pc` stands for.

**Steps.** One action is what a handler does between two points where others can
interleave: an await, or the wait for the voucher row. A handler that has one
database statement after the other in the same process is cut where the
statements see or change something that others change as well:

| Action | Code |
|---|---|
| `BeginCreate` | `create_payment` up to the voucher: user, PAID payment, ticket |
| `RefuseVoucher`, `GrantFree`, `SubmitToMayar` | `SELECT ... FOR UPDATE` got the row, and everything up to the rollback, the commit of a free ticket, or the await of Mayar |
| `MayarCreates`, `MayarRefuses` | the call; an answer lost after the invoice was made is the "rejected" branch of `MayarCreates` |
| `CommitCreate`, `AbortCreate` | after the await |
| `ReceiveHook` | `payment_webhook` up to the selection of other invoices (or the commit) |
| `BeginDetail`, `MayarTells`, `DetailLookupFails`, `ResumeDetail` | `get_payment_detail` up to the same point |
| `SelectOthers`, `CloseInvoice`, `Settle` | `close_unpaid_payments_with_mayar` and the one commit of webhook and detail page |
| `SyncBegins`, `SyncPolls`, `SyncPollFails`, `SyncCommits` | `async_sync_pending_payments` |
| `AdminSetsQuota`, `AdminSetsStatus`, `AdminReplaces` | voucher administration |
| `CustomerPays`, `InvoiceExpires`, `OddHook`, `HookLost` | Mayar and its customers (external) |
| `ProcessCrashes`, `WorkerCrashes` | the operating system (external) |

`LoopFree` is the rule of the event loop: a handler starts or resumes only when no
other handler of its process is between two awaits. A create that waits for a
locked voucher row stays in pc "checked", which counts as occupying the loop,
because the database call is synchronous.

**Abstractions.** A price is either zero after the voucher (`FreeWith`) or not.
Whitelist, ticket restriction, type and value of vouchers do not change during a
behaviour. A payment, its user and its voucher are read in one step: the three
SELECTs follow one another without an await. Mayar always returns an id with a
new invoice. The API does not refuse a negative quota from an administrator;
the model assumes that administrators do not write one (`AdminQuotas \subseteq
Nat`). Database errors are crashes of the process, except a failed commit after
Mayar answered, which is the "rejected" branch.

### 3.2 PaymentLedger

A payment comes into being together with the use of its voucher, in one step and
only if the voucher is usable then. Afterwards its status changes only for a
reason at the gateway: PAID for a paid invoice, CLOSED for a closed invoice or
because another invoice of the same customer is paid, UNPAID only when the
gateway may take a report back. There are no handlers, locks or awaits. The
mapping is by name, except `Reversible <- OddHooks`.

### 3.3 WatchSessions

**State.** `stream_watch_session` is the table, a row or `Absent` for each id;
`first_position`, the position a session started at, is a history field and no
column. `handler` is what each API process is in the middle of: between its
SELECT and its commit, with the row as it was loaded. `clock` counts ticks, of
which `Second` make a second, so that whole seconds are cut off as
`int(total_seconds())` does.

| Action | Code |
|---|---|
| `StartLoads`, `StartCommits` | `watch_start`: no open session is found; `create_watch_session` |
| `HeartbeatLoads`, `HeartbeatCommits` | `watch_heartbeat`: the SELECT; `update_heartbeat` |
| `EndLoads`, `EndBeats`, `EndCommits` | `watch_end`: the SELECT; the heartbeat of `end_watch_session` and its commit; the second transaction, which ends the session |
| `CleanUp` | `end_abandoned_sessions`, one UPDATE |
| `Tick`, `Crash` | time and the operating system (external) |

A commit writes the columns that differ from what was loaded (`Flushed`), over
what other processes and the worker have written since. The handler reads the
clock at some moment between its SELECT and its commit (`Now`).

**Abstractions.** All sessions are of one user and one schedule, since no query
mixes two; the refusals of a foreign or unknown session change nothing. `mode`,
`user_agent` and the timestamps that nothing reads are left out. `Overlap` says
whether a player may send a request before the last one is answered.

### 3.4 StreamLifecycle

**State.** `schedule` is absent, there, or deleted (`deleted_at` is set). The table
`stream` is a row or `Absent` for each id that Mux gives to a live stream: every
row is made with a fresh `mux_live_stream_id`. `session` has the two foreign keys
of a watch session, the only columns these handlers touch. `mux` is the state of
the live streams at Mux, `events` the webhooks it may deliver at any time, as
often as it likes, in any order, or never. `strays` is a history variable: the
live streams that a crash or a failing call to Mux left behind.

| Action | Code |
|---|---|
| `CreateCommits` | `create_schedule` up to its first commit |
| `RecreateLoads` | `recreate_stream` up to the call to Mux |
| `MuxCreates`, `MuxCreateFails` | `create_live_stream`, and its failure, before or after Mux made one |
| `InsertsStream` | `create_stream` |
| `MovesSessions`, `DropsRow` | the UPDATE of the watch sessions; `delete_stream`, refused by the foreign key when a session was inserted meanwhile |
| `DatabaseFails` | any database error on the way: the `except` branches |
| `DeletesLive` | the three calls of `delete_live_stream`, which may fail with or without effect |
| `DeleteLoads`, `DeleteCommits` | `delete_schedule` |
| `HookLoads`, `HookCommits` | `mux_webhook`: the SELECT, `update_stream` with column-wise UPDATE |
| `WatchLoads`, `WatchCommits` | `watch_start`, as far as it refers to the stream |
| `EncoderConnects`, `EncoderStops`, `Crash` | the speaker, Mux, the operating system (external) |

After `create_stream` has committed, the old `Stream` object is expired
(`expire_on_commit`): reading its id loads it again, which fails when a second
request has deleted the row; `MovesSessions` has both outcomes. A schedule with
two rows raises in every lookup (`AtMostOne`), because `joinedload` of a
`uselist=False` relationship returns one row for each stream.

**Abstractions.** A database failure has no effect on the tables; a commit whose
answer is lost is covered by `Crash` after the commit, and for the last insert
by the "undoing" branch of `InsertsStream`. Timestamps, keys and playback ids
are left out; `recorded` stands for the asset and its playback id, which are set
together.

### 3.5 Accounts

**State.** The tables `user`, `email_verification`, `reset_password` and `token`;
`letters`, the mails that were sent, and `opened`, how often a link did its work, are
histories. `request` has the locals of each handler. Random codes are never given out
twice and also serve as row ids.

| Action | Code |
|---|---|
| `SignUpLoads`, `MailSent`, `MailFails`, `SignUpCommits` | `email_signup`: the SELECTs, the awaited mail, the INSERT or the column-wise UPDATE and the one commit |
| `ForgotLoads`, `MailSent`, `MailFails`, `ForgotCommits` | `forgot_password`, likewise |
| `VerifyLoads`, `VerifyCommits` | `email_verified`: the row of the link, `create_user` and the DELETE in one commit |
| `ResetLoads`, `ResetCommits` | `reset_password` |
| `DropCommits` | both, with a link that has expired |
| `FormToken`, `EmailSignin`, `Grants` | login and `generate_token_from_user` |
| `Logout`, `Refuse` | `invalidate_token`, which deletes every expired token and every token with the same string |
| `GithubVerified`, `GoogleVerified`, `ProviderCommits` | `_find_or_create_user` and `_update_user_provider_info` |

`LoopFree` is again the event loop: between a SELECT and a commit without an await
no other handler of that process runs. A mail that the server accepted may still
be reported as failed. The hash of a password and the signature of a token are
model values; refresh tokens are written with tokens and read by nothing.

### 3.6 RateLimiter

A list of timestamps is the set of its requests, each with a number of its own.
`Dispatch` is `RateLimitMiddleware.dispatch` with `build_key` and `is_allowed`,
which hold a lock and await nothing inside it; `CleanUp` is `cleanup_expired` and
`Restart` a process that begins with an empty memory. `accepted` and `promised` are
histories: all that was let through, and when a refused caller was told to return.

### 3.7 Programme

Statements that may wait for another transaction are steps of their own
(`UpdateLocks`, `UpdateClears`, `RemoveClears`, `RemoveCommits`); row locks are derived from
the locals of the requests (`LockFree`, `RowFree`). `UpdateLoads`, ..., `UpdateCommits` are
`update_schedule` with `_sync_speakers`: the flush of the schedule's row, the DELETE of
the list row by row, the INSERTs. `RemoveLoads`, ..., `RemoveCommits` are `delete_speaker`
with its cascade, which deletes the rows it has loaded one by one, in any order (the ORM
sorts them: the model allows more interleavings).
`Rollback` is any database error.

Requests can bring each other to a standstill: two removals of one speaker who has two
talks, when each has deleted the row that the other deletes next, or an update of a
list and removals of its speakers. `Ahead(r)` is whoever `r` waits for, over others too,
`Stuck(r)` that all of them wait; `Detected` is what Postgres does about it: it ends one.
The lock that an INSERT takes on the row of its speaker is left out: where an INSERT and
a removal wait for each other through it, the outcomes, one of them fails or both go on
in some order, are among those of the model.

### 3.8 Staff, Patrons, Attendance

`Staff` is `create_`, `update_` and `delete_` of organizers and of volunteers, as a load
and a commit each (`CreateOrganizer` ... `DeleteVolunteer`); `kind` chooses the table.
`Patrons` cuts create and update at the awaited upload (`CreateUploads`,
`CreateCommits`, `UpdateLoads`, `UpdateUploads`, `UpdateCommits`) and delete at its commit
and the removal of the file (`DeleteLoads`, `DeleteCommits`, `Unlinks`).
`Attendance` has the row of one user as it is loaded (`CheckInLoads`, `ResetLoads`,
`FormLoads`) and written column by column (`Commits`, `Flushed`), with the settlement
of the payment (`Settles`) in between.

### 3.9 Paging, Figures, VoucherDesk, Locations

`Paging`: `CountsRows` and `ReadsPage` are the two SELECTs of
`get_speaker_per_page_by_search`, the count and the rows at its OFFSET; the list is
ordered by `updated_at`. `Writes` is where `create_speaker` and `update_speaker` take
the time, `Commits` where the row with that time becomes visible, `Deletes` the removal:
on other processes these come between the two SELECTs, and a row may be committed
long after its time was taken. `Figures`: `SummaryPage`, `StreamsPage`, `DetailPage` and the three regional
pages are the queries; the actions write the tables they read. `VoucherDesk`: `Creates`
and the six updates are a load and a commit in a thread; `BuyerLocks`, `BuyerCommits`,
`BuyerFails` are what a purchase does to the row. `Locations`: `ImportBegins`, `Merges`,
`CommitsBatch` are `initial_country_city_state.py` batch by batch with the foreign keys and
the waiting for locks; `ClearBegins`, `Deletes` the removal; `SaveLoads`, `SaveCommits` a
profile. A batch is any set of the rows that are due, where the script takes them in the
order of its files: the model stops an import at more points.

## 4. Runs

| Run | Instance | Shows |
|---|---|---|
| `vouchers` | 2 users, 3 keys, 1 voucher with quota 1, 2 processes | `TypeOK`, `QuotaConserved`, `LockIsHeldByCreate` |
| `administered` | 1 user, 2 keys, a free and a paid ticket, quotas 0 and 2 written by an administrator, reports without success, no worker | `QuotaNeverNegative`, `PaidRowSetsType`, `RedemptionIsAtomic`, `PaidIsFinal` |
| `settle` | 1 user, 2 invoices, both may be paid, 2 processes, worker | `PaidMeansMoney`, `ImplementsLedger`, `PaidCustomerIsServed` |
| `watch` | 1 player that waits for answers, 2 sessions, 2 processes, half seconds to 7 | `OneActiveSession`, `CreditIsEarned`, `QualifiedMeansWatched`, `NothingIsTakenBack`, `EndedStaysEnded`, `EverySessionEnds` |
| `streams` | 1 schedule, 3 live streams, 1 session, 2 processes, an encoder, 1 stray | `NoStreamIsForgotten`, `StreamIsReplaced`, `RecordingIsKept` |
| `accounts` | 2 users, 1 address, 3 provider accounts, 2 codes, 2 requests, on one process and on two | `CodesAreMailed`, `LinksWorkOnce`, `OnePersonOneUser`, `AccountMatchesItsLink`, `PasswordChangesByMail` |
| `limiter` | limit 2, window 3, clock to 7, 5 requests, 2 addresses | `WindowHoldsLimit`, `UserHoldsLimit`, `ComingAgainIsEnough` |
| `desks` | the eight parts, each with two overlapping requests; the programme once with one talk and two speakers, and once with two talks of one speaker | `TypesOK`, `ListIsOneRequests`, `OneEntryPerUser`, `ImageExists`, `UserRowIsWhole`, `ListIsRead`, `FiguresAgree`, `VoucherIsKept`, `ImportIsComplete`, `PlacesStand`, `EveryRequestEnds`, `DeletedForGood`, `ClearIsWhole` |
| `bug_type`, `bug_hang`, `bug_twostreams`, `bug_times` | | section 7 |

`PaidIsFinal` is checked where Mayar also reports payments without success. The worker
is not in that run but in `settle`, where Mayar takes nothing back, and there
`ImplementsLedger` says the same: `Record` takes a PAID payment to CLOSED only when
another invoice of the customer is paid. `PaidStaysPaid` has all of them together.

Some properties are conjunctions of named parts, which the modules state one by
one: `OnePersonOneUser`, `UserRowIsWhole`, `ListIsRead`, `FiguresAgree`, `VoucherIsKept`, `PlacesStand`.

**Bounds.** Payments: three keys let two customers compete and one of them try
again; two invoices are what closing, double payment and stale victims need; two
processes with one slot each give every pair of handlers. A quota of 1 makes the
second use the illegal one. Keys are never reused, so behaviours end when they are
used up, except for webhooks, detail pages and administration. `KeysLeft` refuses a
request that no key would be left for; it is a bound of the model, not of the code.

Watch sessions: `LastRequest` is when players stop sending and `MaxTime` where the
clock stops. Between a start and an end there is time for a clean-up
(`Timeout` = 2), the clock goes on for longer than `Timeout` after the last request, so
the clean-up can reach every session, and a cap of one second makes every `min` of
`update_heartbeat` decide somewhere. There are as many sessions as starts.

Streams: three live streams are the first, its replacement, and the one a second,
overlapping request makes. `OnAir` bounds the encoder's connections (one makes all
four events), `MaxStrays` the live streams that failures leave.

Accounts: two codes let a second sign-up or reset rewrite a row while the first is
under way, and a link be opened after that; two users are what the promise of one
user needs to fail; with `CodeLife` 0 and one tick every link expires and with
`TokenLife` 1 every token does. The provider accounts are one person's at Google
and at GitHub, and one whose address GitHub does not tell.

Limiter: seven ticks hold two windows and a boundary between them on every side;
five requests are more than twice the limit. `Maintained` lets `cleanup_expired` run
at any time, although only tests call it.

Desks: one schedule with two speakers (a list, its reverse, and parts of it), and
two schedules of one speaker (`removals`), which two requests can delete the rows of in
opposite orders: the least that makes a standstill; two
entries and two users; three files for two patrons (create, and two updates); three
speakers in pages of two, any of them there or under way when the reading begins,
with two writes or deletions after that; two sessions, payments, schedules and
users; three forms that differ in every column, two sales and two saves; six places
in batches of two, an import and removals up to three, one profile.

`CHECK_DEADLOCK FALSE` stands where the model stops and the program would not: a
clock, ids, codes, keys or files are used up. Permutations of users, payments,
sessions, live streams, codes, passwords, requests and processes are symmetric (no code compares
them); runs with liveness use no symmetry.

**Fairness.** `FairHandlers` (in `bug_hang`) has strong fairness for the steps of
each handler in progress: the event loop runs ready coroutines in order, Postgres
serves waiters for a row in order, and each call to Mayar ends by its timeout of
30 seconds (`core/mayar_service.py:90,130,175`). No request need arrive. The
counterexample blocks the loop for good under this assumption.
`FairSync` has weak fairness for the worker's job only (an APScheduler interval
job, `core/scheduler.py:68-77`), nothing for the API and Mayar's webhooks;
`PaidCustomerIsServed` assumes that outages of the worker and of Mayar's status
call end (`OutagesEnd`), since a batch that is interrupted is lost. It excludes a
customer who paid for two invoices: then each of two handlers may close the
payment of the other. In `WatchSessions`, `Fairness` has weak fairness for the clock,
for the clean-up (the other interval job, `core/scheduler.py:60-67`) and for handlers
that have loaded their row; a handler may also die. In `Programme` (and `MCDesks`)
statements that wait for a lock are strongly fair, because Postgres hands a lock to
those that wait in the order they came; the others, which never wait, weakly. Also
weakly fair is `Detected`: whoever waits for long looks for a deadlock, and one of those
in it fails (`deadlock_timeout`). Without it `EveryRequestEnds` is false.
The other modules have no fairness: they promise nothing in time.

**What does not hold.** The assumptions in the properties are there because the
statement fails without them. No doc, comment or test of the repository contradicts
these outcomes, so they are no findings. Four hazards of `PROJECT.json` are of this kind
and have no property: the overlapping starts (`routes/streaming.py:316`), heartbeats
(`repository/stream_watch.py:99`), openings of one link (`routes/auth.py:201`) and
creates of an organizer (`routes/organizer.py:234`). What the runs say of these
handlers, they say of requests that do not overlap.

* Watch sessions, with `Overlap`: a player that resends a heartbeat before the first
  is answered, on two processes, can break `OneActiveSession`, `CreditIsEarned`,
  `QualifiedMeansWatched` and `NothingIsTakenBack`.
* Streams: a row may end naming a live stream that the `except` branch has deleted,
  when the commit of `create_stream` succeeded and the next statement failed; a
  stream may be replaced while it goes on air; a deletion of a schedule next to a
  recreation of its stream leaves a live stream; a late webhook may set any status.
* Payments: a user can get two PAID payments, because the refusal of a second
  purchase is made when it begins; a payment that is PAID can be overwritten with
  CLOSED when the customer paid another one too.
* Accounts, on several processes: a link opened twice at once makes two users; two
  rows of `reset_password` may exist for one user; two sign-ups at once may leave the
  username of one with the password of the other (each with its link). A process
  that dies after the mail leaves a link that opens nothing. Two logins of one user
  in one second get the same token string, and the logout of one ends both.
* Limiter: nothing is promised when the clock steps back (`time.time()`) or across
  processes. The header Retry-After is a whole number rounded down, so a client
  that goes by the header may be early. `get_remaining` counts stale stamps too, and
  nobody calls `cleanup_expired`, although its docstring says "periodically".
* Staff: two threads, or two processes for volunteers, may give a user two entries.
  `get_organizer_by_type` (`repository/organizer.py:150-156`) compares with the
  column of the class itself and so returns every organizer.
* Patrons: a failed request and an image that is replaced leave files that no row
  names.
* Check-in: a check-in and a reset at once on two processes may mix; so may two
  saves of one profile (country of one, state of the other).
* Paging: newest first may repeat somebody, oldest first may miss somebody after a
  deletion, and a list without ORDER BY promises nothing. A row that is committed
  with a time from before the reading (`late`) pushes others back or forth as a new
  one does not; a last page whose count is older than a commit (`stale`) may be one
  too few.
* Vouchers: overlapping PUTs merge their columns and their lists of tickets; a PUT
  writes the quota only if it differs from the one it loaded, and then absolutely;
  the list of tickets may shrink under a purchase that was allowed by it; a negative
  quota is accepted.
* Figures: a schedule with two streams is listed twice.
* Locations: an import next to a removal may end incomplete.

## 5. Theorems

All are proved for any sets of constants (there may be any number of processes and
requests, and the sets may be infinite but for those that are counted: payments in
`QuotaIsConserved`, the list of speakers, the users, sessions, schedules and places of the
figures) from the one named assumption
of their module. The parts of `Desks` have their assumption as an operator
(`ProgrammeAssumption`, `StaffAssumption`, `PatronsAssumption`, `PagingAssumption`,
`FiguresAssumption`, `VoucherDeskAssumption`, `LocationsAssumption`; `Attendance` needs none);
the theorems name it, and `DesksAssumption` assumes them all, so that TLC evaluates
them. A theorem names a further hypothesis where the statement is false without it,
and the run that checks the property is an instance that satisfies it.

### TicketPaymentsProofs

| Theorem | Property | Assumes |
|---|---|---|
| `Invariance` | `IInv`, the inductive invariant | |
| `TypeCorrect` | `TypeOK` | |
| `PaidIsBacked` | `PaidMeansMoney` | |
| `QuotaBounded` | `QuotaNeverNegative` | |
| `LocksAreReleased` | `LockIsHeldByCreate` | |
| `RedemptionAtomic` | `RedemptionIsAtomic` | |
| `HandlersStayInformed` | `JInv`, the second invariant | |
| `LedgerImplemented` | `ImplementsLedger` | |
| `PaidStaysPaid` | `PaidIsFinal` | |
| `QuotaIsConserved` | `QuotaConserved` | finitely many payments, `AdminQuotas = {}` |
| `PaidUsersHaveTheirType` | `PaidRowSetsType` | `~SyncJob` |

None of these is inductive by itself: that a webhook handler may write PAID
depends on what it learnt before its await. `IInv` adds, for every handler in
progress, how its locals relate to the committed rows (`Fits`), that no two
handlers insert the same key (`KeysApart`), who owns a row lock (`LocksOwned`), and
the same for tables, webhooks in flight and worker (`TablesFit`). The proof has one
lemma per group of actions; `Keeps` says what a step must leave alone for another
handler's locals to keep fitting, and `FitsStable` and `StepInv` reduce each step
to its own handler, the tables, and `Keeps` for all others.

The refinement needs more: that what a handler learnt of a payment, of its user and
of the invoice at Mayar still holds after its awaits (`Informed`). The argument is
that a row keeps its owner and its voucher and an invoice that Mayar closed stays
closed (`Preserved`, a step at a time); so `JInv` is inductive next to `IInv`. Then every
step is one of the ledger's: the commit of a purchase is `Issue`, the commits of a
settlement and of the worker are `Record` with a reason for each status they change,
the rest is a stutter (`StepOfLedger`, by group of actions). `PaidStaysPaid` and
`QuotaIsConserved` are read off the ledger: of its steps only `Record` changes the status
of a payment that is PAID, and only `Issue` touches a quota, together with one
payment. `PaidUsersHaveTheirType` has `TypesFollow`: a user with a type has it of a payment
that was PAID, and the row and the type are written by one commit.

That only `TakesBack` writes UNPAID over PAID needs no ledger: the rows a purchase inserts
were absent, the worker writes PAID and CLOSED, and of the handlers only the commit of a
report without success has UNPAID for a row that it knows as something else
(`UnpaidIsTakenBack`).

Without the hypotheses the statements are false: an administrator may write any
quota, and the worker marks PAID without the type (finding 1). A report without success
does take PAID back (`routes/payment.py:667-669`); `PaidIsFinal` says when.

### WatchSessionsProofs

| Theorem | Property | Assumes |
|---|---|---|
| `TypeCorrect` | `TypeOK` | |
| `NeverReopened` | `EndedStaysEnded` | |
| `Invariance` | `IInv` | `~Overlap` |
| `CreditEarned`, `QualifiedWatched`, `OneActive`, `KeptForGood` | `CreditIsEarned`, `QualifiedMeansWatched`, `OneActiveSession`, `NothingIsTakenBack` | `~Overlap` |

That an ended session stays ended needs types only: a loaded row is open, so no
flush of it finds `ended_at` changed to open. The other four need to know that
what a handler has loaded is still what the table has, but for the `ended_at` the
clean-up may have written (`Loadeds`); that holds because the player has no second
request under way (`Alone`). `Starts` says that a start under way found no open
session and none has come since, `Rows` that every row is sound, `Times` that
nobody is ahead of the clock, `Unique` that an open session is the only one.

### StreamLifecycleProofs

| Theorem | Property |
|---|---|
| `Invariance` | `IInv` |
| `TypeCorrect` | `TypeOK` |
| `StreamReplaced` | `StreamIsReplaced` |
| `NoneForgotten` | `NoStreamIsForgotten` |
| `RecordingKept` | `RecordingIsKept` |
| `OneStream` | `OneStreamAtRest`, where it holds |

`IInv` is `Sound`, the types and what the locals of a handler mean at each `pc`, and
`Ordered`: Mux gives out an id once (`IdsGivenOut`); no two handlers made the same
live stream and none replaces one that another is still making (`NewApart`); the
stream a handler replaces belongs to its schedule, and besides it and the one
the handler made there is always a stream (`OldStands`). The heart of the proof is
`RecreateLoadsOrdered`: a lookup that returns one stream never returns one that a
handler has inserted and not finished with, because then there are two and the
lookup raises; and `DropsRowOrdered`: when two requests replace the same stream,
the row of the first stands when the row they replace goes. Most actions are
`Quiet`: they change nothing `Ordered` speaks of, by `QuietStep`.

`OneStreamAtRest` is false (finding 3), and `OneStream` says how far: with one process it
holds of every behaviour in which the process does not die, and the database does
not fail, between the commit of the new row and that of the deletion of the old one
(`Undisturbed`). Crashes and errors anywhere else, failing calls to Mux, webhooks and
viewers do no harm. The invariant, `RestInv`, says which streams a schedule has at each
`pc` (`RowsFit`): two only between those commits, and no watch session at the old one once
they were moved, so that it can be deleted.

### RateLimiterProofs

| Theorem | Property |
|---|---|
| `Invariance` | `IInv` |
| `WindowBounded` | `WindowHoldsLimit` |
| `RetryEnough` | `ComingAgainIsEnough` |
| `UserBounded` | `UserHoldsLimit` |

The list of a key forgets requests as they leave the window, so the argument is
about `accepted`: requests of the last window are still in the list (`Kept`), a new one
is therefore counted with all of them, and older stretches do not change. `Promise`
says that by the time a refused caller was told, one of the requests that filled
the window has left it. `UserBounded` uses that all requests with a user's token have
one key when fingerprints are off.

### DesksProofs

| Theorem | Of | Property | Argument |
|---|---|---|---|
| `ListIsOfOneRequest` | `Programme` | `ListIsOneRequests` | `TalksInv` |
| `RemovalsInTheWay` | `Programme` | `RemovalsAreInTheWay` | `TalksInv` |
| `EndsAfterStart` | `Programme` | `EndAfterStart`, with one process | `TimesInv` |
| `StaffIsSingle`, `DeletedStays` | `Staff` | `OneEntryPerUser`, `DeletedForGood` | `OfficeInv` |
| `ImagesExist` | `Patrons` | `ImageExists` | `WallInv` |
| `RowIsWhole` | `Attendance` | `UserRowIsWhole` | `DoorInv` |
| `PagesShowTheList` | `Paging` | `ListIsRead` | `PagesInv` |
| `FiguresAddUp` | `Figures` | `FiguresAgree` | `FigsInv` |
| `VoucherKept` | `VoucherDesk` | `VoucherIsKept` | `CounterInv` |
| `TypesCorrect` | all, with `LocationsProofs` | `TypesOK` | the invariants of all parts |

Each part has a section with its inductive invariant. A theorem about a part
needs the specification of that part only, which `DesksSpec` implies.

* *Talks.* One request holds the row of a talk (`OneHolder`) from before it deletes
  the list until it has inserted its own; a talk that is being created is nobody
  else's (`Apart`). So nothing appears between the DELETE and the INSERTs, and what the
  request deleted is still all there is (`Covers`); without it the invariant is not
  inductive, because the INSERTs would leave rows of another request. `RemovalsInTheWay`:
  where requests wait for each other and none can go on, one of them deletes a
  speaker. A request that waits for the row of a talk waits for an update, and one that
  waits for a row of its list for a removal, because whoever deletes that row and is an
  update holds the same talk (`OwnRows`, `OneHolder`). `EndsAfterStart`: where requests do not
  overlap, what an update has loaded is still there when it writes the columns that
  differ, so that the row is the slot of its request, which was checked.
* *Staff.* While no two requests overlapped one at most is in progress (`Alone`), so
  what it found is still so (`StillSo`). That nothing comes back needs no such condition:
  a new id is at nobody's place (`Fresh`) and the UPDATE of a row that is gone raises.
* *Patrons.* A file belongs to one row or to one request that has yet to commit
  (`Written`, `OneOwner`), and is removed only after the row it was read from is gone
  (`GoneFirst`), which no late update brings back (`NewId`, `WasThere`).
* *Check-in.* A handler changes its own columns only (`OwnColumns`), hence no other is in
  its UPDATE; with one process a desk knows the columns it compares (`DeskKnows`), and while no
  two forms overlapped a form knows the place it was saved with (`FormKnows`).
* *Paging.* A write takes a new time and so moves its speaker to one end. A speaker
  whom nobody touched has no fewer speakers before him when the newest come first,
  and is at or after the next page until he is shown (`HiddenIsToCome`); when the oldest come
  first he has no more, and is before the next page once he was shown (`ShownIsPast`).
  `PagesEnough`: the pages that are counted have room for all rows.
* *Figures.* The watchers of both modes are the union of those of each: at least
  either, at most their sum (`FigsWatchers`). The totals of a page are sums over its lines,
  and those of one page are those of another cut differently: by schedule, by city, by
  state, by country (`PartsAddUp`, with `PlacesNest`, that a city's state and country are the
  ones its profile has: not part of the types, and what makes `FigsInv` more than them);
  minutes are rounded down line by line (`RoundingAddsUp`); who paid is counted once
  however many payments he has.
* *Vouchers.* What a request has loaded may be old, so `CounterInv` says which of it may be:
  the columns the request was not asked to change equal those it loaded, hence are
  not in its UPDATE (`Shape`); as long as no two requests overlapped, the row differs from
  what was loaded in the quota alone (`Current`). The quota changes only by a write that
  says so or by a purchase that holds the row (`Holds`).

### SumLemmas

Lemmas that `FiguresAddUp` rests on; they say nothing of the program by themselves. The
figures are sums, `SumFunction` of the community modules, a fold whose recursive
function `CHOOSE` picks. The induction theorems of the library take an operator as a
parameter, which the provers cannot instantiate, so the induction is over sets: of the
finite sets for which a sum is not the number of its cells (the pairs of an element
and a number below its value) there would be a least one by inclusion (`WFMin` with
`StrictSubsetOrdering`), and taking one element out of it gives the contradiction
(`SumIsCells`). Everything else is counting: the sizes of sets that overlap or do not
(`SizesAddUp`), the sums over the parts of a set (`PartsAddUp`), and sums of numbers that
are rounded down one by one (`RoundingAddsUp`).

### LocationsProofs

| Theorem | Property |
|---|---|
| `Invariance` | `IInv` |
| `Complete` | `ImportIsComplete` |
| `Whole` | `ClearIsWhole` |
| `Stands` | `PlacesStand` |
| `TypeCorrect` | `TypeOK` |

A row never comes before its parents nor stays without them (`Closed`). That is why
a removal that reaches its commit has left nothing (`LemmaNothingLeft`): what came
behind its back has a country, and the statement that deletes a country refuses one
that is referred to. `Unwanted`: what a removal has deleted so far is nobody's place.
`Progress`: an import that no removal disturbed has behind it only rows that are
there, or that its next commit inserts.

### AccountsProofs

| Theorem | Property |
|---|---|
| `Invariance` | `IInv` |
| `TypeCorrect` | `TypeOK` |
| `CodesMailed` | `CodesAreMailed` |
| `AccountMatches` | `AccountMatchesItsLink` |
| `PasswordByMail` | `PasswordChangesByMail` |
| `LinksOnce` | `LinksWorkOnce` |
| `OnePerson` | `OnePersonOneUser` |

A sign-up or a forgotten password finds its row, awaits the mail and then writes the
row it found. `IInv` says why that is sound on any number of processes: a code belongs
to one handler until it is committed, and none rewrites a row that another is about to
insert (`Apart`); the row that was found may be gone or rewritten by then but is still
about the same address or user, because its id was given out once (`Fits`). The last
two theorems hold where one process serves all requests, and have an invariant of
their own, `OneProcess`: no two handlers are between a SELECT and a commit without an
await (`Calm`), so what one of them loaded is what the tables hold (`Loaded`); a code
has one holder, which did not work yet (`Once`); and no new user is somebody that is
there (`People`).

### Model-checked only

* Liveness under fairness: `PaidCustomerIsServed`, `EverySessionEnds`, `EveryRequestEnds`.

Every other property of a passing run is the statement of a theorem. Those of the
runs of section 7 are false; `OneStream` and `EndsAfterStart` say where two of them hold.

## 6. Mutants

Every property of a passing run is also checked against a plausible bug: the
definitions commented "Mutant" in the modules, one beside each definition that
they replace, such as a `SELECT` without `FOR UPDATE`, a commit that does not wait for
the mail, a file that is removed before its row. TLC must then find the property
violated.

## 7. Disagreements between the code and what it says

1. `bug_type`: the worker records PAID without the participant type, so the
   customer who paid is refused by streams and check-in.
2. `bug_hang`: two purchases with one voucher in one process block its event loop
   for good.
3. `bug_twostreams`: a crash, a failure or an overlap in `recreate_stream` leaves
   a schedule with two streams, and every later request for it fails.
4. `bug_times`: of two valid updates of a schedule on two processes, one moves the
   start and one the end; both are committed, and the row ends before it starts.

## 8. Not modelled

* **The job store of the scheduler** (`core/scheduler.py:31-98`). Two workers that
  overlap while a new version is rolled out may both run a job that is due, and
  `replace_existing` resets the next run; the jobs themselves are modelled so that
  they may overlap with everything but themselves.
* **Connections.** `models/__init__.py:21` bounds the pool; a request holds a
  connection across its calls to Mayar, and the one that finds none blocks the event
  loop inside the pool. The model bounds requests, not connections.
* **Migrations, the other seeders, scripts**: run by an operator while the program
  is not serving, each in one transaction.
* **Mail, files, logging, telemetry, health, settings**: input and output without
  state that the program reads back. The order of a mail and a commit is in
  `Accounts`, of a file and its row in `Patrons`.
* **The stream of live figures** (`routes/streaming_analytics.py`,
  `repository/stream_watch.py:324-357`): snapshots of the same tables in a loop.
* **Read-only endpoints**, but for those whose answers a property is about (lists of
  speakers and of places, figures), the texts of a profile, prices, signatures and
  the exchange of codes with GitHub and Google.
