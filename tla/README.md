# A verification development for the zed-uploader bot

TLA+ models of this repository's core: money, paid time, delivered files, the
worker's queues, customers' bots and the desks around them; the TLC
configurations that check them on small instances, and TLAPS proofs for every
instance. Paths below are relative to `src/` of the repository's tree; `app/` is
left out where it is clear.

How to run it, in this directory:

    tlasany M.tla                        parse
    tlc -workers 2 -config X.cfg MC.tla  check one run (PROJECT.json lists them)
    tlapm M.tla                          check the proofs of M: WalletProofs,
                                         PaymentsProofs, SubscriptionsProofs,
                                         DeliveryProofs, CheckoutProofs,
                                         WorkerProofs, TenantProofs,
                                         OfficeProofs

## 1. The system

One Python code base, several processes around one PostgreSQL database and one
Redis: the bot (aiogram, polling or webhook), the panel (FastAPI, HTML forms),
the API (admin REST, gateway return URLs, Telegram webhooks) and one worker
that loops over background jobs. They never call each other: they share tables,
Redis keys and Telegram. One *session* (an SQLAlchemy `AsyncSession`) serves
one bot update, one HTTP request or one sweep of the worker; a session is where
all interleavings of this code happen, because PostgreSQL runs at READ
COMMITTED and a session reads some rows before it locks them.

Two facts about sessions (`app/db/session.py:27`) run through everything:

* `expire_on_commit=False`: an instance stays in the identity map, with the
  values it was loaded with, until a rollback or the end of the session;
* `SELECT ... FOR UPDATE` without `populate_existing` does not refresh an
  instance that is in the identity map already. So code that loads a row, and
  later locks it, tests and computes with the older copy. And an UPDATE writes
  only the columns whose in-memory value changed.

### Components

For each: the state it keeps; its operations; who calls it; what makes it hard;
what makes it correct.

**Wallet** (`services/wallet_service.py`). State: `users.balance`, the
`wallet_transactions` ledger, the row lock on the user. Operations: credit,
debit, debit_nocommit. Called by payments, refunds, purchases, the paywall,
tenant rental, the panel. Hard: concurrent sessions, sessions that loaded the
user first, crashes before the commit. Correct: the ledger explains the balance,
the balance is never negative, a debit that cannot be paid changes nothing.

**Payments** (`services/payment_service.py`, `gateway_service.py`,
`providers/`, `api/routes/pay.py`, `panel/routes/payments.py`,
`bot/handlers/billing*.py`). State: `payments.status`, its row lock, the
gateway's own state. Operations: create, approve, reject, start, verify. Hard:
eleven entry points, seven of which read the payment before the service locks it,
double returns, a gateway that is silent. Correct: a payment is credited at
most once, and only if it was paid in full.

**Refunds** (`services/refund_service.py`) and **reconciliation**
(`services/reconcile_service.py`): reverse an approved payment; verify and expire
pending ones. Hard: a refund between two approvals, a wallet that was spent.

**Subscriptions** (`services/subscription_service.py`, the sweep in
`workers/main.py`, `user_subscription` in `panel/routes/users.py`). State:
`users.plan`, `users.plan_expires_at`, `subscriptions`, a Redis key per
(user, plan). Hard: three writers of one row, a lock that expires by time,
write-back of changed columns only. Correct: paid time is neither lost nor
granted twice; an expired plan goes away; no lock stays for ever.

**Invoices** (`services/invoice_service.py`). State: `invoices`. Operation:
record, after the commit of the money, best effort. Hard: numbers drawn from a
maximum, two unique constraints. Correct: one receipt per source, dense numbers.

**Checkout** (`gateway_service.verify_and_apply` for orders `plan:<key>`,
`stars_service.py`, `bot/handlers/stars.py`). State: the same rows of payments,
users and subscriptions. A deposit commits, then a purchase runs in a second
transaction. Hard: the second half may fail, be a duplicate or never run;
Telegram repeats `successful_payment`; the refund revokes the plan and locks
rows in the opposite order to the sweep. Correct: a charge is deposited once,
every deposit ends as wallet money or as a purchase, a refund sticks.

**Downloads** (`media_service.py`, `bot/delivery.py`). State: the media row with
its counter and limit. Operations: the gates, the atomic claim, the send, the
release, the log. **Paywall** (`paywall_service.py`). State: unlock rows, a Redis
key per tap, a daily quota in Redis. Hard: gates read a copy, the quota is read
before and counted after, a release may come after a reset. Correct: no more
deliveries than the limit, no file paid twice.

**Broadcasts** (`broadcast.py`, worker). State: jobs and recipients. Pages with
a checkpoint per recipient, retries from the panel. Correct: every recipient is
dealt with, and not twice unless the worker died. **Albums** (`album_buffer.py`)
and **auto-delete** (`autodelete.py`): lists and sorted sets in Redis, filled by
the bot and drained by the worker, which may die between any two commands.

**Tenants** (`bot_creation_service.py`, `bot/registry.py`, `bot/tenant_bots.py`,
`panel/routes/superadmin.py`, the tenant sweep). State: tenants, the registry in
the API's memory, Telegram's webhooks. Hard: two processes, four actors, one of
them without the other's memory. Correct: a bot is charged once and set up, a
suspended bot is not served.

**Backups** (`backup_service.py`): rows, files, one worker, retention; a restore
turns the table itself back. **Licensing** (`license_service.py`) and the
**activation server** (`activation_server/store.py`): a daily check, answers that
come late, a grace window, seats counted before they are inserted.

**Media library** (`media_service.py`, `bot/handlers/upload.py`, `batch.py`,
`review.py`, `preview_service.py`): uploads against a plan's quota, the review
queue, previews posted once. **Forms** (`bot/states.py` and the handlers that use
it): a state and its data in Redis, served by several updates of one user.
**Support** (`support_service.py`): tickets whose status two sides write.
**Reactions, comments, reports** (`reaction_service.py`, `comment_service.py`,
`report_service.py`): counters beside rows. **Panel authentication**
(`panel/routes/auth.py`, `panel/session.py`): sessions in Redis stamped with the
epoch of a row. **Advertisements** (`ad_service.py`): limits counted after the
send. **Texts and command lists** (`text_service.py`, `bot_command_service.py`):
a cache in front of rows, lists pushed to Telegram. **Log group**
(`tenant_logger.py`): topics created on first use. **Gateways**
(`providers/`): which account an order is opened at and verified with.

The parts that are not modelled are in section 5, with the reasons.

## 2. What is modelled

    Accounts        what a wallet promises: atomic postings
       ^ refines
    Wallet          balance, ledger, row lock, identity maps     <- WalletProofs
       ^ EXTENDS
       +-- Payments        cards, gateways, refunds              <- PaymentsProofs
       +-- Subscriptions   purchase, sweep, panel                <- SubscriptionsProofs
       +-- Paywall         unlocking a file from the wallet
              ^ EXTENDS
           Delivery        gates, claim, send, release, quota    <- DeliveryProofs

    Checkout        deposit, purchase and refund of plan orders  <- CheckoutProofs
    Broadcast  AutoDelete  Albums         the worker's queues    <- WorkerProofs
    Gateways  TenantBots  Invoices  Uploads  BotMenu  Ads  TenantLog
                                          a tenant's parts       <- TenantProofs
    PanelAuth  Support  Community  License  Backups  Forms
                                          the installation's     <- OfficeProofs

`MCWallet`, `MCPayments`, `MCSubscriptions` and `MCCheckout` hold the values of the
constants of the runs. `MCDelivery`, `MCWorker` and `MCOffice` put several parts
side by side as *scenes*: a variable that never changes says which part moves, the
others stay in their initial state. The parts of one such module write nothing
that another of them reads, so their interleaved product has no behaviour a
scene does not have, and one run checks them all. Parts that do share state are
composed for real: Payments, Subscriptions, Paywall and Delivery with the Wallet;
deposits, purchases, refunds and the sweep in Checkout; creation, platform,
sweep, registry and webhooks in TenantBots; worker, panel and schedule in Backups.

A convention for all modules: an action is what runs between two awaits whose
interleaving can be seen (a commit, a lock that may wait, a call to Redis, Telegram
or a gateway). A handler that was begun is a record in a variable (`op`, `job`,
`coTask`, `upTask`, ...) with the stage it reached and the values it has read;
tests on values read earlier use the record, not the table. Variables marked
*history* in a module are read by properties alone, except that some of them
(`...Made`, `...Started`, `...Trouble`) are the spent bounds and appear in the guards
of arrivals and faults.

### Wallet

`balance` and `ledger` are the committed tables, `userLock` the row locks,
`cached[s][u]` the balance in session s's identity map (or `NotLoaded`), `op[s]`
the write that is flushed and not committed. `LoadUser` is any select of the
user; `ApplyNoCommit` is `_apply` up to its flush: wait for the lock, take the
new balance from `SeenBalance` (the cached copy when there is one), check it,
prepare the row; `Refuse` is `InsufficientFunds` with the rollback every caller
makes; `CommitWrite` makes balance and row visible together; `EndSession` closes
the session after its work or by its death. The constant `Preloading` is the set
of sessions that load the user before the service runs: bot updates (the
middleware upserts the user) and the panel's wallet form. A gateway return, an
API call and the worker do not.

`loaded` in a ledger row is a history field (was the user in the identity map?)
that the properties use; nothing in the actions reads it.

### Payments

One `job` per session: the kind of request, the payment, the stage reached, and
`seen`, the status in the identity map if the entry point read the payment first.
Entry points (`BotApprove`, `PanelApprove`, `PayReturn`, ...) differ in what they
read before the service; `SeenStatus` is what the guards test. The services follow
their code: lock the payment row (`Approve`, `Reject`, `BeginVerify`,
`BeginRefund`, or `ReturnEarly`), ask the provider (`VerifyOk`, `VerifyMismatch`,
`VerifyFails`), lock the user and flush (`MoveMoney`, `RefundRefused`), commit
(`CommitDeposit`, `CommitRefund`), record the receipt after the commit
(`Receipt`). `Crash` ends a session at any point. `gate` is the gateway's own
knowledge: it is modelled from how the code uses its answers. `credits` and
`refunds` count the ledger rows of a payment; `since` is history.

Left out: orders of intent `plan:<key>` and Telegram Stars (Checkout, below); that a
reconcile batch runs its rows in one session (each row is a request of its own
here, so the batch's locks and its identity map do not pass from row to row).
A verify that fails closes its session: the caller answers and ends.

### Subscriptions

`plan`, `expires`, `subs` are the committed columns, `held` the Redis keys,
`buy[s]` the purchase a session serves with the row it loaded. `WriteBack` is the
UPDATE the ORM emits: a column that was assigned the value it was loaded with
is not written. `NewExpiry` is `_compute_expiry` on the loaded row. The sweep is
three steps (`SweepRead`, `SweepMark`, `SweepCommit`) because its reads, its
UPDATE on subscriptions and its commit see different databases; its row locks
appear as guards (`SweepHoldsSubs`, `userLock`). The panel's form is `PanelLoad`
and then one of its actions. `Parts` says which actors are present in a run:
deposits, the sweep, the panel, slow purchases, a Redis that may be down.

### Invoices

`rec[r]` is the call of one session: look the source up, draw the maximum plus
one, insert. `Conflicts` is the pair of unique constraints. `answered` is history:
the sources whose call returned normally.

### Paywall and Delivery

`file` is the committed media row, `entitled` the unlock rows, `tapKey` the Redis keys
of the buy button, `job[s]` the update a session serves with the copy of the row it
read. A sale is `BuyMedia`, `BuyNotForSale`, `BuyCheck`, `BuyFolded`, `BuyKey`,
`BuyFileDebit` (a wallet step), `BuyFileCommit` with the unique constraint
(`MayUnlock`), `BuyFileReceipt`; then the delivery goes on as for an opened link.
A delivery is `CheckStatus`, `PassGates` (owner or admin, plan, quota, password,
forced join: Telegram's answer is either), `Claim` on the *committed* row,
`SendSome`/`SendNone`, `Release`, `LogDownload`, `CountDelivery`. Edits of the row
by its owner in the bot and by the panel, the panel's reset of the counter and
the new day of the quota happen at any point. When Redis does not answer, the quota gate
lets everybody pass and the counter stays behind: `blind` counts the updates of a day that
passed so. `charges` counts committed debits.
`slots` says what became of the claims since the last reset: `given`, `leaked` (the
session died between claim and release), `stolen` (released although the claim is
older than the reset) and `cap`, the highest limit since.

### Checkout

One user, one plan whose price is the unit of money. `coRow` and `coPaid` are the
payment rows and what gateway or Telegram took, `coStars` the life of a Stars
invoice, `coHolder` the row locks (user, subscriptions, payment), `coTask[t]` a request:
gateway verification, a `successful_payment` (which Telegram may deliver again at any
time), a purchase from the wallet, a refund. `Deposit`/`StarsInsert` commit money,
`PurchaseLock`, `PurchaseDebit`, `PurchaseCommit` the purchase that follows,
`RefundLocks`, `RefundReadsUser`, `RefundCommit` the refund, `SweepReads`, `SweepMarks`,
`SweepCommits` the sweep. A task has its session's copy of the user's plan and balance
(`plan`, `wallet`), loaded when it arrived, by the deposit's receipt (`VerifyReadsUser`) or
under the lock: the deposit and the purchase compute the balance they write from that
copy (`Balance`), so an overlapping movement of a session that loaded the user before is
overwritten, as in `Wallet_preloaded_sum`. `coLost` is history: what such writes took from
or gave to the wallet. `ServerDies`, `PurchaseFails`, `OwnerSwitches` are the trouble. `DeadlockBroken` is PostgreSQL's deadlock detector: it ends the
refund or the sweep when the two wait for each other. `coCredits`, `coBought`, `coRevoked` are history.

### Broadcast, AutoDelete, Albums

`Broadcast`: `bcJob` and `bcRow` are jobs and recipients, `bcWorker` the worker's turn:
`ClaimJob` (or `JobWithoutBot`), `ReadPage`, `Send` (with every answer Telegram can
give, a lost one included), `CommitOutcome`, `PageDone`, `CountRows`, `FinalizeJob`.
`RetryFailed` is the panel's. `WorkerDies` forgets the turn. `bcReached` counts
messages that arrived, `bcMishaps` deaths and lost replies, `bcOvertaken` jobs
whose rows were re-queued while the worker closed them, or that had no bot.

`AutoDelete`: `adQueue` is the sorted set, `Schedule` fills it, `PopDue` reads it,
`DeleteOne`, `PassOver`, `Acknowledge` work it off. `adBots` is the worker's cache of
tenants' bots. `adFate` is history: a deletion was tried, or excused because its
tenant had no bot or the turn's connection broke.

`Albums`: a handler makes three Redis calls (`PushPart`, `WriteMeta`, `ArmGroup`), the
worker reads the due groups, claims one, reads its list, deletes it and creates the
media. `alExcused` holds the parts whose loss has a named cause: a death, the
buffer's time to live, a refused album, a push between the worker's read and
its delete, or a list read without its hash, whose media has no uploader.

### TenantBots, Backups

`TenantBots`: `tnBuyer` is the creation (`CreateLock`, `CreateDebit`, `CreateCommit` with the
unique bot id, `SeedDefaults`, `ProvisionLogin`), `tnRequest` a request of the platform
or the reload after a creation (`ReloadRead`, `Unhook`, `EnsureSecret`, `SetWebhook`,
`AddEntry`), `tnReg` and `tnHook` the API's registry and Telegram's webhooks, `tnSweep`
the worker's sweep, which has no access to the registry. `tnRaced` marks bots two
parties worked on at once, `tnShort` creations that died after the charge.

`Backups`: `bkRow` the jobs, `bkDisk` the files, `bkDump` what each file holds: the table of
jobs as it was, so that `RestoreDone` turns rows *and* the sequence of ids back, and
`RestoreFails` stops between two of psql's statements. Every success is followed by the
pruning. Both it and the panel's deletion load rows, remove the files (`PruneFile`, one by
one, `DeleteFile`) and commit the rows' deletion afterwards (`PruneCommit`, `DeleteRow`);
`bkRemoval` holds the jobs in between, and a death there (`BackupWorkerDies`,
`DeletionDies`) leaves rows without files. A pg_dump that fails may leave a part of a file
(`TornDump`). `bkExcused` are the files, `bkStuck` the running rows, that a failed dump, a
death, a deletion of the running job or a restore leaves at odds.

### Uploads, Forms

`Uploads`: a handler counts the quota (`AdminUpload`, `NonAdminUpload`, `BatchFinish`), and
creates rows after its awaits (`CreateMedia`); so does the worker for an album
(`FinalizeAlbum`), which looks at no quota when the uploader is an admin; reviews and status forms load the row,
then commit (`ReviewCommits`, `MediaEdit`, `MediaPatch`); a new public file posts its
preview (`PreviewChecks`, `PreviewSends`, `PreviewCommits`). `upOver` holds the files that took
a slot without a look at the quota, `upTwins` counts approvals beside a running post.

`Forms`: `foState` and `foData` are the FSM's keys in Redis. A handler is the list of Redis calls
it still has to make, in the order of its code (`SetState`, `UpdateData`, `GetData`,
`ClearState`, `ClearData`, `WriteObject`); there is one action per button and per answer of
`states.py`; every call is a record of what it does and to which key, and `GoesOn` is what
is left of the handler after it. `foOwed` counts presses of a button minus writes through its form,
`foOverlaps` the handlers begun beside another.

### Support, Community, License, PanelAuth

`Support`: `OpenTicket`, `AddMessage`, `CloseTicket` with the status each has loaded, `dkOverlap`
the tickets two requests worked on at once. The opener's form is cleared after the commit
(`FormCleared`), so two fast messages open two tickets. `Community`: a tap is the DELETE of the
opposite, the INSERT, and the counters, with row locks and the unique constraint;
comments and reports with their moderation. `License`: the server's rows and seats,
the requests in flight, the daily check of each installation; `liLive` is the last
day the key was good. `PanelAuth`: sessions, second factor, links, the lockout, and
the handlers that load the row of the member and write some of its columns
(`Changes`); `auBumps` counts the changes that end all sessions, `auOverlap` says two of
them overlapped. It is about the panel: the API's bearer tokens carry no epoch.

### BotMenu, Ads, TenantLog, Gateways

`BotMenu`: `mnCache` is Redis, filled after the rows were read; saves bust it; pushes go to
Telegram. `mnLast` is the last tick a value was in force. `Ads`: `PickForPlacement`
takes the first ads under their limits in the order of their ids (`Picked`), `SendAd` and `RecordImpression` follow; edits and
deletions in between. `adLost` counts messages that were never counted, `adTop` the
largest limit. `TenantLog`: `EnsureTopic`, `TopicKept`, `EmitSends`, `EmitFails`,
`GroupConnected`; `lgOverlap` says a topic was kept while a group was connected, `lgAstray`
that an event landed under another category. `Gateways`: `Start` and each provider's
create, `UserPays` (in full or not), the four ways to a verify, and its outcomes: each
provider's verify, `Mismatch` (another amount or user, or a repeated answer of zibal's that
names no amount: the payment is rejected), `NotPaid`, `GatewayDown`; beside them
`ProvidersSave`, with centralpay's two keys. The status a verify tests was loaded before
the payment was locked. `gwRefused` holds paid orders their own gateway refused,
`gwUnnamed` those that were rejected for an answer without an amount.

## 3. The runs

Every run and its properties are in `PROJECT.json`; each property is stated in
words above its definition.

| run | question | distinct states |
|---|---|---|
| Payments_fresh | three sessions on one card payment, entry points that read nothing first: do deposits minus refunds equal what the status says (`BooksMatchStatus`)? does the wallet implement `Accounts` (`ImplementsAccounts`)? is every request answered (`EveryRequestEnds`)? yes | 16 142 |
| Payments_open | every entry point on a card payment and a gateway order: refunds backed, receipts backed, only paid orders credited, and no second credit without an overlap | 249 000 |
| Subscriptions_prompt | double taps and renewals of one plan, crashes, a Redis that answers: no twin purchases, no lost time, every purchase ends | 5 220 |
| Subscriptions_all | purchases, deposits, sweep, panel, slow purchases and a dead Redis at once: does a paid plan keep its active subscription whatever they overtake (`PlansStayBacked`), is an expired plan always dealt with? yes | 136 476 |
| Delivery | scene *delivery*: two updates sell and deliver one file under edits, resets, failed sends, crashes: `ChargedOnce`, `SlotsConserved`, `NoOverDelivery`, `QuotaOvershootBounded`. Scene *wallet*: the wallet's callers with two preloading sessions: `NewestRowIsBalance`, `FreshRowsChain` | 1 388 979 |
| Checkout | a gateway order and a Stars charge, three requests, one mishap, the sweep: `OneDepositPerCharge`, `DepositsAreKept`, `RefundSticks`, and `EveryCheckoutEnds` across the deadlock of refund and sweep | 442 328 |
| Worker | scenes *broadcast*, *autodelete*, *albums*: `NoUnexplainedRepeats`, `NobodyForgotten`, `EveryJobEnds`, `DeletionsAreTried`, `EveryPartIsUsedOnce` | 193 728 |
| Office | thirteen scenes: `BackupsAddUp`, `OneChargePerBot`, `NumbersAreDense` (receipts), `QuotaHolds`, `OneEditPerPress`, `LastWordDecides`, `CountersMatchRows`, `GraceIsKept`, `EndedSessionsStayEnded`, `EditsGoLive`, `ImpressionsBounded`, `LogsStayInTopic`, `PaidOrdersSettle` | 1 730 597 |
| Wallet_preloaded_sum, Payments_double_return, Subscriptions_sweep_race, Texts_shared_cache | statements of the repository the code does not keep | findings, section 6 |

Each property of a passing run has a *mutant* in `PROJECT.json`: a definition of the
model, changed the way a plausible bug would change it (a lock that does not lock, a
guard dropped, a commit that forgets a column), under which TLC finds the property
violated. The mutants stand in the modules, before the definition they change,
and nothing else uses them.

Properties with an exception name it exactly (`\/ j \in bcOvertaken`, `+ blind[u]`,
`~auOverlap => ...`). The exception is the code's own: an interleaving the
repository does not guard against. The property says that nothing else goes
wrong, and its mutant shows that the exception does not swallow it. The type
invariants and further properties hold too when they are added to a cfg: `OnePerSource`,
`PreviewPostedOnce` and `SuspendedIsNotServed` to that of Office, `NoneIsDropped` and
`PartsAreKept`, which section 4 proves, to that of Worker. The types are proved for
nineteen modules (section 4).

### Bounds, and why they are enough

* Two handlers, sessions or tasks at a time (three in Payments_fresh, Subscriptions_prompt
  and the receipts): a conflict here is between two parties that use one row;
  the third is there for a waiter while the other two meet. Two at a time does
  not mean two in all: `MaxTasks`, `MaxUploads`, `MaxUpdates`, `MaxDesk`, `MaxTaps`, ... let
  three to five arrive, so that a late one meets what the early ones left.
* One mishap per scene (`MaxTrouble`, `MaxMishaps`, `MaxBackupTrouble`, ...): a crash or a
  failure between any two steps; what follows runs without another one. Bounds
  in properties (`<= 1 + bcMishaps`) are proved for any number.
* `MaxRows` bounds a user's ledger in the guards of the actions that start a movement
  (a session under way may still add its row): two to four rows let a session write
  between another's read and its write, which is all a lost update needs, and
  let a payment be credited, refunded and credited.
* One bot, file, order, charge or key where the code treats them independently; two
  chats, jobs, tickets, groups, ads or albums where a queue or a cache mixes them.
  `Texts_shared_cache` has two shops where Office has one: that is the finding.
* `MaxBlind = 1`: one update of a user passes the quota while Redis is down, before, between
  or after those that are counted; the theorem is for any number. `DefaultKeep = 1` where
  the code has 7: two backups are enough to prune one. One uploader with `MaxFiles = 1`, two
  handlers and the worker beside them (`AlbumTask`), four files: three that looked at
  the quota together, and one more.
* `MaxDay = 2` and plans of one, two and zero days: a plan expires, is renewed before
  and after its expiry, or is for life. `GraceDays = 1` with `MaxDays = 2` reaches the end
  of the grace window.
* The forms of the bot are taken in groups (`FormsInPairs`): the forms that share a key of
  the FSM's data are always together, the others in pairs, since two forms meet only
  in the state and in a common key.
* No symmetry is used: the runs with liveness would not allow it, the others do
  not need it.

`CHECK_DEADLOCK FALSE`: the models stop when the bounds on arrivals are spent and all
work is done, and the system may rest, too. That nobody waits for ever is checked
as liveness (`EveryRequestEnds`, `EveryPurchaseEnds`, `EveryCheckoutEnds`, `EveryJobEnds`).

### Fairness

* `Payments`: strong fairness on each session's next step. The event loop runs every
  task; the provider call has a timeout; PostgreSQL queues the waiters of a row
  lock, so one whose lock becomes free again and again gets it.
* `Subscriptions`: the same for purchases, weak fairness for the commit of a deposit;
  strong fairness on `LockExpires` (Redis counts its seconds whatever happens); weak
  fairness on `SweepRead` and strong fairness on the sweep's other steps. Time itself
  (`Tick`) is not assumed to pass. `Subscriptions_prompt` assumes, where the code does,
  that a purchase is quicker than the ten seconds of its Redis key; the guard of
  `LockExpires` states that assumption, and the part "slow" lifts it.
* `Checkout`: weak fairness on each served request and on the sweep. The deadlock
  detector is part of `Advance`: PostgreSQL runs it after `deadlock_timeout`.
* `Broadcast`: weak fairness on the worker's turn, whose loop survives exceptions and
  whose process is restarted. `AutoDelete`: the same, and time passes (`FallsDue`).
  `Albums`: a handler that began goes on, the debounce elapses, the loop goes on.

Nothing is assumed of arrivals, of faults, or of what users do: a request may never
come and every request may die. The scenes of Office have no liveness property and
no fairness.

## 4. The proofs

All for every value of the constants: any users, sessions, payments, plans, sources,
amounts, bounds and any choice of `Preloading` and `Flows`, unless a theorem names a
condition. The assumptions are the named ASSUMEs of the modules (a price is positive,
a deposit is an amount, the sets are what their comments say), which TLC evaluates in each
run. A theorem that carries the name of a run's property states that property.

### WalletProofs

* `WalletTypeCorrect`: types, and with them that no balance and no `balance_after`
  is ever negative.
* `NewestRowHolds`: the newest ledger row of a user carries the committed balance.
* `FreshRowsChainHolds`: a row whose writer met the user under the lock extends
  the row before it, whatever preloading sessions do meanwhile.
* `LedgerChainHolds`, `WalletImplementsAccounts`: with no preloading session every row
  extends the one before it and each commit is one posting of `Accounts`.

The argument: none of these is inductive alone. `WalletIInv` adds what is true while
a write is in flight: a session with a write in flight holds the user's row lock, a
row lock is held by a session that has such a write, so at most one write per
user is in flight; and if the writer had not preloaded the user, its
`balance_after` is the committed balance plus its amount, because nobody else could
commit since it took the lock. With that, the commit keeps the chain. Each action has
its own step (`ApplyKeepsIInv`, `CommitKeepsIInv`, `EndKeepsIInv`,
`CacheKeepsIInv`), and `WalletStep` gathers all that a module above may do to a wallet, so
that such a module has one thing to show: its steps are wallet steps or leave the
wallet alone. For the chain without the exception one more invariant
(`ChainIInv`) says that no identity map holds a user when nobody preloads.

### PaymentsProofs

* `PaymentsTypeCorrect`, `RefundsAreAlwaysBacked`, `OnlyPaidOrdersAreEverCredited`,
  `ReceiptsAreAlwaysBacked`, `RecreditAlwaysNeedsOverlap`: with every entry point
  open.
* `BooksAlwaysMatchStatus`: when no entry point of `Rereading` is open. The
  run `Payments_double_return`, and `RefundedIsTerminal` in section 6, show that the condition is needed.
* `PaymentsKeepLedgerChain`, `PaymentsImplementAccounts`: when nobody preloads the user.

The argument: `PayIInv` says of each payment (`PayOK`) that its deposits cover its
refunds and its status, that a credited order was paid, that receipts are backed; and
of each session (`JobOK`) what it may rely on: it holds the payment's lock from its
guard to its commit, if its copy of the status is out of date because the payment was approved meanwhile, a
deposit came after it arrived; and an order it is about to credit was paid. A session's part can be disturbed by
another only within `Frame`: locks held elsewhere stay, counts only grow, a paid gateway
stays paid, an approval comes with a deposit. `FrameKeepsOthers` shows that such a step leaves the
other sessions' parts alone, so each kind of step is checked for its own
session and its books only (`ArriveKeeps`, `TakeKeeps`, `CommitDepositKeeps`,
`CommitRefundKeeps`, ...). The money itself comes from the wallet: `StepIsWalletStep`.

### SubscriptionsProofs

* `SubscriptionsTypeCorrect`: types, and non-negative balances, with purchases, sweep,
  panel, a slow purchase and a dead Redis all at once.
* `NoTwinPurchasesEver`: while Redis answers and keys outlive their purchases, two purchases of
  one plan by one user are never both past the lock. The invariant that makes it inductive is
  `PayersHoldKeys`: who is past the lock has its key set.
* `EveryRenewalExtends`: when one plan is on sale, deposits are the only other actor and
  keys outlive purchases. The panel breaks it otherwise, since it writes the row between
  another's load and its commit. The argument is `RowsFresh`: the row a
  purchase loaded is still the committed one, or the purchase will be answered
  DUPLICATE, since the key of the purchase that changed the row is set and can no longer be
  deleted by a failure. `NoTwinPurchases` and `PayersHoldKeys` carry it over the commit of
  another purchase.
* `PlansAlwaysBacked`, with every actor and any Redis: a paid plan loses its active
  subscription to one step only, the panel's cancellation of a plan that its form did not see.
  The users row and the subscriptions rows are written from copies loaded at different times.
  A purchase or a grant adds an active row of the plan it writes, touches no older row, and
  writes the column only if it differs from its copy (`NewRowBacks`); the sweep and the
  cancellation write the free plan for the user whose rows they switch off (`StepKeepsBacked`).

### DeliveryProofs

For any finite set of sessions (where a count appears), any users, files, prices, limits
and edits.

* `DeliveryTypeCorrect`, and `ShopKeepsWallet`: the wallet's invariants under sales. Every
  step of Delivery is a wallet step or leaves the wallet alone, so WalletProofs does the work.
  `JobsOK` says what a stage implies about the copy it holds (a sale under way is of a file
  that costs something).
* `ChargedOnceEver`. `ChargeInv` adds to the property the pair without an unlock row,
  which has no charge while the file exists: that is what the unique constraint decides on.
* `SlotsAlwaysConserved`, `NeverOverDelivered`. `SlotInv` is the counting invariant with the
  holders of a slot (`Holders`), and that the highest limit covers the current one, which
  makes the guard of the claim useful. Each action changes `Holders` by one session
  at most (`HolderCount`).
* `QuotaOvershootAlwaysBounded`. `QuotaInv` counts the updates past the gate but not yet counted
  (`Past`), each in a session of its own: used plus past stays below quota plus sessions plus
  the updates that passed while Redis did not answer the gate (`blind`). Those that Redis
  failed to count afterwards are not in `used`, which is a count of Redis's.

### CheckoutProofs

* `CheckoutTypeCorrect`, `OneDepositPerChargeEver`, `RefundAlwaysSticks`, for any orders,
  charges, tasks and bounds. That the balance is a number says little of it: it is not
  negative because each write tests the copy it is computed from, and it may be wrong all the
  same, which is `DepositsAlwaysKept`'s subject. `TaskOK` says what the lock on the user protects: a purchase
  that has debited, or a refund that has read the plan, holds it, and what it read still
  stands; so neither can commit over the other. `ChargesOK` says a charge
  without a row has no deposit, which is what the unique index decides on.
* `DepositsAlwaysKept`. What was deposited is a sum over the payments, a fold over the set of
  orders and charges (`PaymentsAreFinite`). Sums are reasoned about by induction over the subsets of
  a finite set (`SubsetsByInduction`), stated with a set in the place of the predicate and
  proved from the well-foundedness of strict inclusion. `TotalGrows` says what a step needs: a
  sum changes by as much as its one changed term. A deposit puts one price into the sum, a
  committed purchase one into what was bought; either writes a balance computed from its
  task's copy of the user, and the difference to the committed one goes to `coLost`. What the
  theorem says is that this is the only way to lose some: while copies are fresh, wallet and
  purchases add up to the deposits. `fresh` marks the copies that no commit has outdated, and
  the invariant says that they hold the committed balance.

### WorkerProofs

One section for each of the worker's queues.

* Broadcasts: `BroadcastTypeCorrect`, `RepeatsAreAlwaysExplained`, `NobodyIsForgotten`, for any finite
  audience and page size. `TurnOK`: the rows of a page still to do are pending and
  distinct. `ReachOK`: a chat whose send is not known to have succeeded got the message
  at most once per mishap, the others once more. `SettledOK`: a job the worker found drained
  stays drained unless a retry marks it as overtaken.
* Deletions: `AutoDeleteTypeCorrect`, and `NoDeletionIsDropped`: a scheduled deletion leaves the
  queue only after it was tried or passed over. `DeletionInv` says that what the turn has popped
  and is through with has a fate, so that the acknowledgement at its end, the one step that takes
  members out, takes out only those; a message scheduled while the turn is under way is not among
  what it popped.
* Albums: `AlbumsTypeCorrect`, and `PartsAreAlwaysKept`: no part is used by two media, and none that
  was taken in vanishes without one of the named causes. `InOnePlace` says that a part is in its
  group's list, in one album the worker popped or in one media, in one of them at most, and that a
  part taken in and in none is excused. Between the worker's reading of the list and its deletion
  the part is in the list and in the worker's hands as well; `TurnInOrder` says that what was read
  is in that list until it is deleted, which is what `DropGroup` needs so as not to duplicate it.

### TenantProofs

One section for each of seven parts that share nothing:

* *Gateways*: `GatewaysTypeCorrect`, `PaidOrdersAlwaysSettle`, for any orders and edits of the
  providers and their keys, with verifies that come late or again. `OrderOK`: an order was
  opened in some account, one that was offered can be asked for, only an offered one is paid,
  and a verdict is what the gateway knows of it or one of `gwUnnamed`; a verify is refused by
  another account only, and that refusal is not final.
* *TenantBots*: `TenantBotsTypeCorrect`, `OneChargePerBotEver`, for any bots, buyers, deaths and
  restarts. `TenantInv` adds that requests and the sweep work on tenants that exist, which
  never go away, and that a charged bot is in creation until it is set up or cut short.
* *Invoices*: `InvoicesTypeCorrect`, `OneReceiptPerSource`, `ReceiptNumbersAreDense`. A number is
  drawn from a maximum that may be stale at the insert. It is harmless because rows are never
  deleted: all numbers below a drawn one exist and go on existing (`DrawnContinues`), and
  `UNIQUE(invoice_no)` refuses it when it was used meanwhile. `MaximumExists` is what makes
  `LastNo` a maximum at all.
* *Uploads*: `QuotaAlwaysHolds`, for any files, limits and handlers, the worker's albums among
  them: handlers that counted at the same time may all insert, so the limit is exceeded by at
  most one file for each but one of them. The files in `upOver` took a slot with no look (an
  admin's album, an approval over a rejection, the panel's form) and are not counted. The
  invariant (`SlotsArePromised`) adds to the files in question the handlers that looked and have
  not inserted: one that looks finds the files below the limit, and at most the others on their way.
* *BotMenu*: `EditsLive`, for any keys, values, readers and edits, under the hypothesis
  `Shops = {Platform}`: with a second shop the statement is false, which is finding 4 of
  section 6. `CacheIsFresh` dates an entry of the cache by the last tick its value was in
  force; `Fresh` does so for what a handler read from the rows (this tick) or resolved (this
  one or the one before), so that an entry filled late is still fresh enough.
* *Ads*: `AdsTypeCorrect`, `ImpressionsAlwaysBounded`, for any ads, placements, limits and edits
  and a finite set of handlers. `SentIsCounted` accounts for each message that was sent: it is in
  the ad's counter, lost, or being counted (`Counting`). `SentIsBounded` adds the handlers that
  will still send it (`Sending`): one that picks the ad finds the counter below its limit, and
  at most the other handlers are on their way.
* *TenantLog*: `TenantLogTypeCorrect`, `LogsInTopic`, for any groups, categories and sessions.
  `RowInTopic` says it of every copy of the row, committed or loaded by a handler that is
  under way; `ConnectSawTopics` that a handler about to connect a group has seen every topic of the
  row it will overwrite, since the ORM writes only what it saw change.

### OfficeProofs

One section for each of six parts that share nothing:

* *PanelAuth*: `PanelAuthTypeCorrect`, `EndedSessionsAlwaysStayEnded`, for any requests,
  sessions and failures. `EpochsCount`: while no two bumps overlap, the epoch of the row, of a
  row a handler loaded and of a session's record equals the number of bumps committed
  when it was read. `ChangesOverRow` shows that handlers that are no bump leave the
  epoch alone although they write other columns of the row they loaded earlier.
* *Support*: `DeskTypeCorrect`, `LastWordAlwaysDecides`. `TicketOK`: the status a request loaded
  is the committed one until two requests work on the ticket.
* *Community*: `CommunityTypeCorrect`, `CountersAlwaysMatchRows`, for any users and taps.
  `LocksOK`: the rows a tap has locked exist, are of one user and locked by no other tap;
  `LowerCounts` counts what a deletion of such rows does to each counter.
* *License*: `LicenseTypeCorrect`, `GraceKept`, for any installations, seats, days of grace and
  requests in flight. `RowsKnowADay`: the day of the last good check in a row is a day on which
  the key was good; `AnswersAreOfToday`: so is today, as long as an answer that says active, or
  a seat about to be taken, is on its way. A day does not end while it is.
* *Backups*: `BackupsTypeCorrect`, `BackupsAlwaysAddUp`. A restore turns the table back to the one
  in a dump, so the invariant is about every dumped table as well as today's: each names only
  files that were made, each file in one row, and its sequence is ahead of its ids
  (`TableAddsUp`, `DumpsAddUp`). Files are numbered as they are made, so the one the worker
  has made and not yet recorded is in no table, old or new (`DumpedIsNew`); where its row is
  gone, or was turned back under it, `WorkerAddsUp` says which file is excused already. What is
  being removed (`bkRemoval`) was loaded earlier than it goes (`RemovalsAddUp`): a removal names
  a file that was made, and the row it takes names that file, a later one, which is then excused,
  or none.
* *Forms*: `FormsTypeCorrect`, `OneEditPerPressAlways`, for any media, folders, arrivals and a finite set
  of handlers. The property counts writes that were made; the invariant (`FormsInv`) counts
  those to come as well. `PaidFor(f, o)`: presses owed to o through the form f, plus overlaps,
  cover the handlers that may still write to o through it (`Writers`: they know that they
  will, or will read the data and may be told o, or decide on a payment), and one more if the form
  may be left open about o when all have finished (`MayOpen`). A press opens the form and pays for its
  answer; what else an update tells the others is paid for by the handlers it began beside. One
  case does not fit: a folder's name is given to the top when its data is gone, so that
  somebody else's forgetting sends an answer there. The first to read cannot be told so
  by its own, and is spared (`Spared`). `InOrder` says what the lists of calls have in common,
  and `WhatBegins`, `WhatIsCalled` and the like say how one call changes each of the sets.

### Only model-checked

Liveness (TLAPS has no ENABLED; what `DeletionsAreTried` and `EveryPartIsUsedOnce` rest on, that
nothing is lost or used twice on the way, is proved in WorkerProofs): `EveryRequestEnds`, `EveryPurchaseEnds`, `ExpiredIsDowngraded`,
`EveryCheckoutEnds`, `EveryJobEnds`, `DeletionsAreTried`, `EveryPartIsUsedOnce`. All the invariants
of the passing runs are proved, and the refinement of `Accounts`.

Induction over data is out of reach in the form of the library's induction theorems, whose
parameter is an operator. With a set in its place it can be proved from well-foundedness
(`NatsByInduction`, `SubsetsByInduction`), which is how CheckoutProofs reasons about its sum. The
sum over a ledger, a sequence, is in no theorem: the code does not keep it
(`LedgerSumIsBalance`, section 6), and `LedgerChainHolds` is what it keeps where it does, row by row.

## 5. Not modelled

* **Tenant isolation guard** (`core/tenant_context.py`, `db/tenant_scope.py`): it rewrites
  ORM statements by one context variable per task. What can go wrong is a statement the
  rewriting misses, a property of SQLAlchemy's compiler and not of a protocol.
* **Dispatchers, keyboards, messages, callbacks** (`bot/messages.py`,
  `bot/keyboards/`, `bot/callbacks.py`, middlewares): wording, layout and wiring; what a
  middleware loads appears as `Preloading`.
* **Statistics, captions, listings, search, settings pages**: they read, or write one row that
  nobody else writes. Settings appear where something depends on their change.
* **Installation and migrations**: they run with the system stopped.
* `renew_from_wallet`: no handler calls it. Custom buttons, folders beyond their forms and the
  channel list beyond Telegram's answer: rows without another reader in flight.
* The batch of `reconcile_service.py`: each row is a request of its own here. That one
  session carries its locks and its expired instances from row to row is not
  modelled; the hazard at `reconcile_service.py:64` is listed without a property for
  that reason.
* Data: amounts, texts, codes, signatures, file contents. An HTTP conversation with a
  gateway, `pg_dump` and Telegram are their outcomes.

## 6. What the checks found

Four places where the code does something else than a comment or docstring of the
repository says; each is a run that TLC refutes, quoted in `PROJECT.json`:

1. `Wallet_preloaded_sum`: a session that loaded the user before `_apply` locks it
   overwrites a concurrent movement: the ledger no longer sums to the balance.
2. `Payments_double_return`: two overlapping gateway returns of one order credit it
   twice. The panel's approve button and the admin API load the payment first, too.
3. `Subscriptions_sweep_race`: the sweep downgrades a user who renewed after the sweep
   read the expired rows.
4. `Texts_shared_cache`: the cache of texts has no tenant in its key: one bot shows
   another's text, and an edit does not show within the life of an entry.

Further statements that the models violate. They have no run of their own; to see one,
write the cfg described and check it.

| statement | how | the words |
|---|---|---|
| `RefundedIsTerminal` (Payments) | `Flows = {"bot_approve", "panel_refund"}`, one session, `FairSpec` | `refund_service.py:7`, against `payment_service.py:48` |
| `AnsweredMeansRecorded` (Invoices) | two sources, two recorders, `InvoicesSpec` | `invoice_service.py:3`, against line 65: two receipts draw one number, the loser's is dropped |
| `ScheduleIsEnabled` (Backups) | the constants of Office, `BackupsSpec` | `docs/LAUNCH_READINESS.md:65`: the panel cannot create the schedule's rows |
| `ReactivatedHasWebhook` (TenantBots) | the constants of Office, `TenantBotsSpec` | `superadmin.py:137`, `:159` say the reload re-sets the webhook; `registry.py:150` skips a bot it still has an entry for |

The promise of `subscription_service.py:4`, that a debit grants its plan, has no property: with
one plan and no sweep it says no more than the assignment in the code, and with the sweep it
is broken the way `Subscriptions_sweep_race` shows (a renewal that loaded its user before the
sweep committed is paid and, by the columns it leaves out, stays on the free plan).

And interleavings that the models contain as named exceptions: two activations that count
the seats before either inserts its own exceed them (`activation_server/store.py:193`,
`ServerActivate`/`ServerBinds`); two approvals post two previews (`preview_service.py:109`,
`upTwins`); a double tap on the confirmation of a broadcast, or an album of receipts, makes
two jobs or payments (`foOverlaps`); a delivery that fails after a reset releases a slot
that belongs to another (`stolen`); a crash between claim and release leaks one (`leaked`);
overlapping deposits of a preloaded user lose one (`coLost`); updates pass the quota while Redis
is down (`blind`); an admin's album is made without a look at `max_files`
(`workers/main.py:218`, `upOver`); a stop between the removal of a backup's file and the commit
leaves a success without a file (`backup_service.py:161`, `bkExcused`); zibal's second answer,
after a stop before the commit or to a verify that tests an outdated status, rejects a paid
order when it names no amount (`gateway_service.py:79`, `gwUnnamed`).

## 7. The plan

Done: every part of the plan of section 1 that has state shared between actors. Left:

1. The reconcile batch as one session over several payments.
2. An abstract "at most `limit` deliveries" and an abstract at-least-once queue, with
   Delivery and Broadcast shown to refine them.
3. Liveness for TenantBots (the registry catches up with the table), which needs
   `ReactivatedHasWebhook` to hold first.
