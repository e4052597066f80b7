# Verification of the statement import (client-bank-alfa-by)

The application imports bank statements into Bitrix24 portals. Operations come
from two sources, an online bank that a poller asks and a file that an employee
uploads. Both reach one queue stage, which writes each operation into the
client's portal with a chain of REST calls that has no transaction. Around it
stand what keeps it running: the tokens of banks and portals, the events of the
portals, the set-up of the portal's ledger, the poller, the clean-ups, the alerts.
These TLA+ modules model the import and those parts, TLC checks them on small
instances, and TLAPS proves the main results for any instance. All paths below are relative to the
repository (`server/...`, `app/...`).

Contents: 1 the system, 2 the modules, 3 the runs, 4 the proofs, 5 disagreements
found, 6 what is not modelled, 7 the plan.

## 1. The system

The processes and stores that matter: an HTTP process (Nitro), one or more worker
processes, Redis with the BullMQ queues, PostgreSQL, the portals' REST API, and
the banks. Workers and HTTP may share one process or be split (`QUEUE_WORKERS`,
`docs/QUEUES.md`).

| Part | State it keeps | Operations | Interacts with |
|---|---|---|---|
| **crm-sync stage** `server/queue/handlers.ts`, `worker.ts`, `utils/*Write.ts`, `deferredWriteJobs.ts` | queue jobs; in the portal: registry element, payment, ledger row, activity with a marker, bindings, trigger fact, messages | handle a batch; postponed registry write, activity bind, trigger fire | reads and writes the portal, adds jobs to three retry queues |
| **manual import** `api/import.post.ts`, `utils/importIngest.ts`, `importBatchStore.ts` | parse jobs, one `import_batch` row per file | upload, parse, hand on to crm-sync, store the verdict | adds crm-sync jobs |
| **queue producers, retention** `queue/producers.ts`, `topology.ts`, `connection.ts`, `statementSweep.ts` | ids of ended jobs | stable ids, unstick, add, evict by age | every queue |
| **distribution ledger** `utils/distributionLedgerWrite.ts`, `deletionReconcile.ts` | rows of a payment, its rest | write a row, recompute, react to deletions | crm-sync, deletion queue |
| **portal lifecycle, events** `utils/b24EventsHandler.ts`, `tokenStore.ts`, `portalPurge.ts` | token row, tombstone, system user | install, uninstall, reinstall, purge, claim | event queue, every consumer |
| **bank tokens** `utils/ensureBankToken.ts`, `bankTokenStore.ts`, `dbLock.ts` | single-use refresh token | refresh under a lock, keep alive, disconnect | bank, fetch jobs |
| **portal tokens** `utils/ensureAccessToken.ts`, `portalSdkResolver.ts` | access and refresh token | refresh, keep alive | every REST call |
| **leases, scheduled runs** `utils/singleFlightLease.ts`, `queue/cron.ts` | lease row | acquire, renew, release | poller, reapers, auto-erase |
| **bank fetch, poller** `utils/bankFetch.ts`, `priorFetch.ts`, `queue/cron.ts` | fetch jobs per account | plan, fetch, hand on | bank, crm-sync |
| **smart-process set-up** `utils/distributionSpProvision.ts`, `provisionRequest.ts` | two types with their fields in the portal, their ids and the layout mark in the settings | create, complete, lay out, store | portal, lease, settings form |
| **clean-up** `app/utils/autoEraseActivities.ts`, `utils/autoEraseRun.ts` | none of its own | delete old activities | portal, poller's window |
| **unmatched notices** `queue/handlers.ts:984`, `utils/unmatchedNoticeClaim.ts` | slots in Redis, the memory of a run | claim then send, summary | chat |
| **queue health, alerts** `utils/queueHealthTick.ts`, `queueAlertDeliver.ts` | what has been said, in the memory of the process | read, plan, send, confirm | queues, Telegram |
| **recognition, allocation** `utils/intentResolver.ts`, `app/utils/allocation.ts` | none | operation to candidates, candidates to a decision | portal |
| **feedback outbox** | outbox jobs | retry a POST | GitHub |
| **pure logic** `app/utils/*` (parsers, purpose matching) | none | text to operations, to numbers | called by the stages |

`PROJECT.json` lists every part with its status, the parts out of scope included.

What is hard, and what makes each part correct:

* **crm-sync**: the sequence registry, payment, ledger, activity, marker, bindings,
  chat, trigger is not atomic. An operation arrives again in a retry, after a
  death, in an overlapping batch, in a re-upload; the only protection is a look-up
  of the marker before the writes. Correct: no second payment, activity or message,
  nothing an operation needs is lost behind its marker, everything comes to an end.
* **manual import**: a job id is made of the file's hash, BullMQ's `add` is a no-op
  while *any* job holds it, ended ones included, and freeing it is a read followed by
  a remove. Correct: an accepted upload is processed, and its row tells the truth.
* **ledger**: deactivating rows and recomputing a payment's rest are separate calls.
  Correct: the rest equals what the active rows leave, after any prefix and retry.
* **portal lifecycle**: events may be reordered, repeated, and processed after the
  portal is gone. Correct: a removed portal leaves no credentials, an older event
  never undoes a newer one.
* **tokens and leases**: single-use refresh tokens, several workers, expiry while
  the holder runs. Correct: a refreshed token is never lost, a disconnected account
  stays disconnected, one holder at a time up to expiry.
* **poller and clean-up**: stable ids are its back-pressure, and the clean-up deletes
  the markers that keep an operation from being imported again. Correct: no account
  leaves the rotation for good, what was erased does not come back by itself.
* **set-up**: a chain of calls that create things by title, and a blob of settings
  with two writers. Correct: no second type, an "ok" means whole types, neither
  writer loses the other's part.
* **allocation**: the candidates are read anew at every attempt, while an attempt has
  changed them by paying and employees change them at any time. Correct: no document
  is paid twice, an operation settles one document, a person hears when one is needed.
* **alerts and notices**: what has been said is remembered apart from the sending.
  Correct: said once, never unsaid, the last word is true.

The hazards, each at its line, are in `PROJECT.json`; those without a property carry
a note that says why.

## 2. The modules

| Module | Content |
|---|---|
| `CrmSync` | the crm-sync batch worker and the workers of the three retry queues |
| `ImportOnce` | the abstract specification: what the import promises about an operation |
| `MCCrmSync`, `crm_*.cfg` | instances for TLC |
| `CrmSync_proof` | inductive invariants of `CrmSync`, and that it implements `ImportOnce` |
| `ManualImport` | upload requests, parse worker, hand-off, rows, retention |
| `MCManualImport`, `manual_*.cfg` | instances for TLC |
| `ManualImport_proof` | inductive invariant of `ManualImport` |
| `BankToken` | the token pair of a bank connection: refresh under a lock, reissue, the accounts that share it |
| `MCBankToken`, `bank_*.cfg` | instances for TLC |
| `BankToken_proof` | inductive invariant of `BankToken` |
| `Ledger` | the rows and the rest of payments: crm-sync, deletions, the button |
| `MCLedger`, `ledger_*.cfg` | instances for TLC |
| `Ledger_proof` | inductive invariant of `Ledger` |
| `Allocation` | look-up of candidates, decision, payment, notice, over attempts |
| `MCAllocation`, `alloc*.cfg` | instances for TLC |
| `Allocation_proof` | inductive invariants of `Allocation` |
| `Unmatched`, `unmatched*.cfg` | the notices about operations of unknown payers |
| `Unmatched_proof` | inductive invariants of `Unmatched` and of `Alerts` |
| `Portal`, `portal_*.cfg` | installation, removal, token pair and reaper of one portal |
| `Portal_proof` | inductive invariants of `Portal` |
| `Lease` | a single-flight lease in PostgreSQL |
| `Provision`, `provision_*.cfg` | the set-up of the smart processes, run under a lease; extends `Lease` |
| `Provision_proof` | inductive invariants of `Lease` and `Provision`, and of `Polling` |
| `Polling` | poller, fetch queue, sweep, and the daily clean-up |
| `MCPolling`, `polling.cfg`, `erase_*.cfg` | instances for TLC |
| `Alerts`, `alert*.cfg` | the health check and its messages |

Where the constants are plain numbers, Booleans or model values, TLC checks the module
itself and no MC module stands between.

`PROJECT.json` maps every definition to its lines. The definitions named
"Mutant" are wrong variants of X, placed before it; no specification uses
them. Each shows that a property can be broken by a plausible slip in the code.

### CrmSync

State: `job` (queue state of each batch job: waiting, active, done, failed, with
attempts, stalls and redeliveries), `run` (the one worker: its job, the index of the
operation in hand, the place `pc` in `handleCrmSyncJob`, two locals of the run),
`crm` (what the portal holds about each operation: the elements with its marker, each
"full" or "bare" according to who created it, unmarked and marked activities,
binding, payments, ledger row and its summation, trigger firings, how many of them
reported an error (`unheard`, a history), their durable fact, messages), `deferred` (the retry jobs), `dropped` (failed writes that were
counted and not queued), `proven` (`markerProven`, per process).

One action per REST call of the handler, in the order of the code:
`Claim`, `Gate` (look-up of the marker, `handlers.ts:659`), `Backfill` (the repair of
an uploaded file's known operations), `RegistryFind`/`RegistryAdd`, `PayRead`/`Pay`,
`LedgerFind`/`LedgerAdd`/`LedgerRow`/`LedgerSum`, `AddActivity`, `MarkActivity`,
`VerifyMarker`, `UndoActivity`, `Bind`, `Alert`, `TriggerGate`, `FireTrigger`,
`FactFind`/`FactAdd`/`FactRow`, `Announce`. The retry queues are
`StartRegistryWrite`, `LateFind`, `LateAdd`, `LateLocate`, `LateLink`, `LateBind`,
`LateFire`. `Redeliver` puts an ended batch back (a later poll or a re-upload),
`Crash` kills the worker process with every job in hand.

Every call has a reply: `ok`, `refused`, or `lost` (it took effect and reports an
error). What the code does with an error is part of each action: throw to the queue,
postpone, count, or ignore. Which operations have an owner, a payable target, a
trigger, an alert or a message is a constant. `Payable` operations have exactly one
target that fits. The target of a `Fading` one is no candidate any more once it is
paid (a paid payment of a deal, an invoice whose paid stage settles it): a retry
behind the payment finds nothing to pay, writes no ledger row and says "unresolved"
(`run.gone`). Several equal targets, and employees who change them between the
attempts, are the subject of `Allocation`.

`ImportOnce` promises accordingly: an operation is paid, entered, recorded and
announced at most once, and `MustEnter` operations (those paid in one attempt, or
whose target does not fade) are not recorded before their ledger row.

Abstractions. One target and one trigger per operation. The reads before the first
write are one step (`Gate`), so are the probe and the find of a backfill. The cap on
backfills, the notices of unmatched operations (`Unmatched`) and of unreadable
settings, portals without a token, demo accounts, the fallback carrier of activities and the
answer of `todo.add` without an id are left out. Ids of retry jobs are not evicted.
Delays are not modelled: a retry may come at once or late. The lock settings of
crm-sync (`worker.ts:776-800`) are taken at their word: the batch worker is serial.

### ManualImport

State: `request` (how far each upload is), `task` (for each file the job that holds
its id in the parse and in the crm-sync queue, with attempts and stalls), `row` (the
state of the file's `import_batch` row), and two history variables: `owed`, uploads
since whose first look no parse job of the file has ended, and `chained`, files since
whose last hand-off no crm-sync job has ended.

An upload is `Look`, `Remove`, `Add`, `Mark` (`unstickFinished`, `enqueueParse`,
`markBatchQueued`): three calls to Redis and one to PostgreSQL, with any other
process in between. The parse worker is `Start`, `Read`, `ChainLook`, `ChainRemove`,
`ChainAdd`; the crm-sync worker `StartCrm`, `Work`, `WorkFails`; `Settle` is BullMQ's
move of a job, `Sweep` the eviction of an ended one by age (lazy or by
`statementSweep.ts`), `Crash` the death of the HTTP process, the worker process or
both.

Abstractions. Redis calls do not fail (`connection.ts` retries without limit), runs
and row writes do. What a file holds is a choice: the parse throws, finds nothing or
finds operations. The owner of a row, its counters, the daily deletion of rows and
the polling of the screen are left out. The effect of crm-sync on the portal is
`CrmSync`; here it is one step that ends well or throws. `Redeliver` of `CrmSync` is
the hand-off of this module seen from the other side.

An upload that dies between removing the old job and adding its own is `"cut"`: its
client got no answer, and another upload of the file may have relied on the removed
job. `WorkSurvives` and `EventuallyServed` exempt exactly that.

### BankToken

State: `rows` (the rows of `bank_tokens`, by account key: a number, or the
provisional key of a connection whose account is not chosen), `calls` (one run of
`ensureBankToken` per caller: the row it read before the lock, the row it read under
the lock, the pair the bank answered, the rows its open transaction has updated),
`head` (the refresh token each bank accepts) and `issued`, both the bank's, `opened`,
and the history variable `ahead`: the store has missed the bank's latest pair.

A call goes through `Ensure` (decide by the row it holds), `Take` or `GiveUp` (the
advisory lock, or `lock_timeout`), `Refresh`, `RefreshLost`, `RefreshDown`, `Refused`
(the bank), `Reissue`, `ReissueFails` (the API key), `Write`, `Commit`, `Rollback`
(`updateBankTokenSecrets` and the end of the transaction), and may `Crash` anywhere.
Beside it `Connect`, `ChooseAccount`, `AddAccount`, `Disconnect`, `RemoveApp` are the
administrator's, `Revoke` and `Expire` the bank's. The two that take the lock
(`makeLockedRename`, `makeLockedAddAccount`) are one step each, since everything they
do is under it.

Abstractions. One portal, and a bank is a property of the grant: `Keyed` grants are
Alfa's, made with an API key. A connection always begins under a provisional key: the
one caller of `buildConnectAuthorizeUrl` passes no account (`bankInviteSend.ts:109`),
and `exchangeAndSaveKey` has none, so `saveBankToken` never meets an existing row.
Time is `fresh`, which `Expire` ends; the credentials of the application are set; an
answer of Alfa carries both tokens; the API key keeps working. The mark of an attempt
only spaces retries and is left out.

The bank is assumed to turn the refresh token at each answer and to drop a grant
whose spent token is presented, which is the reading the code takes
(`ensureBankToken.ts:4-7`). A bank may also answer without a refresh token (`bare`),
and then the old one stays valid.

`Patient` says that an account number is not connected again while a call that began
with it has not ended. The lock is chosen by the grant of the row read *before* it
(`ensureBankToken.ts:378`), while the refresh works on the row read under it (382). If
the number has passed to another grant meanwhile, the call refreshes that grant
under the wrong lock, and with `Patient = FALSE` TLC finds two calls spending one
token. It takes an administrator who disconnects an account and gives its number to a
connection that has long been waiting for one, all within one refresh.

### Ledger

State: `carrier` (the payment elements; the rest of one is the set of rows it
deducts, `older` the elements that were there before it), `row` (each row active, reverted by a deletion, or removed by hand),
`writer` (crm-sync inside `writeLedgerAllocation`), `cleaner` (the deletion worker
inside `reconcileTargetDeletion`), `button` (`recomputeAllPayments`), the deletion
`job` of each target, and two history variables: `drift` names the payments whose rest
nobody in flight will mend (an exhausted job, two writers that crossed), `late` the
rows added to a target after its clean-up listed the rows.

Each REST call is an action: `FindPay`, `AddPay`, `FindRow`, `AddRow`, `LoadRows`,
`SaveWritten` of crm-sync; `ListRows`, `FreeRow`, `LoadFreed`, `SaveFreed`,
`RaiseFlag` of a deletion; `LoadNext`, `SaveNext` of the button; each with its
failure. Employees add and remove rows and delete targets and payments. The button lists
the payments by id, newest first, and cuts the list at `MAX_LEDGER_PAYMENTS` = 200
(`distributionLedgerWrite.ts:421-430`): it walks `Walked`, the `MaxWalked` newest, the same
ones at each press.

Abstractions. Rounding, the clamp at zero and currencies are arithmetic on the rows
and left out, and so is the cap on pages (a list is one read). One button walks at a time, which its lease ensures; crm-sync is
serial. A lost answer is the step followed by a failure. The embedded screen for
manual distribution appears as its effect, edits by hand.

### Allocation

State: `crm` (the stage of each document: open, paid, lost), `setting` (auto, ledger,
stage of a paid invoice; fixed within a run), `queue` and `run` (the jobs and the one
worker), `row`, `marked`, `told`, and histories of what was paid for whom.

`Gate`, `FetchPool`, `LookUp` read the portal; `Payments`, `Invoices`, `Items` and
`Excluded` say which documents the look-up returns, `Eligible`, `Distinct`, `Smallest`
and `Choice` are `resolveAllocation` (documents of the same amount and currency, a
payment only if its deal has no such invoice, the smallest id). `CheckApplied`, `Pay`, `WriteRow`,
`Mark`, `Tell` act. A run tells of at most five operations for which nothing was found
(`MAX_UNRESOLVED_NOTICES`, `handlers.ts:56`, 832), has no summary for the others, and the marker
silences them for good. The five are shared by all operations of a batch, whichever clients
they are of, so whether one is left for the operation in hand is a choice of `LookUp`, and
`hushed` remembers the operations whose last attempt met none. Employees pay, reopen and lose documents between any two calls.
The instance has two operations of one amount over two deals with a payment each, an
invoice and a deal, under all twelve settings.

Abstractions. The error chat is configured and the automation settings are readable, so an
operation with nothing found counts as "unresolved". Recognition of numbers in a purpose is a
constant; amounts are not
edited; elements of a smart process behave as deals; a tie of equal ids of two kinds
falls to a fixed one. Triggers, bindings and the registry are in `CrmSync`. A payment
that is not confirmed throws (`worker.ts:495-507`), so a row means that it landed.
`Die` gives the job out again as the same attempt.

### Unmatched

State: `known`, `mine`, `act` (the portal: payers' companies, our company, the owner
of the activity with the marker), `slot` (claims in Redis), `run` (for each job its
attempt: operations left, the one in hand, messages sent, what is kept for the
summary), and histories of who was heard and what went wrong.

`Look` is the gate and the look-ups, `Write` the activity and what follows at once: pass,
speak (with a claim, if there is no marker to silence the operation), or keep. `Send`,
`Close`, `ClaimKept`, `SendSummary` are the notices, `ClaimTwice` a claim whose answer was
lost and which the connection sends again (`connection.ts:43`): it finds its own slot and takes
the operation for told. `Fail`, `LoseAnswer`, `Die` the
ends of an attempt, `Enter`, `EnterMine`, `Delete` the administrator's. Two jobs may
overlap, as they do when a stalled worker lives on.

Abstractions. The error chat is configured. The slot is not timed: it runs out at any
moment at which no run is between a claim and its message, since three days are longer than that. What a summary lists is a set of operations. `Op` are operations that stay in the poll
window; one that has left it is not asked for again (`unmatchedNoticeClaim.ts:28-30`), so
`RecordedByItself` says nothing of a company entered after that.

### Portal

State: `auth` (the pair Bitrix24 would refresh), `ev`, `tries`, `queue` (the events and
their jobs), `row`, `tomb` (`portal_tokens`, the tombstone), `bank`, `connect` (the bank
connections of the portal), `proc` (processes inside `saveToken` or the purge), `ref`
(refreshers), and two histories: `excuse`, and `misjudged`, the pairs that were marked dead
because another pair, read before a refresh or a reinstallation, was refused.

A portal installs and removes the application in turn; an event is received
(`ReceiveInstall` refreshes the pair before it stores it, as `bindInstallMember` does;
`ReceiveUninstall` verifies by the stored token), queued or, without Redis, handled
at once (`FallBack`), retried with a delay (`Due`), applied statement by statement
(`CheckTomb`, `WriteRow`, `ClearTomb`; `EraseBank`, `EraseToken`). `Load`, `Post`,
`SavePair`, `MarkDead` refresh the pair; `Age`, `Select` are the reaper.

`excuse` names what may spoil the order of events: a job applied after a newer one was
stored ("overtaken": BullMQ's delay), a fallback beside the queue ("overlap"), a
refresh begun before a reinstallation and stored behind it ("clobbered"), the reaper's
tombstone, which carries the time of its run ("reaped").

Abstractions. Bitrix24 does not send an event again. Five stores the purge also
empties, the fleet's alarm, the limit of portals per reaper run, ONAPPUSERREADY and
the subscription mark are left out. A portal may be silent for as long as it likes: only a
`Caller`, the calls of crm-sync while a bank is polled, is ever made to look at it. The
keep-alive is a refresher that may come and need not. `MaxRot` bounds refreshes.

### Lease and Provision

`Lease`: `row` (whose the lease is, and the ticks left), `stage`, `timers`, `due`,
`missed`, `purged`. A unit of time is a renewal period, and `Tick` waits until each
timer has fired (`Renew`, or `Miss` if the statement fails). With a term of three periods
two missed renewals are enough to lose it, since the third coincides with the expiry;
the comments speak of three. The recomputation and the erasure run under the same code.

`Provision` extends it: `types`, `has`, `layout`, `personal` (the portal), `store` (the
settings blob), the locals of a run, and the form of the settings, which writes the
same blob without the lease (`ReadStored`, `KeepStoredSpIds`, `WriteForm`). A run is
`Load`, `List`, `Create`, `ListFields`, `AddField`, `ReadCard`, `SetCard`,
`ForceCommon`, `Reload`, `Save`; any call may fail before or after it took effect. The
option may stay or go when the application is reinstalled. The history `crossed` holds
the runs that were about to store the ids when the form's part changed: what they read
is old, and their one write may roll the form back.

Abstractions. Types renamed or deleted by hand, stored references that lack one of
their two numbers, and employees who choose a personal layout after ours.

### Polling

State: `day`, `evening` (the portals, in their zone, are in the next day for three hours
of UTC), `bank` (the day of each operation the bank shows), `fetch`, `crm` (the jobs
Redis holds, with the window or the content their id is made of), `created`, `erased`,
`eraser`, `cutoff`, `asked`.

`Poll` and `PollNow` queue a fetch per account and window, unless a job, waiting or
ended, holds its id (`EnqueueFetch`); `HandleFetch` reads the bank and hands a batch on,
whose id is made of its content and is freed only of a failed job (`EnqueueCrmSync`);
`HandleCrmSync` writes it; `SweepFetch` and `SweepCrm` evict ended jobs; `StartErase`, `ErasePortal`, `EraseFails` are the daily
clean-up. Operations appear late, connections are paused and resumed, jobs wait as long as
they like. `ThresholdDays` is the term of an activity: window and grace, at least
`MinDays`, at most `MaxTerm` (`AUTO_ERASE_MAX_DAYS` = 400).

Abstractions. A fetch fails in the bank's call only; the setting is on in every portal;
the limit of activities per portal appears as a partial deletion; a run of the clean-up
may come at any time (its daily lease and its first-days rule are left out), the
clean-up by hand too.

### Alerts

State: `broken`, `dark` (the world: troubles, sources that cannot be read), `announced`,
`awaiting` (what the process remembers), `opened`, `recovered` (messages of the check
in progress), `word`, `quiet`, `blurred` (history).

`Check` reads all sources and plans (`Opens`, `Pruned`), `Announce` and `Recover` send
one message each, which arrives, fails, or arrives with its answer lost; `Clock` is
the timer, `Restart` empties the memory. A unit of time is the five-minute period; the
floor of twelve periods is shrunk to three, the smallest at which it binds.

Abstractions. How a trouble is recognised (ages, counts) is whether it is there; a
stalled and a failing queue are one trouble; the order of messages of one check is
free; the channel is configured; the pulse of the workers is a source that is never
dark. A recovery that arrived with its answer lost and is followed by a new breakage
before the next check leaves that breakage unsaid: `blurred` exempts it.

## 3. The runs

Sizes are distinct states.

| Run | Instance | Shows |
|---|---|---|
| `crm_overlap` | a polled batch of two operations and an uploaded file with one of them, one target fades and one stays; both ledger types provisioned; 2 attempts, 2 failing calls (lost answers included), 1 death; 1.36 million | `OncePerOperation`, `DoneMeansRecorded`, `RegistryNotLost`, and that `CrmSync` implements `ImportOnce` |
| `crm_progress` | an uploaded file of two operations, delivered again once (so that a known operation is repaired), a portal without the ledger (so a trigger leaves no durable fact), 3 attempts, 2 failing calls, 1 death, fairness; 72 thousand | every job ends; fewer errors than attempts lose no operation; a trigger fires once, and once more only for each firing of it whose own answer was lost: a refusal, or an error of another call, adds nothing (`FiredOnce`) |
| `manual_uploads` | two uploads of one file, imported before or not; 1 fault, 1 death, fairness; 102 thousand | `WorkSurvives`, `EventuallyServed` |
| `bank_refresh` | a keyed grant and one without `grant_id`, two numbers, two callers, 3 pairs, 1 fault; 743 thousand (up to symmetry) | `SpendsCurrentToken`, `OnePairPerGrant`, `StoredPairIsLive`, `RejectedIsDead`, `NotRevived` |
| `bank_heals` | a keyed grant with up to two accounts, two callers, 2 pairs in good order, 1 fault, 1 death, fairness; 127 thousand | `HealsByKey` |
| `ledger_rest` | one target with an automatic row, a manual one and a trigger's fact; a button that walks one payment; 2 attempts, 2 runs of crm-sync, 1 edit, 1 fault, fairness; 207 thousand | `RestAccounted`, `HandledMeansFreed`, `ManualFreeFlagged`, `FreedStaysFreed`; pressing the button again and again puts right the rests it reaches (`RestSettles`), and no older ones (`ledger_walked` in section 5) |
| `allocation` | two operations, four documents, twelve settings, 2 attempts, 1 redelivery, 2 faults, 1 edit, notices left or not; 1.12 million | nothing is paid twice that nobody reopened (`PaidOnce`); an operation settles one document as long as its attempts see the same candidates (`OneTargetIfSeen`); the ledger tells of booked money (`LedgerTells`); a person hears when one is needed, but for lost messages and operations hushed by the limit of five (`PersonKnows`) |
| `unmatched` | two operations, two jobs, one message a run, 2 attempts, 1 fault, 1 edit, fairness; 885 thousand | `ToldOnce`, `NobodyUnheard`, `RecordedByItself` |
| `portal_life` | 3 events, 2 attempts, 2 refreshes a grant, 1 fault, a refresher that calls while the bank is polled, silence of any length, fairness; 1.23 million | credentials of a bank do not outlive the portal's row (`BankGoesFirst`); the newest event decides, but for the four named accidents (`NewestDecidesElse`); only a dead portal is reaped, but for misjudged pairs (`ErasedOnlyDead`), and a removed one keeps no credentials of a bank in the end (`RemovedIsErased`) |
| `provision_once` | one field per type, a term of 3 periods, 2 runs, 2 mishaps, 1 saved form, fairness; 199 thousand | `OwnsLease`, `NoTwins`, `Usable`, `BothPartsKept`, `PortalFreed` |
| `polling` | one account, 4 days, a window of one day and one more, a grace of two, a cap out of reach, 1 attempt, 1 fault, 1 request by hand, jobs left over at will, fairness; 1.22 million | `ErasedStaysErased`, `Delivered` |
| `alerts` | a queue, and the workers in their grace; a floor of 3 periods, 1 lost message, 1 restart, fairness; 892 thousand | `SaidOnce`, `LastWordIsTrue` |

Bounds. `MaxFaults`, `MaxCrashes`, `MaxRedeliveries` bound the environment, not the
code; the code's own limits are constants too: `MaxAttempts` (3 in
`connection.ts:51`; 2 where faults must be able to exhaust them), `MaxStalls` (1),
`DeferredAttempts` (8, shrunk to 2), `TriggerAttempts` (12, shrunk to 2),
`MaxDeferred` (`MAX_DEFERRED_WRITES_PER_RUN` = 25, shrunk to 1, so that the limit is
reached with two operations). Two operations suffice because the handler treats them
one after the other and shares between them only the counters of the run, the
postponed-write limit and `markerProven`; two jobs suffice because the worker is
serial and all that survives a job is in the portal and the retry queues. Two uploads
suffice because the initial state may already hold ended jobs of an earlier one. With
one file the concurrency limits of the workers never bind; the proofs cover any
number of files. The faults a job needs to exhaust its attempts fit in the bounds:
`crm_overlap` has two of each, `crm_progress` the redelivery.

In `BankToken`, `MaxPairs` bounds the pairs given to connections in good order; a
connection that needs healing may always get one. Three pairs let a call spend a token
that another has turned twice, two callers are enough for one to wait while the other
is at the bank, and two numbers give a grant two accounts. A death leaves the same
rows as a rollback, so `bank_refresh` has faults only and `bank_heals` both.

`Ledger`: one target is enough, since a clean-up touches the rows of one; three rows
give it all kinds of rows; of two payments the button walks one (`MaxWalked`, shrunk from 200). `Allocation`: the two payments of equal amount, the invoice
of one deal and the deal itself are the smallest set in which every rule of the
decision has something to choose; two faults exhaust the attempts. `Unmatched`: one message a run and two operations,
so that one is told and one kept. `Portal`: three events are an installation, a removal
and a reinstallation. `Provision`: a second field would only repeat `AddField`; the term
of three is the code's (`LEASE_RENEW_MS` is a third of the lease). `Polling`: four days let an operation be
imported, age beyond the threshold, be erased and be asked for again. The grace of two
days is tight: with one day the property fails, for a job left from yesterday's
window takes one day and the portals' calendar the other. A batch left over for two days
may be written behind the erasure; `ErasedStaysErased` names it (`TooLate`). One attempt and one
fault suffice, since an exhausted job and a waiting one are all that a failure leaves; the cap of 400 is
out of reach of any window up to 398 days, and `erase_capped` has one that it meets. `Alerts`: a queue and a source in its grace are the two
ways a source is read.

Deadlock is not checked where the system rests when no work is left.

Fairness. `CrmSync`: weak fairness of the batch worker and of each retry job's
worker. BullMQ hands a waiting job to an idle live worker, and a started handler
goes on to its next call; deaths and redeliveries are never forced. `ManualImport`: weak
fairness of a request once it has begun, strong fairness of each file's jobs. Strong,
because a waiting job is enabled only while a slot is free, and waiting jobs are
taken in order, so the contention of others cannot keep one out for ever. `BankToken`:
weak fairness of a call that has the lock (its steps are bounded by timeouts), strong
fairness of a call that waits for it (Postgres queues waiters), and of the keep-alive's
forced refresh of the row with the API key. It refreshes one row per grant, the oldest,
and of equals the one with the lowest id, which is the row the connection was made
with. A refused connection without an account it leaves alone, so `HealsByKey` speaks
of those with one. Its escape, that the keep-alive gives up for ever, is the
`lock_timeout`: fairness of the queue does not outlast a waiter that leaves it.
`Ledger`: a started run goes on to its next call or its error, jobs of the queue are
taken; nobody is made to press the button. `Unmatched`: a job goes on, and the cron
polls again; nobody is made to enter a company. `Portal`: jobs are taken, delays end,
processes go on, the reaper runs, and a mark grows old. A refresh that has begun goes on; a new one
begins for sure only while the portal has a bank, since the cron polls it and crm-sync calls the portal
for what it yields (`b24Sdk.ts:210-212`). The keep-alive, which selects a portal in three days of its
180 (`tokenKeepAlive.ts:56-68`), justifies no fairness: the row of a portal that was removed unseen and
has no bank may stay for ever, and `RemovedIsErased` speaks of the bank's credentials.
`Provision`: the clock, the renewals and a run's next call; a call that hangs for ever
would keep the lease renewed for ever. `Polling`: the ticks, the workers for the jobs
of the current window, the sweep of the fetch queue. `Alerts`: the clock, the check, and
the messages of a check under way.

## 4. The proofs

TLAPS checks the following for every value of the constants that satisfies the
named assumptions of each module (well-formed batches, roles within owned
operations, no operation both payable and ambiguous, natural bounds).

* `CrmSync_proof!TypeCorrect`, `OnceInvHolds`, `Once`: type correctness and
  `OncePerOperation`. At-most-once is not inductive: a step that pays says nothing
  of why nothing was paid before. `OnceInv` adds what each place of the handler may
  rely on. `StoredOnce` relates the portal's data of an operation (a marked one is
  paid and entered, no message precedes the marker), `StepOnce` gives for each `pc`
  what its guards established about the operation in hand (before the marker none
  is set, at `pay` nothing was paid, at `mark` there is an activity to mark).
  `IInv == TypeOK /\ OnceInv`; steps that leave the counted fields alone are handled
  together by the `Kept` lemmas, the counting steps one by one.
* `CrmSync_proof!DoneIsRecorded`, `RegistryIsKept`, `FiresOnce`, each on top of `IInv`.
  `DoneMeansRecorded` is about ended jobs; `DoneInv` says the same
  of the job in hand and the operations behind its index, and says it with `Recorded`, since a
  marker that is still being verified may yet be taken away. `RegistryInv` says from which place of the handler
  on an operation's element is written or pursued, and that no postponed write lets go of it
  earlier. `FireInv` counts the trigger together with the firing the retry queue still owes
  against one and the lost answers of that trigger.
* `CrmSync_proof!Implements`: with `Recorded(o)` (marked, and not while the
  marker is still being verified or undone) each step of `CrmSync` maps to one step
  of `ImportOnce` or to a stutter, given `IInv`.
* `ManualImport_proof!TypeCorrect`, `WorkIsKept`, `IdsAreFresh`: `WorkSurvives` is
  strengthened by `NoStaleId` (an id about to be added to is not held by a job that
  ended before the producer's look). Without it, `Add` could be a no-op on an ended
  job. One lemma per action.
* `BankToken_proof!TypeCorrect`, `StaysGone`: type correctness, and that a connection
  without accounts stays so, from typing alone: only `Connect` fills a grant that has
  no rows.
* `BankToken_proof!SpentOnce`, `OnePair`, `PairIsLive`, assuming `Patient`. The three
  properties hold one another up, and `TokenInv` adds what they need: rows stand under
  their own grant's provisional key or a number (`Placed`), a grant without `grant_id`
  has one row (`Single`), a call's account has not passed to another grant (`Held`,
  the only use of `Patient`), a call with a lock is alone with the grant whose lock it
  is (`Locked`), and an open update covers every row of its grant and carries the
  bank's pair (`Covered`), without which a commit could leave a sister account behind.
* `BankToken_proof!RefusedIsDead`, assuming `Patient`, on top of `TokenInv`: nobody holds
  a token the banks have not given out yet (`Minted`), an account marked after a step copies
  one marked before or its grant is dead (`MarksKept`), and for a grant the bank accepts
  what it accepted, nothing, or a token never seen before (`HeadsKept`).

* `Ledger_proof!TypeCorrect`, `LedgerHolds`, `RestIsAccounted`, `HandledIsFreed`,
  `ManualIsFlagged`, `FreedForGood`. `LedgerInv` is the three invariants the run checks
  and three more: `Placed` (what crm-sync holds in its hand lies where it belongs),
  `Cleaning` (what a clean-up has listed and not yet freed), `Flagging` (which payments
  it still has to flag). The invariants hold one another up: a rest is wrong only while
  somebody who owes its recomputation is in flight, and that is known only from the
  place where each of the three writers is.

* `Unmatched_proof!TypeCorrect`, `TellsOnce`, `NobodyIsUnheard`, for any finite number
  of jobs. `ToldOnce` is not inductive: a job between its claim and its message is not
  counted yet. `Counted` counts those too (messages said plus claims under way are at
  most the slot plus what Redis let through blindly); the number of jobs that hold a
  claim changes by one at a time, by the theorems on finite sets. `NobodyUnheard` needs
  only `Shape`, what an attempt holds at each stage: what a job has in its hand it still
  has behind its step, or has told, or has lost (`HandStays`).

* `Provision_proof!OwnerKeepsLease`, `TypeCorrect`, `TypesAreSingle`, `OkMeansUsable`,
  for any term and any fields. Every step of `Provision` is a step of `Lease`, or leaves
  the lease alone, so the lease is proved by itself first. `OwnsLease` is strengthened by
  the time a run has left: as long as it is neither lapsed nor purged it holds the row's
  token, its timer runs, and the ticks left on the row, with those it has missed and owes,
  reach the term. `NoTwins` needs what the one run inside knows of the portal's list of
  types (`TwinsInv`), and `Usable` what each place of the run has completed and what the
  stored ids name (`UsableInv`).

* `Provision_proof!PartsAreKept`. A form may be saved while runs work, so what a run
  has read may be older than the form. By `FormInv` a run that stands at its write holds the
  form's part as it is stored, unless it is in `crossed`; that a stored id is not replaced
  follows from `TwinsInv` and `UsableInv`. The proof showed that an
  earlier form of the property was false for three runs that overlap: a run that reads
  after one roll-back rolls back once more, which the two runs of `provision_once` cannot
  do. The code does that; the history was too narrow, and now names every run whose read
  the form has crossed.

* `Portal_proof!TypeCorrect`, `BankFirst`, `NewestWins`, `ReaperTakesTheDead`, for any
  number of events, attempts, refreshers and faults. `BankInv` adds to `BankGoesFirst`
  what holds between the two statements of a purge. The other two rest on `JobInv` (an
  event is in one place: the queue, a delay, or one process that does what it says).
  `OrderInv`: without an excuse the row stands exactly while no tombstone is newer than
  the newest stored installation, whatever was applied is older than one of the two, and a
  registration let through by the look-up is newer than the tombstone. `GrantInv` and
  `DeadInv`: every pair held anywhere was once Bitrix24's answer, of the
  present grant or an older one, and a mark of the reaper's age stands on a pair that no longer works or is misjudged. The last theorem assumes nothing about how often a portal calls; `portal_reaped`
  (section 5) shows that the exemption is needed.

* `Provision_proof!PollTypeCorrect`, `NoneComesBack`, about `Polling`, for any window, threshold, limits, portals and faults. What is erased was
  created, hence posted by the bank, at least window and grace ago (`DatedInv`, `CutoffInv`,
  `ErasedInv`); what a waiting job may write lies in its window (`ItemInv`), and that is
  of today or yesterday, or was asked for by a person (`WindowInv`). The two meet only in
  a day asked for, or in a batch so late that the grace has run out since the end of its
  window (`TooLate`). It assumes that the cap leaves room for window and grace (in the code a lookback of at
  most 398 days); without it the term is shorter than the window and the property is false
  (`erase_capped`). Nothing in the code drops a late job, so nothing is assumed of that.

* `Unmatched_proof!AlertTypeCorrect`, `EachIsSaidOnce`, about `Alerts`, for any queues, sources and floor. `EpisodeInv` ties the memory of the process to
  what the channel has heard, for every episode whose last word the process knows: it is
  as old as `announced` says, it is "down" exactly when the recovery is awaited, and what a
  check in progress has still to send does not repeat it.

* `Allocation_proof!TypeCorrect`, `PaysOnce`, `LedgerIsTrue`, `SettlesOne`,
  `NobodyIsLeftUntold`, for any documents and matches. `SafeInv`: what was paid or booked
  is still paid or an employee has reopened it, so the read before the payment and the
  look-up before the row exclude it (`Paying`, `Found`). `OneInv`: without a reopening the
  candidates of an operation only shrink (`Remembered`), so an attempt that still sees all
  that the settling one had found sees the same set and chooses the same document.
  `KnowInv`: the attempt that sets the marker is the only one that gets past it
  (`Ordered`), and its notice is about what it found, or `hushed` holds the operation (`Minding`).

In `CrmSync` and `ImportOnce` the proofs cover fading targets. The proofs
about `Alerts` and `Polling` stand in the second parts of `Unmatched_proof` and
`Provision_proof`; the names of these two modules begin with `Alert` and `Poll` where
they would meet those of their neighbours (`PollInit`, `AlertSpec`).

The type invariants of the component modules are theorems and no longer in the runs. So is
every other invariant and action property the runs check, and the refinement of
`ImportOnce`.

Model-checked only: the liveness properties `EventuallySettled`, `EventuallyRecorded`,
`EventuallyServed`, `HealsByKey`, `RestSettles`, `RemovedIsErased`, `PortalFreed`,
`Delivered`, `LastWordIsTrue` and `RecordedByItself`. Liveness under fairness needs
ENABLED and is out of the prover's reach. The configurations of section 5 refute the
properties they name and prove nothing.

## 5. Disagreements between the code and its comments

Each has a configuration of its own that TLC ends with a violation. They are run by
hand, with `tlc -workers 2 -config X.cfg MCmodule`.

| Configuration | Module | What it shows |
|---|---|---|
| `crm_gap` | `MCCrmSync` | An activity is created by one call and marked by another. A worker that dies in between leaves an unmarked one, and the next attempt creates a second. The comments call the deduplication atomic. |
| `crm_race` | `MCCrmSync` | A failed registry write is postponed to a job, and the same batch goes on to the ledger, which looks up and creates the element of the same operation: two elements. |
| `crm_unlinked` | `MCCrmSync` | A postponed registry write that ends before the activity exists leaves the binding to a "next run", which stops at the marker. |
| `crm_untriggered` | `MCCrmSync` | The look-up of a trigger's fact throws behind the marker: the retry stops at the marker, the trigger is neither fired nor queued. |
| `manual_stuck` | `MCManualImport` | The row is marked "queued" after the job is in the queue. A file whose parse ends first, without operations, stays "queued". |
| `manual_retracted` | `MCManualImport` | A comment says that crm-sync has no retries; it has three attempts, so a failure shown to the employee is taken back. |
| `bank_keyless` | `MCBankToken` | An account added to a connection copies its tokens and not its API key. When the account with the key goes, the others cannot be reissued, which the comments rule out. |
| `alloc_double`, `alloc_unbooked` | `MCAllocation` | An attempt pays and fails. The paid document is a candidate no more: with a second equal one the retry pays that (`OneTarget`), with none it says "unresolved" and writes no ledger row (`PaidIsBooked`). `handlers.ts:880-882` says that a redelivery "never re-pays (and it covers the pay-then-crash window)". |
| `unmatched_lost` | `Unmatched` | A recorded operation kept for the summary is stopped by its marker when its attempt fails: no message names it. `handlers.ts:1168-1170` says that the retry announces these operations again; that is true of the unrecorded ones. |
| `ledger_button` | `MCLedger` | The rows of a deleted target whose clean-up has failed for good stay active. `docs/PROCESSING.md:742-745` and `b24EventsHandler.ts:293-295` send the administrator to the button, which only recomputes the rests. |
| `ledger_walked` | `MCLedger` | The button recomputes the 200 newest payments, the same at each press; the rest of an older one is never put right. `docs/PROCESSING.md:1145` says that it recomputes all, `distributionLedgerWrite.ts:413` that it does so for every payment, as the way out of any drift. |
| `portal_stale` | `Portal` | An installation's job that fails is retried after the removal or reinstallation that followed it. `docs/QUEUES.md:293-294` and `docs/B24_EVENTS.md:155-159` count on the order of the events. |
| `portal_reaped` | `Portal` | An SDK client refreshes without the lock (`b24Sdk.ts:620`); the loser of a race marks the grant dead behind the winner's new pair, and a portal that stays idle for the reaper's term is erased with a working pair. `portalReaperRun.ts:4-5`: the point is not to touch a live one. |
| `provision_card` | `Provision` | The common layout is set and the call that extends it to everybody fails (`distributionSpProvision.ts:226`). The next run finds the layout in place and skips the call, though the screen says to repeat the set-up later (`useProvisionDistribution.ts:75`). |
| `erase_starved` | `MCPolling` | The clean-up visits the first fifty portals by `member_id`, each time the same. `importResultStore.ts:174-175` says that the rest must come in the next run. |
| `erase_capped` | `MCPolling` | The term of an activity is capped at 400 days and the window of the poll is not: with a lookback above 398 days what is erased is imported again. `autoEraseActivities.ts:19-24`, 53 say that this cannot happen "по построению": the threshold is derived from the window. |
| `alert_false` | `Alerts` | A check that could not read a source has no alert for it and says that the trouble is over. `queueAlertDeliver.ts:69` speaks of problems that "are now gone". |

## 6. What is not modelled

* Parsers and the matching of purposes: pure functions of a text, whose results are
  constants or choices here.
* Connecting a bank by OAuth or by key (`utils/bankConnect*.ts`): `BankToken` has what
  it stores (`Connect`, `ChooseAccount`, `AddAccount`), `Portal` its callback; the states
  of the authorization itself are request validation.
* The keep-alive's choice of rows and its timetable; it appears as fairness. The
  timetables of the other scheduled runs.
* The feedback outbox, which retries one POST.
* Encryption, sessions and request validation; the wording of messages; metrics, logs
  and telemetry (their errors are swallowed and no decision reads them); the user
  interface; scripts and deployment. They make up most of the repository's lines.
* Of the modelled parts, what each section above lists under "Abstractions".

Hazards without a property either go wrong in the code, and the note names the
configuration of section 5, or are exempted by name in a property.

## 7. The plan

1. Lemmas towards the liveness properties that need no fairness: what each step brings
   nearer, and that nothing takes it back.
2. An abstract specification of `Portal` ("the newest event decides") with its
   refinement, in place of `NewestDecidesElse`.
3. The feedback outbox and the connection of a bank.
