# TakSklad in TLA+

TakSklad runs a warehouse that ships marked goods. Orders are imported from Excel
files and from Smartup, operators scan the marking code (KIZ) of every block,
completed orders are reported and may come back as returns, and for orders and
returns requests are created in the external SkladBot system. This directory models
the parts of it in which the order of events matters, checks them with TLC and proves
the most important results with TLAPS. Paths are relative to the root of the
repository.

## 1. The system

Desktop and browser send scans and completions to the backend over HTTP. The backend
commits scans, movements and queue rows to PostgreSQL in one transaction; worker
processes serve the queue rows and talk to SkladBot, Smartup and Telegram. The only
shared state is the database and, on a workstation, an SQLite file or IndexedDB.

| Component | State | Operations | Hard because | Correct when | Module |
|---|---|---|---|---|---|
| KIZ and order lifecycle: `backend/app/orders_service.py`, `order_actions_service.py`, `kiz_movements_service.py`, `order_locking.py` | order and item status, counters, scan rows, movement history, payload flags | scan, undo, complete, complete without KIZ, return, archive, cancel, delete, restore, reset, release of a busy code | three records of one fact; `release_kiz` commits three times and reads without a lock | a code has one holder, a busy code can be freed, counters match rows, closed orders stay closed and covered | `KizLifecycle` |
| SkladBot return requests: `skladbot_return_requests.py` | queue row with payload, link in the order, the remote list | queue, claim, POST, look-up by id, readback, repost, manual review, stale reset, manual retry | POST without idempotency key, timeouts, crashes, truncated lists | at most one request per order, none lost track of, right links, every row settles | `SkladBotReturnCreate` |
| SkladBot requests of orders and their synchronisation: `skladbot_request_dry_run.py`, `skladbot_worker.py` | payload of orders, queue rows, the remote list | create, look up, match by content, link | two writers of whole payloads; lost answers; orders with the same content | as above, and a link that is overwritten comes back | `SkladBotCreate` |
| Event queue and leases: `event_leases.py`, `event_lease_recovery.py`, `event_queue_service.py`, `outbox_service.py` | `pending_events` | claim, finalize, expire, recover | leases that run out under a living worker, claims lost in a crash | one holder decides, nothing completed undone, every row ends | `EventLeases`, `LeasedQueue` |
| Smartup import and fulfilment saga: `smartup_auto_import.py`, `smartup_saga.py` | fulfilments and their events, slots, deliveries, the report | sweep, export, import, read-back, write, queue, file, report | crashes between external steps, late and lost writes, two processes | every write proved, no file twice, every saga finished | `SmartupSaga` |
| Imports: `imports_service.py`, `excel_importer.py` | orders, positions, import jobs | read, create, merge | concurrent imports; a merge raises the plan of a position being scanned | every row counted once, plans add up, one order per key | `Imports` |
| Transfer KIZ delivery: `transfer_kiz_service.py`, `telegram_transfer_kiz_processor.py` | queue rows, files, alerts | check completion, deliver, alert | scans, undos and releases go on meanwhile; failures around the sending | a complete file is sent once, an undo is alerted | `TransferKizDelivery` |
| Desktop scan queue: `src/taksklad/backend_events.py`, `storage.py`, `app_scanning.py`, `app_data_loading.py`, `app_finish.py`, `backend_flow.py` | queue and record of refused events in SQLite, screen, registry of delivered codes | scan, undo, pass, save, finish, refresh | screen, passes and backend interleave; connection and program break | no scan lost, no undone scan resurrected, what is shown as saved is saved | `DesktopQueue` |
| Browser offline queue: `frontend/src/features/warehouse/offline`, `WarehousePanel.tsx` | queue in IndexedDB, lock between tabs | scan, undo, replay, dismiss | tabs, reloads, late requests | no scan lost, the queue drains | `OfflineQueue` |
| Return approval: `return_approval.py`, `orders_service.py` | flags in the payload of the order | request, approve, reject, withdraw | unlocked read-modify-write | one decision counts | - |
| Identities, sessions, pairing: `auth_identities.py`, `device_pairing_service.py`, `principal_handoff.py` | identities, pairings | pair, confirm, hand over | multi-step protocols | one device per pairing | - |
| Telegram: `telegram_*.py` | queue rows | deliver | retries | see the event queue | - |
| Logistics, client points, reports, administration, health | read models | read, edit one row | nothing over time | - | - |
| Desktop user interface, printing, self-update; browser panels; deployment, tools | - | - | mostly presentation | - | - |

## 2. Modules

    KizRegistry              what the warehouse is promised about a code (abstract)
      ^ implemented by
    KizLifecycle             orders, scans, movements, release_kiz
      KizLifecycleProofs
    LeasedQueue              what the event queue promises its consumers (abstract)
      ^ implemented by
    EventLeases              pending_events with leases, its two kinds of consumers
      EventLeasesProofs
    CallOnce                 what a call without a key of idempotency promises (abstract)
      ^ implemented by
    SkladBotReturnCreate     the queue row of a returned order, worker, SkladBot, administrator
      SkladBotReturnCreateProofs
    SkladBotCreate           create worker and synchronisation on the payload of orders
      SkladBotCreateProofs
    SmartupSaga              the Smartup worker, its slots, sagas, files and report
      SmartupSagaProofs
    TransferKizDelivery      completion checks and deliveries next to the warehouse
      TransferKizDeliveryProofs
    Imports                  concurrent imports next to the warehouse
      ImportsProofs
    DesktopQueue             the queue of a workstation, its passes, the screen, the backend as it answers
    OfflineQueue             the queue of the browser panel, its tabs, the server as it answers
    QueueOps                 filtering a queue, used by both
      QueueProofs            theorems about both

Every `X` has an `MCX` with the model values of its instances. In all modules one
action is one committed transaction, or one exchange with another system, or one
step of a program between two points where others may run; a request that is refused
without a trace is a stutter. A crash drops the local variables of a process and
keeps what was committed.

### KizLifecycle

Every writer except `release_kiz` locks the whole order graph (`order_locking.py`)
from its first read to its commit, so it is atomic.

| Variable | In the code |
|---|---|
| `orderStatus`, `itemStatus`, `scannedBlocks` | columns of `orders` and `order_items` |
| `withoutKiz`, `returnStatus`, `releasedBlocks` | `completed_without_kiz`, `return_status`, `kiz_released_blocks` in the payloads |
| `scans`, `latest` | `scan_codes`; the latest row of `kiz_movements` of a code |
| `release` | the local variables of running `release_kiz` requests |

`release_kiz` is a process: it reads the donor and reopens it (`ReleaseReopen`, a
commit), undoes the scan (`ReleaseUndo`, a commit, or `ReleaseUndoRefused`), reads the
rows again in its `finally` block (`ReleaseReadBack`) and commits (`ReleaseSettle`).
The ORM writes a column only if it differs from what was read, so the read decides
what the commit writes. `ReleaseDies` is the death of the process, or an aborted
transaction that makes the `finally` block fail as well. For a donor that is still
open the first read and the undo are one transaction (`ReleaseUndoOpen`).

Two switches separate what holds always from what needs an assumption:

- `Overlap`: may other requests commit on the donor between the commits of a release?
  Nothing in the code forbids it. With two releases of one order, or a return inside
  a release, `SingleHolder`, `ClosedOrderIsCovered` and the refinement can break, so
  they are checked and proved for `Overlap = FALSE`; `BusyCodeHasScan` and
  `CountersMatchScans` hold with `Overlap = TRUE`.
- `Faults`: may a release die between its commits?

`KizRegistry` is the abstract specification: a set of bindings and the type of the
last movement; ship a free code, or take bindings back for one reason.
`RegistryImplemented` maps `bindings` to the scans of orders that are not returned
(a return leaves the rows) and `history` to the movement types.

### CallOnce

Four parts of the system call a service that cannot tell a repeated call from a new
one, and each has its own way not to make the call twice. `CallOnce` is what they have
in common: a mark is committed before the call (`Mark`), the call has one effect at most
and only under its mark, at any time (`TakeEffect`), what is recorded as done was done
(`Record`), and a mark is taken back only while there is no effect (`Withdraw`). The
effect may come after the program stopped waiting and died, which is why the mark has to
stay.

| Component | Call | Mark | Effect | Recorded |
|---|---|---|---|---|
| `SkladBotReturnCreate` | POST for a return | `post_state` after "started", or the link; taken back by a 429, or by a complete list without the request | requests made for the order | link in the order |
| `SkladBotCreate` | POST for an order | a `post_state` after a POST ("failed" included, for it is final), or the id in the event; taken back by a 429 | request made for the order | id in the event |
| `SmartupSaga` | the file of a slot | row of the delivery, never taken back | file the client got | row is "completed" |
| `TransferKizDelivery` | the file of a delivery | `delivery_started`, never taken back | message sent | row is "completed" |

### SkladBotReturnCreate

`payload.post` is `post_state` of the row; "started" is committed before the POST,
"response_received" with the id before anything else. `Send` has three outcomes: the
request is created, refused, or still on its way (`flying`) when the worker stops
waiting. A sent POST can be answered, answered without an id, refused, or time out; or
SkladBot executes it and its answer cannot be read (`Unreadable`), which
`classify_skladbot_create_exception` takes for a refusal, so a row that is "rejected" may
have a request and is never posted again. `ListRequests` returns any part of the requests
with an equal body, all of them if the list is complete and `SoundDetails`: the readback
skips a listed request whose detail is malformed or has another id and still takes the
list for complete (`skladbot_return_requests.py:1049`), after which it may post again. `Crash` loses the worker, `StaleReset` gives its row back. A handler
that raises leaves the row "failed", which is claimed again like a row reset: the same
steps as `Crash` and `StaleReset`.

Assumptions, each from the deployment or the code: leases are off; one worker process
(`deploy/vds/docker-compose.yml`); no exchange of a live worker lasts ten minutes, so
`StaleReset` only meets dead workers; SkladBot has executed or dropped a timed-out
POST by the time the list is read (five minutes later; `o \notin flying` in
`ListRequests`); SkladBot shows every listed request under its own id (`SoundDetails`;
if it does not, the code goes on all the same, section 4). `AdminRace` says whether anything may commit between the read and the
write of an administrator's retry; the code does not lock the row (section 4).

### SkladBotCreate

The create worker (`Claim` to `RecordResponse`, `StartLookUp`, `ReadDetail`, `Block`)
and two synchronisations, that of the worker cycle and one the API starts, all of
which write the whole `raw_payload` of an order. A synchronisation is three steps,
because it fetches the requests before its transaction, and reads the orders in it
before it writes them: `SyncFetch`, `SyncRead`, `SyncApply`. What it read may be stale
when it writes, and the write then erases a link (`Written`). `order` is status and
link in `raw_payload`, `event` the row that creates the request, `remote` and `flying`
as above. A POST may be executed and its answer be unreadable (`PostUnreadable`): the
code calls that a confirmed failure, the order is blocked, and no second POST follows.
`FromFile` are the orders committed together with their event; the others
get it later (`Queue`), and until then the synchronisation may link them to any
request with the same content.

### EventLeases and LeasedQueue

The queue with `TAKSKLAD_EVENT_LEASES_ENABLED=1`, which is off by default: the mode
the code is prepared for. Two kinds of consumers share it, those that claim one row
and check the lease again before they record (notifications), and those that claim a
batch and take the lease from the row when they finalize (SkladBot requests). `row` is
`pending_events`; `before` is what the disk has of rows whose claim is committed
asynchronously and not flushed (`WalFlush`, `DatabaseCrash`); `worker` the locals of a
process. `Expire` lets a lease run out, also under a living worker; `ResetStale` takes
back rows without a live lease; `Deploy` is `deploy_from_git.sh`, which stops the writers and runs
`app.event_lease_recovery`.

`LeasedQueue` is what `docs/event-queue-lifecycle.md` promises: one holder, only the
holder decides, nothing that ended is handed out again. The rows of notifications
implement it (`LeasesImplemented`); the rows of SkladBot requests do not (section 4),
for them `PostedOnce` states what is left.

### SmartupSaga

One export day in the production mode `enforced`. The processes run passes: the sweep
of recoverable sagas (`Sweep`), or a slot (`ClaimSlot`, `Recover`, `ExportOrders`,
`ImportDeal`, `PrepareDealSagas`); both then read back what is unproved, read the
deals before they write, write, record, queue the SkladBot request, and a slot sends
its file. `ClaimReport` to `PostReport` is the logistics report. `saga[d]` is the row
of `smartup_fulfillments` with its event; `unread`, `back` and `file` are history. The
environment: deals appear, leave for other statuses (`MayLeave`), and are put back to the
source status by a manager, once each (`PutBack`, `MayReturn`), after which the next slot
exports them again; an order comes by a file of the chat before a slot imports it
(`ChatOrder`, `MayChat`); a write is answered in full or in part, or not answered and
executed later (`flying`, `WriteArrives`); SkladBot creates or is unsure. A deal whose
order has a create event is a `Duplicate`: `create_delivery_group_imports` skips it, its
status is not written, and it stays in the file of the slot, which was made of all
exported orders before. `file` therefore records the deals of a file and those that were
imported. `MaxFaults` bounds crashes, lost answers and refusals.

### Imports

An import is one transaction with advisory locks on the identities its rows name
(`Locks`), not on the orders: it reads the active orders of the candidate keys and
the positions of its rows (`Begin`), works on the session's copy, one row at a step
(`NextRow`), and writes the columns it changed (`Commit`). `session` is that copy; the
warehouse scans, completes and returns between the read and the commit. `counted` is history: which rows of which uploads a
position was given. The address of a row comes from the geocoder when a file has only
coordinates, so the same file may be parsed with several (`Addresses`).

### TransferKizDelivery

One imported file, its positions spread over orders (`Orders`). The API scans, undoes
(two steps: it reads the deliveries before it commits; the rows of the order are
`Locked` in between) and releases in the commits of `release_kiz` (`Reopen`, the undo,
`FinishRelease` or `DropRelease`). Administrators complete an order, close it without KIZ,
archive or cancel it, restore it, and reset it for another scan (`MayAct`). `Ready` is
what `incomplete_kiz_items` counts: a position is covered by its scan or by a released
block, or needs none (`Excused`: archived, cancelled, or closed without KIZ and still
closed; the flag alone stays when the order is opened again and excuses nothing). A file
notes what a position had when it was built: a code, nothing, or that it needed none
(`Waived`). A reset removes the scans without an alert, as the code does. The one thread of the Telegram worker
(`docker-compose.yml` runs one container with one loop) checks (`ClaimCheck`,
`ReadCheck`, `CommitCheck`) and delivers (`ClaimDelivery`, `Prepare`, `StartDelivery`,
`Send`, `FinishDelivery`). `FailCheck`, `FailPreSend`, `FailSend`, `Die` are its
failures; `RecoverCheck` and `RecoverDelivery` the resets at the start of its cycle.
`Resend` is a delivery put by hand. `racing` and `reset` are history: scans undone while a
delivery was being built or sent, and scans removed by a reset. Left out: the deletion of
an order and its removal from the sheet, returned orders (they behave like completed ones,
but cannot be reset), boxes, and repeated requests of
the administrators, which change nothing.

### DesktopQueue

The screen of one position, the queue in SQLite, and the backend reduced to what it
answers for this position. The screen thread makes `Scan`, `Undo...`, `StartSave`,
`TakeNotice`, `RefreshApply`; a pass is `StartPass`, then `Send` and `Answer` for each
event of its copy of the queue, `Reconcile` and `Record`. One pass runs at a time; a
pass of the timer or of a refresh gives way to one the operator waits for
(`Preempted`). `Send` may fail with or without effect ("network" ends the pass,
"server" does not). Saving a position is the process `save`, completing the order
the process `finish`. `Restart` loses everything but the queue, the marks on its
events and the record of refused events.

| Variable | In the code |
|---|---|
| `queue`, `serverError`, `refused` | `pending_backend_events`, `last_error_kind`, `blocked_backend_events` |
| `saved`, `unsaved`, `existing` | `scanned_codes` below and above `saved_codes_count`; `_existing_scanned_codes` |
| `delivered` | `_DELIVERED_SCAN_KEYS` |
| `pass`, `save`, `finish` | locals of `_run_backend_sync_pass`, `next_product`, `complete_work` |
| `notice`, `remote` | results that wait for the screen thread |
| `accepted`, `takenBack`, `again`, `undoTried`, `turns` | history, for the properties and the bound |

Left out: the duplicate check of the screen (any code not on the screen may be
scanned, which allows more than the code does), other positions of the order, a
saved position that is opened again, the round trip of an undo (one step), and requests
that time out and are executed later: a lost request takes effect at once or never, an
undo above all. `TakeNotice` takes a refused code off the screen, but does not shift the
boundary `saved_codes_count` when the code was above or below it
(`apply_backend_blocked_scan_events`, `app_scanning.py:142`).

### OfflineQueue

Tabs that show one position and share the queue in IndexedDB. `pending` and `blocked`
are the stores, `stored` and `completed` the server; `view` and `shown` are what a tab
last read of queue and server, `live` what its operator waits for, `replay` its pass. A scan is queued when its request
fails; a replay holds the Web Lock if the browser has one (`WebLocks`), sends in order,
and gives up after `MaxConsecutiveFailures`. The API client aborts a request on a
timeout (`frontend/src/api/core.ts`), and the server may execute it later, a scan
(`Arrive`) or an undo (`ArriveUndo`): `flying`. Requests for a code of another position
are refused whenever they come, so they are not kept there. `blocked` holds the newest
`BlockedLimit` refused scans (500 in the code, `queueStore.ts:27`), and `Refuse` pushes
out the oldest. `Reload` loses what a tab holds in memory. `wanted`, `evicted` and
`crossed` are history. What an undo that got no answer did is open, so its code is no
longer wanted (`UndoLost`).

## 3. Runs

| Run | Instance | Shows |
|---|---|---|
| `kiz_serial` | 2 orders of 1 item (plan 2 and 1), 2 unit codes and a box of 2, 1 release, 2 released blocks per item, no overlap, releases that may die | `SingleHolder`, `RegistryInv` (the inductive invariant), `ClosedOrderHasNoOpenItem`, `ClosedOrderIsCovered`, `RegistryImplemented` |
| `kiz_concurrent` | 1 order, 2 codes, 2 releases, overlap and faults | `BusyCodeHasScan`, `CountersMatchScans` |
| `return_create` | 2 orders with distinct bodies, 1 worker, 2 requests, 2 tries of each kind, 1 repost, readable details | `AtMostOneRequest`, `ReturnIsOneCall` (refinement), `CompletedIsLinked`, and `Settles` |
| `skladbot_create` | 2 orders of equal content, one of them imported with its event, 3 faults | `AtMostOneRequest`, `CreateIsOneCall` (refinement), `LinkIsOwn`, and `StaysLinked`, `Settles` |
| `event_leases` | a notification and a create event, 2 processes, 5 owners, 2 faults | `CompletedIsSent`, `PostedOnce`, `LeasesImplemented` (refinement), and `Ends` |
| `smartup_saga` | 1 worker, 2 deals (one may leave, one may be put back), 2 slots, 1 fault | `NoBlindWrite`, `FileIsOneCall` (refinement), `FileIsConfirmed`, and `SagaIsFinished` |
| `smartup_rerun` | a run-once next to the worker, 1 deal that may leave and whose order may come by the chat, 2 slots, 2 faults | `ConfirmedIsWritten`, `CompletedSlotIsCovered` |
| `transfer_kiz` | 2 orders of 1 position, one of them with a release and administrators, 2 scans, 2 deliveries, 2 attempts before the sending, 1 fault | `DeliveryIsOneCall` (refinement), `SentIsComplete`, `UndoneIsAlerted`, and `DeliveryEnds`, `ReadyIsQueued` |
| `imports` | 4 uploads of 5 rows and 3 deal keys, 2 importers, 1 address | `RowCountedOnce`, `PlanIsSumOfRows`, `OneActiveOrderPerKey`, `DealsKeptApart` |
| `imports_repeat` | one file uploaded twice, 2 addresses | `RowCountedOnce` is violated: section 4 |
| `desktop_queue` | 2 codes, plan 2, at most 2 turns | `NothingLost`, `NotResurrected`, `SavedIsOnServer` |
| `offline_queue` | 2 tabs, 3 codes, two of another position, one of which may always fail, plan 1, 2 failures in a row, 1 refused scan kept, 2 scans, 1 fault | `NoScanLost`, and `Drains` |

The properties after "and" are liveness. Types are proved (section 5).

### Bounds

- `kiz_*`: `MaxReleased` caps the counter of released blocks; two blocks allow a box,
  or two releases of units, from one item. Two orders and three codes are enough for a
  code to move from one order to another and back, and for a box to compete with units.
- `return_create`: one request per order, so a second request of an order is reached by
  taking the other's. Counters of retries are bounded by the limits of the code, set to
  small values; `attempts` is cut at 2, for the code asks only whether it exceeds 1.
- `skladbot_create`: two orders of one client with the same products, because the match
  of the synchronisation cannot tell their requests apart. Three faults allow a POST
  that is lost, a synchronisation of the API over it, and a crash.
- `event_leases`: two owners per process, because one works on after its lease ran out
  while another holds the row, and one more that a crash left behind.
- `smartup_*`: two slots, so that a deal left by one is found by the next; a second
  deal, so that a batch has a part that succeeds, and a skipped one a file next to it.
- `transfer_kiz`: a second scan per position is reached by undoing one of two; a second
  delivery, so that a late alert could name the wrong one. Two orders, so that one is
  closed or reset while the other keeps the file open.
- `imports`: the files share a row, repeat one (`e2`), are uploaded twice (`e1`, `e4`);
  two rows of one product merge, and three keys (no deal and two deals) meet.
- `desktop_queue`: `MaxTurns` bounds undos, refreshes, restarts and codes taken
  elsewhere together; scans, passes, lost answers and saves are not bounded. Plan 2
  lets a pass have a tail behind a broken connection.
- `offline_queue`: fewer scans that always fail (`Poisoned`) than the limit of failures
  in a row, which is when the queue must drain. Two codes are refused and one is kept, so
  that the limit is met; one lost request is a late scan, a late undo, a lost answer or a
  reload.

Deadlock is not checked: an order may be deleted, a row settled, a queue empty with
nothing left to do. Symmetry is used only for interchangeable codes, releases and
importers, in runs without liveness.

### Fairness

- `SkladBotReturnCreate`: worker, claim, clock, stale reset and the delayed POST make
  progress, because the worker is a loop restarted by Docker; crashes, 429 answers and
  retries by an administrator do not go on for ever. Without the last assumption a row
  can be retried without end, as the code sets no limit to 429.
- `SkladBotCreate`: the worker runs one cycle after another, and with them its
  synchronisation; strong, because another transaction's lock can disable a step again
  and again. One of its fetches sees all requests in the end: they stay in the window
  of the fetch for days. Nothing is assumed of POSTs that timed out, nor of
  synchronisations the API starts.
- `EventLeases`: a step of a running process happens; leases run out; strong for the
  claims, because a claim may be disabled by the other process in between. Faults are
  bounded by `MaxFaults`.
- `SmartupSaga`: a pass goes on; a deal that stays recoverable is swept (the worker runs
  its cycle for ever, and a backoff is a deadline). Nothing is assumed of the day, the
  slots, or of Smartup.
- `TransferKizDelivery`: the worker's loop goes on, and an undo that began commits.
- `OfflineQueue`: a pass that may start does (the interval of the hook), and gets the
  lock of the tabs in the end (strong: the browser grants it in turn). No step of an
  operator is fair.

Faults, late requests and operators' steps are never fair: nothing has to happen for
the system to make progress but its own steps.

## 4. Findings and counterexamples

`imports_repeat` is a listed run with its finding in `PROJECT.json`: a file that is
uploaded again is counted again in part when the geocoder gives it another address,
because a merged row is looked for only in the orders of the new address.

The configurations below are no runs of the list, but TLC finds each property violated
in a few seconds (`tlc -config X.cfg MC...`, with `-continue` where a configuration has two
properties). They are why the checked properties have
the exceptions and assumptions they have.

| Configuration, property | What the counterexample shows |
|---|---|
| `KizOpenGap`, `OpenGapIsIncomplete` | `release_kiz` counts a block taken from an *open* order as deliberately released from a closed one (`orders_service.py:398`, against the docstring at `kiz_reports_service.py:310`); the item then counts as complete in the KIZ report. |
| `KizReleaseFault`, `StatusAlwaysRestored` | A release that dies between its commits leaves the closed donor open (`orders_service.py:377`). |
| `ReturnSharedLink`, `RequestLinkedOnce` | Two returns with equal bodies are linked to one request: the readback asks for the links of other orders, not for the answers other rows already hold (`skladbot_return_requests.py:934`). |
| `ReturnAdminRetry`, `AtMostOneRequest` | A manual retry writes back the payload it read without a lock and erases the trace of a POST: the order gets a second request (`event_queue_service.py:229`). |
| `ReturnBadAnswers`, `AtMostOneRequest`, `RejectedHasNoRequest` | A readback skips a listed request whose detail is malformed and takes the list for complete, and posts a second time (`skladbot_return_requests.py:1049`, `1001`). A POST whose answer has no readable body counts as rejected although the request exists (`skladbot_client.py:465`, `skladbot_request_dry_run.py:1497`). |
| `ReturnRepost`, `NoPostAfterUnknownOutcome` | `docs/runbook/SMARTUP_SAGA_RUNBOOK.md:73` forbids look-up in a list and repeated POST; the code does both, with a proof of absence (`skladbot_return_requests.py:1001`). The document is behind the code. |
| `SkladBotCreateTwins`, `RequestLinkedOnce` | The synchronisation links an order without an event to the request of another with the same content (`skladbot_worker.py:564`, `skladbot_contracts.py:511`, against `docs/report-source-rules.md:26`). |
| `EventLeasesOvertaken`, `OnlyHolderDecides` | A create worker takes the owner to compare from the row (`skladbot_request_dry_run.py:2392`, likewise `skladbot_return_requests.py:1408`), so a worker whose lease another has taken decides for it (`docs/event-queue-lifecycle.md:23`). Leases are off today. |
| `SmartupCreate`, `CreateIsConfirmed` | A batch without errors counts as written for all of its deals (`status_change_successful_deal_ids`, `smartup_auto_import.py:395`), and a read-back that failed for one does not stop its request (`docs/runbook/SMARTUP_SAGA_RUNBOOK.md:38`). |
| `SmartupLostFile`, `ReportFollowsFiles` | A slot dies before it sends its file; its retry finds no orders and completes the slot, and the report of the day goes out without the file (`smartup_auto_import.py:1281`). |
| `TransferKizUndo`, `DeliveredUndoAlerted` | An undo that runs while the file is being built and sent raises no alert (`transfer_kiz_service.py:138`), nor does the reset of an order (`order_actions_service.py:216`). |
| `ImportsScan`, `CompletedIsScanned` | A merge decides from the status it read before a scan committed: a position stays completed below its new plan (`imports_service.py:938`). |
| `ImportsReturn`, `ReturnedGetsNoRows` | Likewise rows are merged into an order that has been returned in between. |
| `DesktopUndo`, `UndoneIsFreed` | An undo on the desktop of a code that a pass in the background delivered, or is about to send, does not reach the backend; the code stays busy (`app_scanning.py:440`). |
| `DesktopRescan`, `NothingLostEver` | A code undone on the backend and scanned again while a pass still holds its first event is dropped from the queue, because the identifier of the event is the same (`storage.py:291`). |
| `OfflineQueueUndo`, `UndoneNeverReachedServer` | `WarehousePanel.tsx:332` tells the operator that a scan taken from the queue did not go to the server; a pass may have sent it. |
| `OfflineQueueUndo`, `NoScanLostEver` | In the browser as on the desktop: a code scanned again under a pass is removed with the answer to its first request (`replay.ts:110`), and a late undo takes back a code that was acknowledged again. |

## 5. Proofs

All theorems hold for every value of the constants that satisfies the named assumptions
of the module; further assumptions stand in the theorem.

| Module, theorem | Says | Argument |
|---|---|---|
| `KizLifecycleProofs`: `TypeCorrect` | `Spec => []TypeOK` | inductive as it stands |
| `BusyCodesFreeable` | `Spec => []BusyCodeHasScan` | inductive with `TypeOK`: whoever removes a scan row writes a free movement for its code in the same transaction; holds with overlap and faults |
| `CountersCorrect` | `Spec => []CountersMatchScans` | inductive with `TypeOK` and the sum property of `BlocksIn`: an insertion adds, a removal recounts; holds with overlap and faults |
| `RegistryInvariant` | no overlap: `Spec => []RegistryInv` | inductive |
| `OneHolder` | no overlap: `Spec => []SingleHolder` | from `RegistryInv` |
| `ImplementsRegistry` | no overlap: `Spec => RegistryImplemented` | step simulation under `RegistryInv` |
| `ClosedOrdersStayClosed`, `ClosedOrdersAreCovered` | no overlap: `ClosedOrderHasNoOpenItem`, `ClosedOrderIsCovered` are invariants, wherever releases die | from `ClosedInv`, with `TypeOK` and `CountersMatchScans` |
| `SkladBotReturnCreateProofs`: `TypeCorrect` | `Spec => []TypeOK`, whatever an administrator overwrites | from `Base` |
| `OneRequest`, `RequestIsTraced`, `CompletedHasLink` | no race of an administrator, distinct bodies, `SoundDetails`: `AtMostOneRequest`, `UnlinkedRequestIsTraced`, `CompletedIsLinked` are invariants | from `Base /\ Safe` |
| `ReturnCallsOnce` | under the same: `Spec => ReturnIsOneCall` | step simulation under `Base /\ Safe` |
| `SkladBotCreateProofs`: `TypeCorrect` | `Spec => []TypeOK` | from `Inv` |
| `OneRequest`, `RequestIsTraced`, `LinksAreOwn` | `AtMostOneRequest`, `UnlinkedRequestIsTraced`, `LinkIsOwn` are invariants | from `Inv` |
| `CreateCallsOnce` | `Spec => CreateIsOneCall` | step simulation under `Inv` and `Answered` |
| `TransferKizDeliveryProofs`: `TypeCorrect` | `Spec => []TypeOK` | from `Typing` |
| `FileSentOnce` | `Spec => []SentOnce` | `Marks` |
| `DeliveryCallsOnce` | `Spec => DeliveryIsOneCall` | step simulation under `Marks`, `RowHeld`, `Carried`, `SentIsPosted` |
| `SentFileIsComplete` | `Spec => []SentIsComplete`, next to all actions of administrators | `Carried`, with `Marks` |
| `DeliveredUndoIsAlerted` | `Spec => []UndoneIsAlerted`, which excepts races and resets | `RowHeld`, `FileIsCurrent`, `UndoWillAlert` |
| `EventLeasesProofs`: `TypeCorrect` | `Spec => []TypeOK`, with all faults | from `Inv` |
| `CompletedIsExecuted` | `Spec => []CompletedIsSent` | `RowsTell`, `FlushTells`, `ResultsTell` |
| `NotificationsAreLeased` | `Spec => LeasesImplemented` | step simulation under `Inv` |
| `PostOnce` | `Spec => []PostedOnce` | `OnceInv`, with `Inv` |
| `SmartupSagaProofs`: `TypeCorrect` | `Spec => []TypeOK` | from `Inv` |
| `Confirmed`, `SlotCovered`, `SentAtMostOnce` | any number of processes: `ConfirmedIsWritten`, `CompletedSlotIsCovered`, `FileIsSentOnce` are invariants | `SagasFine`, `SlotsCovered`, `Files` in `Inv` |
| `FileCallsOnce` | any number of processes: `Spec => FileIsOneCall` | step simulation under `Inv` and `Serves` |
| `FilesConfirmed` | any number of processes: `Spec => []FileIsConfirmed` | `ExportInv`, with `Inv` |
| `ReadBackFirst` | one worker: `Spec => []NoBlindWrite` | `Alone`, with `Inv` |
| `ImportsProofs`: `TypeCorrect`, `PlansAreSums`, `OneOrderPerKey`, `DealsStayApart` | `TypeOK`, `PlanIsSumOfRows`, `OneActiveOrderPerKey`, `DealsKeptApart` are invariants, for any files, addresses and number of processes | from `ImportsInv` |
| `RowIsCountedOnce` | one address: `Spec => []RowCountedOnce` | `RowsInv`, with `ImportsInv` |
| `QueueProofs`: `TypeCorrect` | `Spec => []TypeOK`, with all crashes | inductive as it stands |
| `ScansAreNotLost` | no crash between the two writes of a refusal: `Spec => []NothingLost` | `WantedIsKept`, with `TypeOK` |
| `TakenBackStaysOut` | `Spec => []NotResurrected`, with all crashes | `TakenBackIsOff`, with `TypeOK` |
| `SavedPositionIsOnServer` | `Spec => []SavedIsOnServer`, with all crashes | `KnownIsOnServer`, with `TypeOK` |
| `PanelTypeCorrect` | `OfflineQueue`: `PanelSpec => []PanelTypeOK` | inductive as it stands |
| `BrowserScansAreNotLost` | `OfflineQueue`: `PanelSpec => []NoScanLost`, for any number of tabs and faults, with and without the Web Locks API | `WebTypes`, `SentIsSaved` |

**KizLifecycle.** `SingleHolder` is not inductive: a scan is admitted because the
*movements* say that the code is free, not because no scan row exists. `RegistryInv`
adds what ties the records together: the live scan of a code is the item of its latest
movement (`LiveScanIsHolder`), a busy code has that scan (`BusyCodeHasScan`), and the
two records of a return agree, with no release at work on a returned order
(`ReturnedIsFinal`). The last part is why overlap must be excluded: a return inside a
release would be overwritten by its `finally` block.

**Closed orders.** `ClosedInv` is a conjunction over the orders. An order no release works on
is `Settled`: if closed, all its items are, and the report counts them complete. A release
takes one order out of that state, and `InHand` says what brings it back, in terms of its
local variables: the other items stay closed; the status it will write to its own item is
the one it read; the blocks it took and has not counted yet (`Owed`) fill the gap between
the scans and the plan. `CountersMatchScans` is needed for the undo, which recounts the
scan rows. That no other request commits on the order meanwhile is the assumption; a
release that dies leaves the order open, about which nothing is claimed. The refusal of
an undo inside a release (`ReleaseUndoRefused`) is shown not to happen without overlap.

**CallOnce.** In all four components a step of the program is a step of one call or a
stutter, and the proofs go by the actions: first the actions that touch neither mark nor
effect nor record of any call, then those of one call. The mark comes before the effect
because no process is at the call without having committed it, which is what the
invariants of the components say in their own terms (`Marks`, `Serves`, `WorkerSafe`).
The rest of the burden is in three places. A call that timed out takes effect when nobody
waits for it (`Land`): its mark must still be there, so every step that takes a mark
back must know that nothing is on its way. A mark is taken back only where the call is
known to have had no effect: after a 429 and, for returns, after a complete list without
the request. A refusal keeps it, for the code does not tell a refusal from an answer it
could not read. And a record must be true: an id SkladBot answered with is
of a request it holds (`Answered`), a delivery is recorded only by the process that
posted its file (`SentIsPosted`, `Serves`).

**SkladBotReturnCreate.** `Base` has the types, that a row in processing has one worker
at most (`Holding`), and that a row whose look-ups are spent is blocked (`Unspent`).
`Safe` says what is known of SkladBot in every state of a row (`OrderSafe`: a row whose
`post_state` allows a POST has no request and none on its way; link and response are the
order's own) and in every step of its worker (`WorkerSafe`: before the POST nothing is
there; a list said to be complete has every request of the order). The three assumptions
are the three ways in which the code breaks it: `AdminSafe` fails with a raced retry
(`ReturnAdminRetry.cfg`), a list that matches by content names the order only if
bodies differ (`ReturnSharedLink.cfg`), and a complete list has every request only if the
details are sound (`ReturnBadAnswers.cfg`). The theorem is about any number of workers; that
`StaleReset` meets only dead workers is an assumption of the model.

**SkladBotCreate.** The request an order gets is the first posted for it, so `Inv` follows
one request per order and never counts. `EventSafe`: once it is made, the event knows its
id or has a state that forbids a POST; a row that has its id is blocked, completed, or
waits to be looked up. `WorkerSafe`: before the POST it is not made. `OrderSafe` and
`SnapSafe` are about the links: an order that came with its event is protected until it is
linked, also in the copy a synchronisation took before it wrote back, and a protected
order is matched only with the id in its event. No assumption is made on the contents of
the requests; that there is one create worker is part of the model.

**TransferKizDelivery.** `Marks`: the mark of the start is set before the call, is never
taken back, and no marked row comes as far as the call again. `Carried`: the file a
worker carries was complete when it was built, in the way the report counts it (every
position without a code is waived or has a released block), and neither a reset nor a
restored order takes a released block back. For the
alert, `RowHeld` says that the row of a living worker is its own to complete,
`FileIsCurrent` what is known of the codes in the file between its building and the
record, `UndoWillAlert` which delivery an undo that began is going to name.

**EventLeases.** `Inv` says what every process has in hand: rows of one kind, under an
owner no other process has; and that a row whose claim the disk does not have yet was
free on the disk. A claim takes, the decision of the holder decides, an expiry loses, a
death quits, the crash of the database loses the claims that were not flushed; the steps
of the create workers are stutters. `OnceInv` says why the number of attempts is enough
to post once although nobody looks at the lease: a row of no attempt was not posted and
nobody has it, a row of one attempt has one process at most, and only such a row is
posted unless it was scheduled again. The claims the disk does not have yet need the
same for the row on the disk, because a crash of the database counts an attempt back;
it also breaks the session of whoever had the row.

**SmartupSaga.** What others may change only grows: a deal that was in the target status
has been there, also if it was put back (`Reached`), as one that left has been away
(`Gone`); a create event or a claim of a file is not taken back (`Grown`). So what a process has read (`Tells`, `Knows`) stays true under the steps of
the others, except for the file of its slot, and that is its own by the lock of the slot
(`SlotLock`). `Fine` ties the two states of a deal, in its fulfilment and in its event,
to each other and to Smartup; it is kept by every function that writes them. `Skips` says that an
exported deal the import left out has a create event, so the file, which names every
exported deal, names only deals with a request. `NoBlindWrite` needs that nobody else
moves the deals of a pass, hence one worker: `Alone` says that a write that was not read
back is never an intent (`WrittenAhead`), and that a deal about to be written is marked as
started. With a run-once next to the worker a blind write
can happen.

**Imports.** `PlanIsSumOfRows` says that no import overwrites what another has added,
although none locks a position. It holds because a session keeps the locks of its address
to the end: two sessions work on different addresses and different uploads (`Apart`), and
nobody but an import changes a plan or the rows of a position. So what a session read of
the orders of its address stays true until it commits (`ReadIsValid`; the warehouse changes
only statuses and scans), its copy differs from what it read by the rows it was given
(`ItemsWorked`), and the orders it works on are those, or its own (`OrdersWorked`). The
commit then adds the rows of the session to a position that is as it was read. A
position that is scanned meanwhile is no exception, for the commit writes only the columns
that were changed. `OneActiveOrderPerKey` is part of the invariant: a session creates an
order only for a key under which it has seen none.

`RowsInv` is for `RowIsCountedOnce`: a row that was counted is among the rows its position
knows, and the position is in an order of one of the row's keys; so an import that looks
for the row finds it. That a session looks only in the orders of its address is why the
theorem has the hypothesis `OneAddress`, and `imports_repeat` shows that it is needed.

**DesktopQueue.** `WantedIsKept` follows a wanted scan through a pass. Until its last step
the queue still has the events of the pass, so nothing has to be known; what the pass
will drop is at the backend or is going to be recorded as refused. The one gap is between
the write that shortens the queue and the write that records the refusals
(`Reconcile`, `Record`): a program that dies there loses a refused scan, so the theorem
assumes `~CrashBeforeRecord`, and the other three do not. `TakenBackIsOff` says
that a code taken back is not on the screen either, nor among the codes of a save that
runs: an undo takes it off the screen and out of the queue at once and is refused while a save runs,
a pass only takes events away, and whatever queues a code takes it from the screen. `KnownIsOnServer` says that each of the
three memories of the program (what it read, what passes delivered, what a refresh
fetched) is on the backend as long as no code of the position was asked back; after an
undo none of this is known, which is why the property has that exception.

The lemmas about lists (`WithoutSet`: filtering a queue removes what is filtered out, and
nothing else) would be inductions over a list. They are proved by the shortest prefix for
which they fail (`LeastOf`), from the well-foundedness of the naturals.

**OfflineQueue.** `SentIsSaved` is all that is needed
besides the types: a code whose request a pass saw succeed is at the server until it is
undone there, and an undo of a code that a pass holds, live or late, is noted in `crossed`
(`UndoneLate`); a refusal is recorded, and what its record pushes out is noted in
`evicted` (`Recorded`). A pass removes
from the queue by the code and not by writing back a list, so what the other tabs do to
the queue meanwhile does not matter, and neither does the Web Lock: it keeps the tabs from
sending twice, not from losing scans.

Every safety property and every refinement that a passing run checks is proved. Only
model-checked is what is liveness under fairness, which is beyond what the prover does
(`Settles`, `StaysLinked`, `Ends`, `SagaIsFinished`, `DeliveryEnds`, `ReadyIsQueued`,
`Drains`). `RowCountedOnce` with several
addresses is false, and so are the properties of the other counterexamples of section 4.

## 6. Not modelled

The map names a small part of the implementation's lines. Most of the rest is parsing
and formatting of files and messages, reports and read models, the user interfaces,
HTTP, authentication, migrations, and the tools under `tools/`, which repair or compare
data in one sequential pass. They have no behaviour over time that a model could break,
and a definition stretched over them would not translate them. Left out of the modelled
components, each with a note in `PROJECT.json`:

- KIZ lifecycle: the approval of transfer returns, movement-less legacy rows, the refusal
  of scans captured before a reset, audit rows and outbox rows where nothing reads them.
- Return requests: the lease mode, identity conflicts of a row, incidents.
- Request creation: the dry run, stock checks, the search by content and markers (both
  switched off), the daily report.
- Event queue: the rows of Google exports, the clean-up of old rows, an administrator's
  retry next to leases (without leases it is in `SkladBotReturnCreate`).
- Smartup: the modes `disabled` and `shadow`, several orders of a deal, a file of the chat
  for a deal a slot has imported already, a deal whose payload changes, orders that are no
  longer active, the history service.
- Imports: the split of an order that has a SkladBot request, the new address of an
  existing order, rows without an import id, client points.
- Transfer KIZ: several files of an order, deleted and returned orders, boxes, the commands
  of the bot that ask for a file.
- Desktop: several positions, the release of a busy code from the screen, requests that
  are executed after their timeout, the effect of a refusal on `saved_codes_count`, the
  migration of old queues. Browser: `stationQueue.ts`, which only tests call, and completions in
  the queue, which the panel never adds.

No module has lock steps or the timeouts of the database: a writer that waits for a lock
is a writer that has not started, and a deadlock is broken by the database, which aborts
one of the two.

## 7. Plan

What would come next, in this order:

1. An abstract durable outbox that `DesktopQueue` and `OfflineQueue` both implement, and
   the liveness of the desktop's queue.
2. `ReturnApproval`: decisions and whole-payload writes of several workers.
3. `SkladBotReturnCreate` with leases, composed with `EventLeases`.
4. `WriterLocks`: the lock order of the writers; the idle-in-transaction timeout.
5. Device pairing and the hand-over of a principal.
