# A TLA+ verification of union-agent-SFBE

The service pushes delivery and receipt notices that were approved in the
Kingdee ERP to the warehouses of SF, follows them through the warehouse's
callbacks, writes the resulting outstock documents back to Kingdee, and recalls
orders whose notice is withdrawn. It is one Python process (FastAPI with an
APScheduler) beside PostgreSQL; nearly all of its state is in the database, and
nearly all of its difficulty is in what happens between two `await`s: jobs that
run every minute share rows without a lock, remote calls succeed and lose their
answer, and a deployment kills the process wherever it is.

This directory holds TLA+ modules that model that behaviour, TLC configurations
that check them on small instances, and proofs, checked by TLAPS, for every
instance.

| file | what it is |
|---|---|
| `SFInterception.tla` | refund interception: worker, order gate, journal, network, warehouse |
| `CancelOnce.tla` | the abstract contract of the interception journal |
| `SFInterceptionProofs.tla`, `SFInterceptionWarehouse.tla`, `SFInterceptionRefines.tla` | theorems about `SFInterception`; the proof that it implements `CancelOnce` |
| `SFOutstock.tla` | one notice: callback round, outstock creator, delayed audit, repush, recheck |
| `DocumentOnce.tla` | the abstract contract of a notice's documents, with the record that names one |
| `SFOutstockProofs.tla` | theorems about `SFOutstock`; the proof that it implements `DocumentOnce` |
| `SFPushRecord.tla` | one row of `ads_sf_push_record`, its order at SF, and those who write its status on the way there and back |
| `OrderLife.tla` | the abstract contract between the record's status, the orders under its number and their callbacks |
| `SFPushRecordProofs.tla` | theorems about `SFPushRecord`; the proof that it implements `OrderLife` |
| `SFItems.tla`, `SFItemsProofs.tla` | item archives, their records, and the bills that need them; theorems |
| `SFRotation.tla`, `SFRotationProofs.tla` | which records a job takes up when there are more than a round has time for; theorems |
| `SFPool.tla` | the connection pool and the tasks that borrow from it twice |
| `SFKingdeeSession.tla` | the Kingdee session that all clients of the service share |
| `SFResources.tla`, `SFResourcesProofs.tla` | the composition of the two; theorems about both |
| `MC*.tla`, `*.cfg` | instances for TLC; each run in `PROJECT.json` names its module and cfg |

## 1. Inventory

Paths are under `src/app/`. The tables are `ads_sf_push_record` (one row per bill
and direction; *the record*), `ods_sf_push_log` (callbacks as they arrive), and
the journal tables of `src/migrations/20261104_sf_interception.sql`.

| component | state it keeps | operations | what makes it correct |
|---|---|---|---|
| interception worker, `services/sf_interception_worker.py` | `sf_api_operation`, locals of `execute_one` | sweep of interrupted operations, fetch, claim, nine checks, journal, send, verify, `finish` | at most one cancel request; journal and verdict never deny a request; a claimed operation is settled |
| order gate, `services/sf_interception_guard.py` | per-bill advisory lock, `sf_api_legacy_cancel` | `outbound_gate`: lock, hold lookup, cancel journal, dispatch | dispatches of one order do not overlap; none after a hold |
| market API (external) | `sf_api_hold`, `sf_api_operation` | inserts a hold, queues the one CANCEL | – |
| push scan, `services/sf_automation.py` 473-800, 1904-2380 | the record | `scan_and_push`, `scan_and_push_outbound`, `_mark_failed`, `_filter_scan_candidates` | approved bills reach the warehouse once; the record says so |
| push retry, same file 838-1218 | the record | `retry_single_push`, `_retry_push_inbound`, `_retry_push_outbound` | as above; an unfinished outstock document is gone on with |
| callback endpoint, `api/routes/sf_callback.py` | `ods_sf_push_log` | insert per message | – |
| callback validation, `sf_automation.py` 1221-1360, 2756-3058 | the record | `validate_callbacks`, head of `validate_outbound_callbacks` | statuses follow the latest callback; they do not undo what others wrote |
| outstock creation, same file 2383-2753 | the record, Kingdee documents, the order lock | `_create_kingdee_outstock(_locked)`, `_run_outstock_tasks` | one document per notice; `outstock_created` means audited, as far as Kingdee told |
| delayed audit, `services/sf_audit_retry.py` | the marker in `error_message` | `retry_due`, `_retry_one` | bounded audits, over crashes |
| unaudit watcher, `sf_automation.py` 3060-3460 | the record | `scan_unaudit_and_cancel` | withdrawn notices are recalled, and only those |
| dashboard, `api/routes/sf_dashboard.py` | the record | `cancel_record`, `retry_record`, `mark_record_resolved`, `sync_wms_status_batch`, `recheck_kingdee_status_for_abnormal`; read-only lists | what a person is told is true |
| WMS poll queue, `services/sf_wms_polling.py` | time of the last attempt per record, in memory | `select`, `mark_attempt` | no order is starved |
| item push, `services/sf_item_push.py`, `_sf_sync_item` in `sf_automation.py` 300-381 | `ads_sf_item_push_record` | `push_items`, `_push_batch`, `sync_first_camp_approved_to_sf` | success on record is an archive at SF; bills wait for their archives |
| SF client, `services/sf_outbound.py`, `sf_common.py` | – | requests through the gate | – |
| Kingdee client, `clients/kingdee.py` | the account's session, one login lock | `login`, `_ensure_login`, `_call`, `_invalidate_shared_session` | writes are not repeated; no login beside a usable session; a late failure does not evict a new session |
| connection pool, `db/pool.py` | ten connections | acquire, release | no standstill |
| waybill and logistics writeback, `sf_automation.py` 1524-1886 | columns of the record, Kingdee notices and orders | `_sync_recent_outstock_logistics`, sale-order writeback | each record gets its turn |
| scheduler, `scheduler.py` | jobs | cron triggers, `max_instances` | – |
| WeCom alerts, manual outbound route, shell | see `PROJECT.json` | | |

How they interact. The scheduler starts every job on a clock; the dashboard and
the manual route start the same functions from requests. They call each other
directly in three places (watcher -> push retry, callback round -> creator,
clients -> gate) and otherwise meet in the record, in the journal tables and in
one advisory lock per bill, the *order lock*: `lock_key(bill)` of the worker and the gate
is the hash of `sf_outstock:<bill>`, which the creator and the delayed audit take as well.

What is hard: (a) almost every writer reads the record, awaits Kingdee or SF for
seconds or minutes, and then updates `WHERE id = ...` only; (b) a remote call can
take effect without an answer, and an UPDATE can be committed and raise; (c) kills between the effect and its record;
(d) try-locks that refuse instead of queueing; (e) selection rules that decide
which records a job will ever see again. The list at the lines is under
`hazards` in `PROJECT.json`.

## 2. The modules and the code

### SFInterception

Every database statement and every remote call of `execute_one` is an action;
`wpc` is where the coroutine is suspended, and the Python locals `sent` and
`received` are the sets `BeforeSend` and `AfterSend` of program counters. `Sweep`
and `Fetch` are the head of `run()`. `Raise` is the one `except Exception`
around all of it, `Finish` the write of the verdict, `Leave` the `finally`, `KillWorker` a cancellation or the end of the
process: the connection and its advisory lock go and the row stays as it is.

A statement that raises may be committed all the same. `IntentRaises` is the journal's
entry: it says UNKNOWN of a request that is never sent. `FinishFails` is `finish()`: in the try
block (`finishing`) it leads to the handler's own `finish()` with a lesser verdict, which is written by
`operation_id` alone over whatever the first left, and which nobody catches (`refinishing`). So SUCCEEDED is
not final: who wrote it and was not told writes UNKNOWN over it, or BLOCKED if nothing was sent
(the order had been cancelled by others). BLOCKED is final, and no verdict ever gets better.

A *caller* is anybody else who takes `lock_key(bill)`: a push or cancellation
through `outbound_gate` (`CTryLock` ... `CLeave`), or the outstock creator, which
takes the lock and raises the document. The market API, the warehouse, the
network and the Kingdee users are separate actions: a request waits in `net` and
is delivered late or lost, with or without its answer.

Abstractions. The record is one bit, `fit` (exists, version, no outstock_no, not
cancelled or unaudited, success or timeout_alert), which any unlocked job flips at any
moment. A hold is by nobody, by the requester of the operation, or by somebody
else. Its warehouse keeps a cancelled order
as it is: the gate refuses every push after the hold, and a push that had left before it and is delivered
after the cancellation is not modelled, while `SFPushRecord` has numbers that are used again. Whether a bill number fits
the worker's pattern is chosen in `Init` (`malformed`); a malformed bill has no order
and no other activity.
`heartbeat()` is left out, as nothing in this repository reads it.

`CancelOnce` is what a reader of the journal may rely on: a row is queued,
claimed, announced, sent, acknowledged, settled and perhaps reconsidered (`Reconsider`);
`ImplementsCancelOnce` says that every step of the worker, of the gate and of the
world is one of those or leaves the journal alone.

### SFOutstock

One delivery notice (the lock is per notice). `Rounds` are executions of
`validate_outbound_callbacks` reduced to this notice and followed by the creator;
`Retriers` are `_retry_one`; `Humans` repush from the dashboard; `Recheckers` are
the Kingdee recheck; `Outside` holds Kingdee users, the callback log, the WMS
status text, a cancellation by whichever job, and "mark resolved". `seen[a]` is the
snapshot an actor acts upon after its awaits, `cur[a]` the document it works on.
The creator's path is `CreateLocks, CreateRechecks, CreateQueries`, then
`PushDoc, Submit, Audit` from wherever Kingdee already is, then `WriteCreated` or
`WriteFailed`; every Kingdee write may take effect and still end in `failing`.

Three things make `created` less than it seems, and are modelled as they are. The final UPDATE, and the
notice after it, are in the try block: `WriteCreated` may leave its actor `doubting`, and then `WriteFailed`
writes `outstock_failed` over the committed `outstock_created` (2611-2634 into 2637-2745). An error text with
"already audited" counts as success wherever it comes from (2641-2663), with the number that is in the text or
none: `PushRefused`, and the "already" of `Submit` and `Audit`. And `_extract_response` takes an answer without a
ResponseStatus for success (`kingdee.py` 181-185): `Submit` goes on, `Audit` ends in `trusted`. `onTrust` is the history of a
creation that nobody checked: no number, or `trusted`.

A query may leave documents out in every run (`Answers`): the client turns an answer that is no list into `[]`, and
the creator's limit of five joined rows can be filled by one document. `pushedBlind` and `auditedBlind` mark the
documents that were pushed or audited after such an answer: of any two documents too many, `OneServiceDoc` and `NeverAuditsTwo` say,
one is marked. The delayed audit asks for 501 rows, which no notice fills, and verifies.

`DocumentOnce` is what a bookkeeper sees: the documents of the notice in Kingdee, and
the status and number of the record. The service adds a document only when none of
its own stands and audits one only when no other that it audited does, or it does so blindly and says so; a number is
given by who found the document; a record that says created names an audited one, or was written on trust; and only the
creator takes that word back (`TakesBack`).

Abstractions. `fhtz_fid` counts as known. `cancelled` also stands for
`cancelled_by_unaudit`; `unaudit_cancel_failed` is left out here (the watcher
itself is in `SFPushRecord`). The error message is its kind (`gsp` is the one
the delayed audit looks for) and the attempt number in its marker; backoff is
"the clock may have moved far enough or not".

### SFPushRecord

One record on its way to an order in the warehouse and back, with those who write its `status` there: the two scans,
the watcher with its repush, the two validators, the status poll, and the dashboard's retry and cancel. The
writers about an outstock document (the failing creator, recheck, `mark_resolved`, the delayed audit) are in
`SFOutstock`. `seen` is what the actor read, `got` what it made of SF's answer (`ok`, `bare`: order exists
but without a receipt number, `no`), `why` what the watcher cancels for. `Calls` is the gate: for an outbound order a
second call is refused, and any call about a bill on hold; for an inbound bill nothing keeps calls apart.

A number is used for one order after the other (`placed`): SF *may* take the number of a cancelled order again, which
the repush after a re-audit (3336-3376), the rescan of recalled bills (448) and the dashboard's retry count on, or answer that it
exists, which counts as success (2320). `told` is the history of which of these orders a record that says
cancelled speaks of: the one SF had told its writer about. Cancellations and repushes overtake each other freely between
SF's answer and the UPDATE.

`held` is the bill's row in `sf_api_hold`, which nobody deletes: the scans' prefilter and the watcher leave the bill out, the
gate refuses its calls, the retry leaves it as it is, and `InterceptionCancels` is what the worker of `SFInterception` does to the
order. `late` is an approval before the day the scans start from, which a new approval makes timely again; `old` is a record
created more than 14 days ago, which watcher and poll do not see and no repush makes younger. Both may happen at
any moment where `TimePasses`. `again` is the comparison of the approval date with `created_at` plus 60
seconds, and `pushed`, a history, the approval from which the order in the warehouse was made.

Abstractions. Building of the payload and blacklists are left out, and the limits of 1000 records
and 50 recalls of a watcher's round are taken to be enough. A gate that is taken by the worker or the creator looks like an
answer "no". The creator is two steps, the reread of the status under its lock (`ValidateRechecks`) and the
final write (`ValidateCreates`), as far as it succeeds. Transfers go through the outbound gate like sales orders. A
refused inbound bill gets an *outbound* row of its own (below); the model follows the bill's own record.

`OrderLife` is what a reader of the status alone may rely on: no row says success before an order
was placed, timeout only while no callback is there, ok or mismatch only as the callback says,
created only for goods that have left, cancelled only of an order that is. The record lags behind the warehouse
and may forget (a failed repush, a late cancellation that hides the order placed after it), but it says nothing that was not so.

### SFItems

Materials, their archives at SF and the bills that carry them. `Pushers` run
`push_items`: `Reads` takes the materials from Kingdee again and sorts out invalid
and missing ones, `SendsBatch` and `SavesBatch` alternate (`Answers` are the three kinds of
reply: a result per item, a bare OK, a request that fails with any part of it done;
`Successes` is how `_push_batch` reads them), `MarksRest` records the materials nothing was sent
for. `CronSyncs` and `UserSyncs` are `sync_first_camp_approved_to_sf`, the same with
its `Candidates`. `BillJobs` push a bill: `SyncsItem` and `RecordsItem` per
line are `_sf_sync_item`, then the scan sends only a complete bill (`ScanSends`,
`ScanGivesUp`), the repush any (`RepushSends`).

Abstractions. Names, barcodes and XML are the `nature` of a material: SF accepts it,
refuses it, or its code holds characters `push_items` does not send. Lines are a set of
materials. The bill's other fates are in `SFPushRecord`; a row here only says
none, success or failed.

### SFRotation

One job and its candidates, ordered by the job's sort key: `older[r]` is the set of candidates whose
key comes before that of `r`, and `ahead` the same within the `batch` of a round, frozen when the round was read.
`job` chooses which of four. A round takes `Chosen` of the candidates that are due; each visit
(`Visits`, `Turn`) moves the record to the end of the line, whether its turn succeeds or
fails, except that a delayed audit which does not get to its claim, and a record without
logistics data, keep their `updated_at` and so their place. `stuck` are the records that do so
always. `BudgetEnds` is the time budget, `Restart` the end of the process and of what was in
memory, `Touched` another job's write of `updated_at`. Times are abstracted to the
order of the keys; `passed` and `overtaken` are history.

### SFPool, SFKingdeeSession and SFResources

`SFPool` has the connections and two kinds of tasks: `Single` ones keep one connection
(the gate during a call to SF, the delayed audit), `Nested` ones ask for a second one
while they hold their lock's (the round that creates outstock documents, the
interception worker). asyncpg's queue is not relied upon: whoever comes first gets a
connection. `SFKingdeeSession` follows one `_call` at a time of every client: its own
cookies or the shared session or a login under the lock, the request, and the
two repetitions (`HearsLost`, `HearsGateway`) with their flags, one of which resets the
other. Kingdee carries out a request or not, whatever it answers. `SFResources` composes
them: a task that holds a connection keeps it during its call, and awaits one thing at a time.

## 3. What is checked

All passing runs are exhaustive on their instance and within the bounds named below. Deadlock is not checked
anywhere: the bounded worlds come to rest when every bill is settled and the
bounds are used up.

| run | instance | properties |
|---|---|---|
| `interception` | 1 bill, well-formed or malformed, 1 worker (as `max_instances=1` makes it), 2 other lock users, fair; 87 k states | at most one cancel request; the journal tells of it; verdicts are honest; one cancel entry; a hold stops dispatches; a queued operation waits only for somebody at work; claimed operations are settled, queued ones taken up |
| `interception_two_workers` | 2 workers, 1 other lock user, dropped sessions; 1.2 M | what is left without the lock: SUCCEEDED is true, the contract `CancelOnce` is implemented (so BLOCKED is final, and SUCCEEDED only weakens) |
| `outstock_rounds` | 2 overlapping rounds, 2 documents, 2 kills; 2.6 M | one document of the service's own, but for one pushed blindly; a record that says created is neither failed nor renumbered by another round |
| `outstock_record` | round, retry, repush, recheck, 1 document, 1 kill; 4.1 M | created, unless on trust, and resolved mean audited; retries are bounded |
| `outstock_liveness` | round and retry, 2 documents, 1 kill, fair; 0.7 M | never two audits of standing documents, but for one audited blindly; the contract `DocumentOnce` is implemented; matched orders get an answer, the lock comes back |
| `push_record` | every writer, 1 outage, 1 dashboard call, 2 orders, both directions; 5.3 M | a record that says cancelled speaks of a cancelled order; only deleted notices are recalled as deleted; the contract `OrderLife` is implemented (so a pushed record had an order) |
| `push_liveness` | scan, watcher, validator, outbound, 2 orders, time passes, fair; 0.6 M | unaudited notices are dealt with; approved ones are pushed or marked |
| `rotation` | 4 records for 2 slots, in each of the 4 jobs, fair; 160 k | nobody has a second turn while another waits for its first; who stays due gets turn after turn |
| `items` | 2 materials on 1 bill, hourly sync, a user, the scan, a repush, fair; 149 k | success is an archive; the scan sends no bill without its archives; what SF accepts arrives |
| `resources` | 2 connections, a nested and a single task, 2 clients, fair; 141 k | nobody waits for ever; logins are serialized and needed; a late failure evicts nothing; writes run once |
| `push_outdated`, `items_repush` | small | each refutes one sentence of the code's comments (section 6) |

Why the bounds are enough. The modules are indexed by bill or treat one bill, as
locks, rows and journal entries are per bill; a second bill adds nothing to a
worker that has one in hand. Two documents are the least that can be confused, and two
overlapping rounds the least that can race. `MaxKills`: with two, a task is
killed, its successor as well, and the third finishes; one is enough where the kill only
has to separate an effect from its record. `MaxAttempts` stands for the code's limit: the bound
needs one retry that is counted and one that is refused. `MaxApprovals = 2` is
one re-approval, `MaxOrders = 2` one number used again, `MaxOutages = 1` one status query without an answer (two in a
row are a known deviation, section 6), `MaxCalls = 1` one dashboard request
against every job. `push_record` has a CONSTRAINT besides (`OnePersonOnly` in `MCPushRecord`): about an outbound bill the person's call comes
without an outage and while no validator is at work, which halves the states; inbound bills, where no gate orders the calls, are explored without
it, and so is an outbound bill that no person touches. Two calls against scan and watcher held when the module was explored, and section 4 proves
all three properties for any number of actors and calls. `TimePasses` is on where the windows
matter: they only keep jobs from acting, so a safety run without them has more behaviour. `KeepsHistory` switches a history on
that only `push_outdated` reads. `outstock_rounds` looks at the states through a VIEW that leaves out what no
round reads without a delayed audit (the error's kind and the attempts, `stopped`) and the histories that its two properties
do not mention: two states with the same view have the same successors, as far as the view and these properties go.

`SFRotation`: four records for two slots leave two outside each round; the
window of three cuts the delayed audit's query before it drops what is not due;
`MaxEvents = 1` is one arrival, failed turn, foreign write or restart at any moment, and
`MaxStuck = 1` one record less than a round has slots. `SFItems`: two materials,
one of them `Doubtful`, are the least for a batch of mixed fate (`BatchSize = 2`); `MaxTroubles = 2`
lets one step fail and something else happen to the retry. `SFResources`: two connections are the least
that one nested task needs (the code has ten for two); `MaxSessions = 2` and
`MaxFaded = 2` are an old session and the new one beside it, both of which may end.

Assumptions of single runs. `OneCancelEntry` and `HoldStopsDispatch` are stated where sessions do not drop and the worker is
alone. A dropped session frees the lock under its running task, and then the
gate and the worker may both cancel: `interception_two_workers` therefore checks
the properties that survive. Two rounds
are modelled although the scheduler keeps to one instance, because the creator's
docstring names a manual trigger and an overlapping deployment as its reason
for the lock.

Fairness. Weak fairness for a worker, a round, a watcher, a scan or a sync that
can go on: the scheduler starts them again every one to ten minutes and every
await has a timeout. Strong fairness where success depends on the moment: the
try-locks (`TryLock`, `CreateLocks` with a free lock) and the worker's fetch and
claim, since nobody keeps trying at the same second as another job forever; and, in
`push_liveness`, the last count check and SF's answer, since SF is not down for ever. What the two properties of
`push_liveness` except is what the code excepts: a bill on hold, a record older than 14 days, an approval before the scan's
first day. `ApprovedIsPushed` speaks of the record: SF's "order number exists" for a cancelled order is recorded as success,
and no later scan asks again.
`QueueDrains` is conditional on the other lock users coming to rest, as a
try-lock has no queue. In `SFItems` the hourly sync and the scan run again and again, and
a scan visits every pending bill (strong fairness of `ScanTakes`); their requests fail
for no lasting reason only `MaxTroubles` times. In `SFRotation` rounds start, visits end and
intervals pass (weak fairness). In `SFResources` statements and requests end within their
60 seconds, and a waiter cannot be overtaken each time a connection or the login lock
is free (strong fairness); tasks make `MaxInner` second borrowings each.
Users, the warehouse, callbacks, kills and the dashboard's
buttons have no fairness anywhere.

What the rotation leaves out by its bounds is real: arrivals end, since a new task of
`_run_outstock_tasks` sorts before all that were tried, so that a steady stream of them would starve the
old under the time budget; and there are fewer stuck records than slots, since three delayed audits that are never
claimed, or thirty records without logistics data, fill every round of their job.

## 4. What is proved

Every theorem is for all values of the constants that satisfy the module's named
assumption; further assumptions are in its statement. Each inductive invariant was
first checked by TLC, then proved by one step per action.

**SFInterception** (`LockOwnersAssumption`). `TypeCorrect`; `CancelAtMostOnce`,
`JournalNeverDenies` and `VerdictsAreHonest` (`AtMostOnce`, `JournalTellsOfSend`, `VerdictIsHonest`), for any number
of concurrent workers, with kills, failed writes, sweeps and dropped sessions;
`LockExcludesEntries` and `HoldStopsGate` (`OneCancelEntry`, `HoldStopsDispatch`), provided sessions do not drop
(`~SessionsMayDrop`); `QueueIsNotStranded` (`QueueWaitsForWork`) again without that proviso.

The first group does not lean on the lock at all. Its invariant
`JournalInv` adds to the types: two workers that both passed the claim do not
work on the same bill (`ClaimInv`: the claim is an atomic QUEUED -> PROCESSING, and
nothing leads back to QUEUED); how far a worker got bounds what was dispatched
and what the journal says (`ProgressInv`); a verdict not yet written is
honest already (`PendingVerdictInv`); and a bill nobody works on has a row that
agrees with what was dispatched (`RowInv`, the part that survives kills and
sweeps). `AtMostOnce` alone is not inductive: a second worker past the claim with
nothing sent would satisfy it. The second group needs the lock: `LockInv` says that
the program counter tells who holds it (`OwnerInv`), that a worker's evidence stays true
while it holds (`EvidenceInv`: no gated cancel since `CheckLegacyCancel`), what the
journal of a bill with a gated cancellation excludes (`BillInv`), and how many
dispatches the caller inside the gate can still make (`GateInv`). `QueueIsNotStranded` is the part of `QueueDrains` that is not
fairness. Its `HolderInv` is the converse of `OwnerInv` (the holder of a lock is inside that
bill's section) and survives dropped sessions, since a session that drops only frees a lock; with
`ClaimInv` a worker that holds up a queued operation can only be the one about to claim it.

`SFInterceptionRefines` proves `JournalImplements`, the refinement
`Spec => ImplementsCancelOnce`: the initial states map, and under `JournalInv` every step is
a step of `CancelOnce` or leaves row and request count alone. `VerdictIsFinal` (`VerdictOnlyWeakens`) adds
who may do so: BLOCKED stays, and SUCCEEDED is replaced only by an execution that is `refinishing`, with less.

`SFInterceptionWarehouse` proves `SuccessIsTheWarehousesWord` (`SucceededMeansCancelled`). It needs
neither lock nor journal: `WarehouseInv` follows an answer 1400 from the read that brought it, through
the verdict, to the write of the row.

**SFOutstock** (`OutstockAssumption`). Six invariants. `TypeInv`: the types, and a
retrier that found its record due has attempts left. `LockInv`: between try-lock and
return the actor is the holder. `RecordInv`: what an actor has concluded of a document (created,
already audited, verified, resolving) is so, unless it is `trusted` or has no number, because an audited document is never un-audited
in the model; with it `CreatedIsAudited` (`CreatedIsFounded`) and `ResolvedIsAudited`, which need
neither the lock nor complete answers. `RetryInv`: a retrier has asked for as many audits as its
snapshot tells, and its claim is on record before it asks for one more; with the lock,
`AuditsBounded` (`RetriesBounded`) over any number of kills and repushes. `ServiceInv`: who is about to push sees no document of
the service's own, who is about to audit sees no other that the service audited, unless its query left documents out; with
the lock, `OneDocument` and `NoTwoAudits`, which have no assumption on Kingdee's answers: they say of which document the blind answer was.
`SectionInv`: the lock is with somebody inside, and whoever is beyond the reread of the status is alone with a
record that does not say created, but for the creator that has just said so and is `doubting`; with it `CreatedStaysCreated` (`CreatedKeepsItsNumber`), for
any number of overlapping rounds, and `HolderLeadsOut`, the safety half of `LockReleased`: every step of the
holder is strictly nearer to the return, by the measure `Left`, and no step of a round or a retry leaves it where it is.
`BookkeeperMayRely` (`ImplementsDocumentOnce`) is the refinement: under these invariants each of the
service's steps is one of `DocumentOnce` or leaves documents, status and number alone. `ServiceInv`
gives the guards of `Push`, `Submit` and `Audit`, `RecordInv` the document that is named, `SectionInv` the
status it replaces.

**SFPushRecord** (`PushRecordAssumption`). `PushRecordTypeCorrect`; `SuccessMeansSent`: who
was told that SF has the order is right, and orders never become absent again;
`CancelledMeansCancelled` (`CancelTellsTruth`): `CancelInv` says, order by order, that what an actor
was told of a cancellation, and what the record calls cancelled, `IsGone`; an order that is gone stays so whatever is placed
after it, and so no assumption on numbers is needed. `DeletionIsCertain`, if at most one
status query goes without an answer (`MaxOutages <= 1`): after one lookup without a
result the outage may be used up, after two the notice is gone. `RecordKeepsItsWord` (`ImplementsOrderLife`)
is the refinement of `OrderLife`, for any number of actors and orders: it needs of the others what they know of the order
(`SentInv`, `CancelInv`), and `LifeInv`: a callback is about a closed order, what the record or a
validator makes of it comes after it, and all but the scanners deal with a row that exists. `CancelledNeverLeaves`
(`CancelledForGood`) follows: of an order once called cancelled the record never says that its goods have left. Only
`DeletionIsCertain` has a hypothesis.

**SFItems** (`ItemsAssumption`). `ItemsTypeCorrect`; `SuccessMeansArchive` (`SuccessIsHeld`) and
`ScanNeedsArchives` (`ScanSendsWithArchives`) from `ItemsInv`: what a pusher is about to record is with
SF, and as long as none of a bill's archives failed all those done are with SF.

**SFPool, SFKingdeeSession** (`PoolAssumption`: fewer nested tasks than connections;
`SessionAssumption`), stated of their composition. `ResourcesTypeCorrect`; `PoolNeverStuck` (`NoStandstill`)
by counting: tasks waiting for a second connection hold one each (`OneEach`), and there are fewer of
them than connections. From `SessionInv`, which bounds requests and executed
writes of a call by its two flags: `WritesAreNotRepeated`, `CallsAreBounded`, `LoginsAreNeeded`, and
the action property `NewerLoginStays` (`EvictsOnlyDead`).

**SFRotation** (`RotationAssumption`). `RotationTypeCorrect`; `NobodyIsOvertaken` (`NoOvertaking`), in each of the four
jobs, for any number of records, slots and window. `OrderInv` says that `older` is a strict total order of the
candidates, `BatchInv` and `PassedInv` that a record which had a turn while `p` waited is a candidate behind `p`,
and, if the round visits it again, does so after `p`. The step that needs an argument is the start of a round: the batch is an
initial part of the due records in that order, so whoever is behind `p` is taken only together with `p` (`FewerBefore`,
a cardinality lemma).

Only model-checked is liveness, as the prover treats neither fairness nor ENABLED: `ClaimSettles`,
`QueueDrains`, `MatchedOrderSettles`, `LockReleased`, `UnauditedIsHandled`, `ApprovedIsPushed`,
`DueGetsTurns`, `ApprovedIsArchived`, `BillGetsThrough` and `TasksFinish`. Of `QueueDrains` and `LockReleased`
the safety half is proved, as said above. Every invariant and every other property of the passing runs is a theorem. The other way
round, what is proved and follows from a contract that a run checks, or from it and an invariant, is in no run of its own (`VerdictOnlyWeakens`,
`SuccessWasSent`, `CancelledForGood`), nor are the types of `SFPushRecord` and `SFItems`.

## 5. What is not modelled

- What the waybill and the sale-order writebacks copy: no order's status depends
  on it. Which records the logistics job chooses is in `SFRotation`.
- WeCom alerts; they change no record, and their failures are caught.
- HTTP validation, signatures, payload building, parsing of quantities, read-only
  lists, configuration, deployment scripts. What a deployment does to the process, a
  kill at any point with the old container stopped before the new one starts, is in the models.
- Accounts of Kingdee other than the integration's, whose clients share no session.
- The lines of a bill one by one, blacklists, and the batch sizes of the scans and of the watcher.
- A push that left before a hold and reaches SF after the interception's cancellation.

## 6. Deviations met while modelling

Checked by a run each (`findings` in `PROJECT.json`):

- A re-approval is recognised by comparing with `created_at` (3327-3331), while the comment at 3317 says it is compared with the
  time of the push. Neither the upsert of a later scan nor a repush moves `created_at`: in `push_outdated` a scan marks a bill
  failed, the notice is approved again, a later scan pushes it, and the watcher recalls that order as outdated.
- Both repushes ignore what `_sf_sync_item` returns and send the bill although SF has
  refused an archive (913, 1098), which the scans' comment at 678 gives as the
  reason to mark a bill failed. `items_repush`.

Read off the source and described here only:

- An inbound record in `callback_ok` is not watched for unaudits: the watcher
  joins both directions' excluded statuses (`sf_automation.py` 3190-3194, against
  the comment at 3092).
- The throttle of the duplicate alert never works: the round puts the record to
  `callback_ok` just before the creator looks for `duplicate_outstock` (2929,
  comment 2483).
- The watcher and the recheck write by id over what others wrote meanwhile:
  `outstock_created` can become `unaudit_cancel_failed` (3435, comment 3071), and
  `outstock_created_no_callback` can become `auto_resolved`
  (`sf_dashboard.py` 872, docstring 810-812).
- `_mark_failed` writes an `outbound` record for inbound bills (1895; called at 557 and
  568).
- A later refused or failed push leaves `failed` over an order the warehouse
  still has (805; comment 3076), also when the gate merely was busy (250).
- A repushed order in `callback_ok`, or one in `duplicate_outstock`, whose
  document was created through the WMS fallback has no callback and is not taken up again
  (2984-3002, against 1175-1176 and 2504). `MatchedOrderSettles` is therefore
  stated for orders whose callback is there.
- The watcher looks back 14 days from `created_at`, which no repush moves (3202): an order repushed for an old record is
  watched for a short time or not at all.
- A cancellation that is recorded late hides the order that a repush has placed meanwhile under the same number (403-456 of
  `sf_dashboard.py`, 3435): the record says cancelled, truly of the earlier order, and the later one is live.
- "Order number exists" (2320) is taken for success also when the order is cancelled.
- `outstock_failed` can be written over a committed `outstock_created` (2611-2745), and `outstock_created` on the strength of an
  error text without a number (2663) or of an answer without a ResponseStatus (`kingdee.py` 182).
- Two failed status queries in a row count as a deletion (3137-3141, comment
  3251).
- `cancelled_at` and `unaudit_detected_at` survive a repush (1181), so the
  delayed audit and the interception worker refuse the order from then on.
- The watcher's advisory lock is taken on a pooled connection that is given back at once
  (3173); what keeps watchers apart is the scheduler.
- A connection error in the push of one bill ends the scan of all (2318).
- A material whose code holds Chinese characters is filtered by `push_items` but sent by
  `_sf_sync_item` (300-381), which SF refuses: its bill stays failed.
- A repush reads at most 100 lines of a bill and has no count check, unlike both
  scans (889, 1011): a longer bill would be sent short.
- `WmsPollQueue.select` forgets every record its caller did not fetch: after a
  round over open records only, the others have lost their times and with them
  the interval of two hours (`sf_wms_polling.py` 20, `sf_dashboard.py` 657).
- The recheck takes the newest abnormal records first and remembers nothing: while
  there are more than its limit the oldest are never looked at (`sf_dashboard.py` 836).
- A material recorded as success is never sent again, so later changes of its name or
  barcode do not reach SF (`sf_item_push.py` 586), and `push_items` reads materials
  again without looking at their audit state (315).
- Thirty records without logistics data in Kingdee keep their place and stop that job (1786).
- The sale order's waybill number is read, and saved if it was empty; two documents of one
  order have different locks, so the later save overwrites the earlier (1606,
  against the docstring at 1533).

## 7. Plan

Done: the paths above with their proofs. What would come next:

1. The composition of `SFPushRecord` and `SFOutstock`: that the creator of the one, from `ValidateRechecks` to
   `ValidateCreates`, is the creator of the other where it succeeds, as they share status and callback.
2. The safety halves of the other liveness properties, as measures that every fair step decreases.
3. The waybill writeback with its locks per document.
