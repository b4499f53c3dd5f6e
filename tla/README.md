# ClawHum in TLA+

A verification development for ClawHum (`src/`): TLA+ modules of the parts that keep state and
meet concurrency or failure, in the API and in the web client, TLC runs over small instances, and
TLAPS proofs of every safety property of every module, for all values of the constants. Paths below are
relative to `src/services/api/clawhum_api/` unless they start with another top-level directory;
pages are `src/web/app/<page>/page.tsx`.

    tlc -config AuditLog.cfg AuditLog.tla        a run: see the table of runs
    tlapm AuditLogProofs.tla                     proofs of one module

## 1. Inventory

ClawHum is a query-by-humming service for several workspaces (tenants): a FastAPI application in
one uvicorn process per pod, with a web console, a CLI and an indexer as clients. All `async`
handlers run on one event loop, so the code between two `await`s is atomic within a process. The
exceptions are the SCIM routes (plain functions, run in a thread pool) and the audit forwarder's
worker thread. The Helm chart starts two or three replicas over one shared volume
(`infra/helm/clawhum/values.yaml:5`, `envs/prod.yaml`).

State is kept in append-only JSONL files where the last record of an id wins, each behind a cache
in the process that other replicas do not invalidate (legal holds and closures compare the file's
modification time first). A boot (`app.py` lifespan) drops the caches.

| Component | State | Operations | Hard behaviour | What makes it correct |
|---|---|---|---|---|
| Audit log (`audit.py`) | hash-chained file, rotated siblings, digest remembered per process | `write_event`, rotation, recovery after boot | crash or I/O error between two file operations; several processes | a line written in full after good ones verifies; the next event continues the file it goes to; oldest events go first |
| Verifier (`audit_verify.py`) | none | walk active file and siblings | hand edits before and after writes | a file that verifies is the one that was written |
| Erasure (`privacy.py`) | rewrites audit files | `redact_actor` | cut short between files; files rotate | complete over all files; only redacted rows are blamed |
| Retention (`retention.py`) | policy file + cache + lock | get, set, enforce | order of get and set; rows of others in the same file | only expired rows of the own workspace go; policies are kept |
| Retention floor (`retention_floor.py`) | floor file + cache | get, set, check | cache set beside the file | a granted policy meets the floor |
| Legal holds (`legal_hold.py`) | append-only events | place, release | several holds at once | nothing of a held workspace is swept |
| Idempotency (`idempotency.py`) | per-caller LRU of responses, lock per key | dispatch | retries while running, expiry and cap under a holder | replays are the right ones; one execution; nobody waits forever |
| Webhooks (`routes/webhooks.py`) | registry file, delivery log, tasks | create, delete, pause, resume, rotate, test, redeliver, dispatch, deliver | deliveries on a snapshot while the hook changes; restarts | the breaker stops the right hook at the right time; no hook comes back |
| Webhook policies (`webhook_*_policy.py`, `_cap`, `_rate`) | one file each | get, set | stale caches | limits as configured |
| Audit forwarder (`audit_forwarder.py`) | destination file + cache, bounded queue, secrets in memory, worker thread | put, switch, delete, enqueue, send, retry | worker thread beside the event loop, queue full, dying thread, restart | every event has one fate; no delivery undoes what an administrator did |
| MFA (`mfa.py`, `mfa_session.py`, `mfa_lockout.py`) | enrolment log, epochs, failure log | enrol, verify, step up, lock | one-shot codes, epochs, windows | codes used once; guesses bounded |
| Sessions (`sessions.py`) | session rows, policy | touch, expire, revoke | touch before check | a revoked session stays out; idle ones expire |
| Access tokens (`pat_*.py`) | token log, lockouts, concurrency counts | mint, rotate with grace, revoke | grace windows, counters released on every path | revoked tokens never pass |
| Members, seats, SCIM (`member_store.py`, `seat_limit_store.py`) | member log | invite, accept, role, revoke, provision | check then append without a lock, thread pool | seat limit, at least one admin |
| Rate limits and budgets (`middleware.py`, `budget_*`, `quota_store.py`) | sliding windows, monthly usage | per request | windows, counters, several replicas | limits hold, no slot leaks |
| Closure, support access (`closure.py`, `support_access.py`) | append-only events | schedule, cancel, grant, revoke | end of a grace period | closed stays closed |
| Incidents, DSAR, subprocessors, notices | append-only life cycles | open, advance, close, acknowledge | revisions | legal steps only |
| Policy stores (IP allowlist, scopes, residency, ...) | one file and cache each | get, set | stale caches | last record wins |
| Music pipeline (`packages/`) | index, caches | embed, search, rerank | numerical | out of scope |
| Policy pages (`web/app/settings`, `web/app/admin`) | hooks of one page: document, field, busy flag, note | load, edit, save, clear, preset, reload | answers late, out of order or lost; the stored key arrives after the first load; other administrators | nothing is sent that was not chosen; one write at a time; failures show; edits survive |
| List pages (`web/app/settings`, `webhooks`, `shares`, `collections`) | list, form, slot of the row last clicked, secrets told once | add, change, remove, renew | one slot for all rows, answers of one row while another is under way | nothing is sent twice; the list is current; a shown secret still holds |
| Query pages and panels (`history`, `activity`, `admin/incidents`, ...) | question, answer, loading, selection | ask, operate, select, bulk | the question changes under its requests | each shows the answer to its question in the end |
| Rest of the client (`web/lib`, capture, notifications) | local storage, audio | | | |

**Interactions.** A request passes the middlewares from outside in (`app.py:173-250`): request id,
residency, **idempotency**, rate limit, tenant scope, notices, body size, budget, usage, **audit
log**, then the route with its authentication. So a replayed response is neither rate-limited nor
audited nor authenticated again. Every mutating request ends in `write_event`; floors, holds,
the webhook breaker and the rate cap write events of their own from inside their handlers.
Retention and erasure rewrite files the audit log appends to, without its lock and without telling
its cache. `write_event` hands each event to the forwarder's queue. The pages of the client reach the API by
`fetch` with the key that `useApiKey` (`web/lib/apiKey.ts`) reads from local storage, which is
empty on the first render and set by an effect: every page that depends on it loads twice on a mount.

## 2. Modules

| Module | Models | Variables and the code they stand for |
|---|---|---|
| `AuditLog` | `audit.py`, `audit_verify.py` | `files` the active file and its siblings; `cache` is `_last_hash_by_path` of each process; `nextId`, `logged` history |
| `AuditErasure` (extends `AuditLog`) | `privacy.redact_actor` | `erased` history |
| `AuditTamper` (extends `AuditLog`) | files edited by hand | `genuine` history: what the API wrote |
| `Retention` (extends `AuditLog`), `MCRetention` | `retention.py`, `retention_floor.py`, `legal_hold.py` and their routes | `policy`/`policyCache`, `floor`/`floorCache` file and cache; `holds`; `stuck` processes waiting for their own lock; `undated`, `asked` history |
| `Idempotency` | `idempotency.py` | `entries`, `locks` of each caller's bucket; `queue` the waiters of each `asyncio.Lock`; `request`; `clock` |
| `WebhookDelivery`, `MCWebhookDelivery` | `routes/webhooks.py` | `hooks` the last record of each hook; `rows` the delivery log; `window` where the last minute starts; `tasks`; `resumedAt`, `rotated` history |
| `AuditLedger` | what `AuditLog` promises to a reader | `kept`, `last`: a window of events, forgotten oldest first |
| `AuditForwarder` | `audit_forwarder.py` and its routes | `store`/`saved` cache and file; `secrets`, `queue`; `worker`, `handler` how far each thread has come; `given`, `rows`, `lost`, `off` history |
| `PolicyPages` | 29 pages with one document | `ui` the hooks, `doc` the server's document, `net` the requests in flight, `mount` the times it was mounted; `seen`, `overtook` history |
| `ListPages`, `MCListPages` | 21 pages with a list | the same, with one hook per form and one slot for the rows; `seen`, `told`, `wrote`, `overtook`, `crossed` history |
| `QueryPages` | 11 pages and panels | the same, with the question, what it shows and what is selected; `overtook`, `crossed`, `doubled` history |
| `AuditLogProofs`, `AuditForwarderProofs`, `IdempotencyProofs`, `WebhookDeliveryProofs`, `PolicyPagesProofs`, `ListPagesProofs`, `QueryPagesProofs` | | theorems about the module they are named for; `AuditLogProofs` also shows that `AuditLog` implements `AuditLedger` |
| `AuditFilesProofs` (extends `AuditLogProofs`) | | theorems about the modules that change the files of the log: `AuditErasure`, `AuditTamper`, `Retention` |

One action is one handler, or one stretch between two `await`s. In `AuditLog`, `Write` is the
whole of `write_event` under its lock: rotation, choice of the cache key, chaining, append,
remembering. `InterruptedRotation` and `InterruptedAppend` stop it between any two of its
operations: before the first rename or after any, the last one too (what follows it can raise, and
`write_event` swallows that), before the append, or within it, with part of the line on disk or all of it but
the newline. A crash is one of these followed by `Restart`. The digest is modelled as the pair it
is computed from, which is what collision resistance gives. The module lock and the event loop serialise
the writes of one process only; the modules let several take turns, write by write, which is less than
what several can do, so everything claimed of the log beyond its types is claimed for one process. In `Retention`, handlers that write an
audit event take that step, with its interruptions, inside their own. In `Idempotency` the steps
are the arrival of a request, the hand-over of a lock, and the return of its origin; a lock is an
object of its own, so a request may hold one the store has dropped. In `WebhookDelivery` a
delivery is `Start` (or the `Trigger` of a test or redelivery), `Answer`, `Retry`,
`CheckBreaker`; the last is a step of its own because the HTTP client is closed, an `await`,
between the last row and `_maybe_auto_disable`. `BreakerFails` is the look that raises and is swallowed
(`routes/webhooks.py:1098`). In `AuditForwarder` the worker steps between its
lock regions: `Take` (with the look at the destination), `Sign` (`secret_for`, the POST leaves),
`Answer` (the sink and `_update_status`), `Settle` (a row or a retry). Of the handlers only PUT and
the hand-over of an event take two locks in turn, so these have two steps each. `Elapse` ends a
backoff.

**The web modules.** The pages were written one after the other to two or three patterns and differ
in details: which controls a JSX condition disables, whether a save ends in a reload or adopts the
answer, what a failure does. So each page is a pair of definitions, `XHandlers` (a record of facts
about its event handlers, mapped to the functions) and `XControls` (the operations its JSX leaves
enabled, mapped to the JSX), and the actions are written once for all pages. A step is the part of
a handler before its `await` or the part after it; the browser runs each without interruption. The
server, the network (which answers, refuses or stays silent) and another administrator are external.
Pages that agree in all these facts share a pair: in `PolicyPages` `match-duration` and
`pat-concurrency` are `match-topk`; `scim-token-rotation`, `webhook-secret-rotation` and
`classification` are `pat-expiry-warning`; `residency` is `quotas`; `webhook-auto-disable` is
`webhook-max-attempts`. In `ListPages` `embed-origins`, `invite-domains`, `trusted-proxies` and
`support-access` are `ip-allowlist`. `map` names the lines of each page all the same.

Three operators name pages that are exempt from a property, because their code does not provide it:
`dpa` disables its two buttons only by the flag of each (`OneWriteAtATime`); the pages of `Silent`
catch nothing, so a request without an answer shows no error (`FailedWriteShown`); only the pages
of `Guarded` keep an answer from replacing what is being typed (`EditsSurvive`): `system-use-notification`
is not one of them, for its acknowledgement sends nothing of the draft and then loads over it. The history
variables say what else a property leaves aside, and section 5 what the code does there:

- `overtook`: an answer overtook an earlier one (`InOrderNeverOlder`, `SettledFresh`, `SettledShowsAsked`);
- `crossed` of `ListPages`: the operations on their way that have shared a hook with another one, of another row
  or, where each kind of operation has an id of its own in the slot (`webhooks`, `sessions`), of their own row
  (`RowSentOnce`, which also leaves out `dsar` and `keys/inventory`);
- `crossed` of `QueryPages`: the question changed under an operation, or the load of an operation was refused
  without a word, as on the devices of a key (`SettledShowsAsked`);
- `doubled`: two bulk operations were under way at once (`BulkMarked`);
- `told` beside `wrote`, on the two pages of one token: what the page was told of its own writes, and what those have
  done, their answer lost or not. `SecretCurrent` holds the signing key to the second and the SCIM token to the first.

In `ListPages` an operation holds its flag through the load after it, also when that is not of the list
("elsewhere": the session policy, the deliveries of a hook); the dialog that revokes all keys stays open while the
list loads again; minting a signing key where there is one changes nothing (`Moot`). In `QueryPages` a change is
`typed`, and sent by a timer 200 ms later, or `chosen`, and sent at once; a `keyed` page shows what
SWR holds of the URL it `asked`; a `gated` page sends nothing without a stored key; a `quiet` operation
leaves the answer in place and loads `again`.

## 3. Runs

Passing:

| Run | Instance | What it shows |
|---|---|---|
| `AuditLog` | one process, rotation at 2 lines, 2 backups, 8 events | `BlameOnlyDamage`: the verifier blames only damage, wherever writes were interrupted, but also the first line of a file begun with the digest of the one before (section 5). `ChainContinues`: the next event is chained to the end of the file it goes to, or to genesis, unless the active file is `Stranded`. `ImplementsLedger`: what the files carry is the window of `AuditLedger`, so rotation, even cut short, never loses a newer event before an older one, and an event that was missed never appears later |
| `AuditErase` | two actors, 6 events | `ErasureComplete`, `OnlyRedactedBlamed`, with erasures cut short between files |
| `AuditTamper` | two actors, 4 lines, 5 events | `VerifiedIsGenuine`: a file that verifies holds the events the API wrote, in order, with edits, deletions and reorderings among the writes |
| `Retention` | two workspaces, two holds, 3 events, policies 0/1 days, floor 2 | `OnlyOwnExpiredTaken`, `HoldFreezesRows`, `GrantedMeetsFloor` |
| `Idempotency` | three requests, two callers, two keys, two bodies, cap 1, TTL 1 | `ReplayMatchesOrigin`, `CarriedOutOnce`, and `EveryRequestAnswered` under fairness |
| `WebhookDelivery` | two hooks (cap 1), two calls, 2 attempts, threshold 2, rate cap 2 | `DeletedForGood`, `StopNeedsFreshStreak`, `BreakerNotMissed` |
| `AuditForwarder` | two workspaces, queue of 1, 2 attempts, 2 secrets, 3 events | `ExactlyOneFate`: no event is lost in a way the code does not provide for, or told of twice. `SecretMatchesDestination` and `OffStaysOff`: no delivery under way brings an old destination back. `EveryJobSettles` under fairness |
| `PolicyPages` | 22 pages, 2 versions, 2 mounts, 2 requests in flight | `NoBlindSave`: no write from a form without a document. `OneWriteAtATime`, `InOrderNeverOlder`, `FailedWriteShown`, `EditsSurvive`, and `BusyEnds` under fairness |
| `ListPages` | 13 pages, two rows, 3 versions, 2 requests in flight | `FlagsTruthful`: no control stays disabled for an operation that is over. `OneSubmitAtATime`, `RowSentOnce`, `SettledFresh`, `SecretCurrent` |
| `QueryPages` | 11 pages and panels, three questions, two rows, 3 requests in flight | `SettledShowsAsked`, `BulkTakesShown`, and `BulkMarked`: the buttons of a bulk operation are disabled from its first request to the answer of its last, and no longer |

`AuditLog`, `Idempotency`, `WebhookDelivery`, `AuditForwarder` and the three runs of pages also check
a type invariant. The violations, each a disagreement between the code and what it says of itself:

| Run | Property | What happens |
|---|---|---|
| `IdempotencyExpiry` | `OriginsDoNotOverlap` | an expired entry takes its lock with it, so two origins of one key run at a time |
| `WebhookResume` | `ResumeResetsCounter` | rotating the secret forgets the resume, and the breaker counts old failures again |

**Bounds.** `MaxEvents`, `MaxClock`, `Calls`, `HoldIds`, `MaxPuts`, `MaxJobs`, `MaxVer`, `MaxMount`,
`MaxFlight`, and the `Rows` and `Items` of the page modules are the bounds; all other
constants are parameters of the code. They are chosen so that the interesting case happens with
room around it: 8 events fill the active file and both backups and overflow them once more, with
events lost to interruptions; 3 requests are one that runs, one that waits and one that comes after
an eviction; 2 calls to 2 hooks let deliveries fail beside one another while their hook is
stopped, resumed, or deleted and replaced, and with 2 attempts and a threshold of 2 each delivery can trip
the breaker alone or with the other. In `WebhookDelivery` the cap of one live hook means a second
hook is created only after the first is gone, while deliveries to the first run on. In
`Retention` a day passes with each event, so a policy of one day makes the event before the last
one expire. In `AuditForwarder` 3 events overflow a queue of 1 while one is in the worker's hands and
let a retry exceed the bound; 2 secrets are one and its replacement, in the same workspace or beside one another.
On the pages, two requests in flight are two loads that overtake each other or a load and a write;
two versions of a document are the page's own and another administrator's; three versions of a list
let an operation of each row and one of somebody else take effect; two mounts are the one that left
its requests behind and the next. Each page is a separate instance within its run (`page` is chosen
by `Init`), so adding pages multiplies nothing. Pages that share their pair of definitions are
opened once. Symmetry is used only over names that no definition tells apart, and in no run with a liveness property.

**Fairness.** `Idempotency`: weak fairness of `Resume` (the event loop runs what is ready) and of
`Finish` (every origin handler returns, with an error if need be); arrivals and the clock are not
fair. `PolicyPages`: weak fairness of `Answer` and `Deliver` (the browser ends every fetch, with an answer or an
error, and runs the handler that waits for it); users, the other administrator, and a change of the
key are not fair. `AuditForwarder`: weak fairness of `Deliver` (the thread is scheduled, and each POST
has a timeout) and of `Elapse` (time passes). Nothing in the code starts a thread that has died until
the next event or PUT does, so `EveryJobSettles` is conditional: it holds of behaviours in which,
from some time on, the thread lives. `CHECK_DEADLOCK FALSE` is given where the system stops because
all requests of the instance are answered, or its bounded counters have run out.

## 4. Proofs

`AuditLogProofs` proves, for all values of the constants that satisfy `AuditAssumption`:

- `TypeCorrect`: `Spec => []TypeOK`, for any number of processes that take turns.
- `BlameCorrect` and `CacheCorrect`: `Spec => []BlameOnlyDamage` and `Spec =>
  []ChainContinues`, assuming `OneProcess` (one process, and a path that resolves to
  itself). Neither assumption can be dropped: section 5 has the two behaviours.

Neither invariant is inductive: a new line verifies only if the remembered digest is that of the
line before it, and what is remembered is right only if no other key shadows it. `ChainInv` joins
type correctness, `BlameOnlyDamage` (as `GoodFile` of each file), `ResolvedKeysOnly`, and that what is
remembered is the digest at the end of the active file, if that is there and complete (`CacheAgreesWithFile`
of the proofs). The step lemma has one case per way a write can end; the lemmas before it say
what appending a line, whole or in part, and renaming files do to a good file
(`AppendLineGood`, `WrittenGood`, `VacatedFiles`, `FilesGood`), and that the digest used for a
new line is the last one of the file it goes to (`WriteTarget`).

`AuditLogProofs` also proves `LedgerImplemented`: `Spec => ImplementsLedger`, with every interruption,
assuming `OneReplica`: the hypothesis is what justifies one step for a rotation and the append after it. The mapping takes `kept` to the events whose lines the
files carry (`Carried`) and `last` to the last event emitted. It needs that files further back hold
older events, which `LedgerInv` says together with the shapes it relies on; the lemmas say that a
rotation, complete or not, leaves a remainder of the window, and that appending to the active file
adds the new event or nothing.

`IdempotencyProofs` proves, for any requests, callers, keys, bodies, TTL and cap (`IdemAssumption`
only asks that the cap is positive), `Spec => []` of `TypeOK` (`TypeCorrect`),
`ReplayMatchesOrigin` (`ReplayCorrect`), `CapRespected` (`CapCorrect`; the bound of each bucket,
which is left to the proof) and `CarriedOutOnce`
(`OnceCorrect`). The lemmas about the store say what eviction, `move_to_end` and `put` do to its
contents (`EvictionProperties`, `TouchProperties`, `AfterPutProperties`); of expiry they use only
that some prefix is dropped. None of the four is inductive by itself: even the types need that
the queue a holder leaves is not empty. `IInv` relates the store, the locks and the requests:

- `StoreInv`: each entry holds the answer of a request of that caller, key and body;
- `QueueInv`: a request that holds or awaits a lock is once in the queue of that lock and in no
  other, and only the head of a queue may be in its handler (what `asyncio.Lock` provides);
- `LockInv`: while all responses of a key are stored, the lock its requests use is the one the
  store would hand out, and no handler of the key runs once it has a response. The condition is
  needed: an evicted entry takes its lock with it (`IdempotencyExpiry`).

`PolicyPagesProofs` proves all six safety and action properties of `PolicyPages` for any number of
versions, mounts and requests in flight, and for every set of pages (`PolicyAssumption`: the pages
are among `PageNames`): `TypeCorrect`, `BlindCorrect`, `OneWriteCorrect`, `FailureCorrect`,
`InOrderCorrect`, `EditsCorrect`. Facts about the pages (which controls are enabled when) are lemmas
that go through the pages once; the steps use the lemmas only. The invariants behind them:

- `BlindInv`: a form that is ready holds a document;
- `OneWriteInv`: every request that is not a load is awaited by its handler, and the mounted page
  awaits one request at most and is busy while it does (except on `dpa`);
- `ToldInv`: a failed write that is not on the page is one without an answer on a page that catches nothing;
- `OrderInv`: no answer tells of a document yet to be written (`KnownInv`), and while no answer has
  overtaken another, those under way are in the order of their requests and tell of nothing older
  than the page has been told (`InOrder`);
- `EditsInv`: a guarded page has one load on its way at most, shows that it loads, and holds no
  edits while it loads or saves.

`AuditForwarderProofs` proves the four safety properties of `AuditForwarder` for any workspaces,
bound of the queue, number of attempts, secrets and events (`TypeCorrect`, `FateCorrect`,
`SecretCorrect`, `OffCorrect`). `OffStaysOff` is inductive beside the types, because the worker never
writes anything but the record that is there (`WorkerWrites`); the secrets need that a PUT between its two
halves carries the secret of the destination it has just stored (`SecretInv`). For `ExactlyOneFate` the
places a job can be at are sets (`JobsIn(queue)`, `InHands`, `ArrivingJobs`, `ToldJobs`, `lost`), and
`FateInv` says that they are apart, hold the jobs that were made, and that none waits or is told of twice;
each action moves one job from one place to another, or, at a full queue and a restart, several.

`AuditFilesProofs` proves the properties of the modules that change the files of the log. `AuditErasure`,
beside `AuditAssumption`, asks that `Redacted` is no caller (`EraseAssumption`: the code writes
`[redacted]`, which no key is named).

- `ErasureCorrect` (`ErasureComplete`), assuming `OneReplica`: the reading and the rewriting of a file are one
  step, since no `await` lies between them, but only the event loop of one process keeps writes out. `EraseInv` says that the siblings
  have no gap, so that the walk reaches every file; that no line is damaged, so that none is passed over;
  and that a line of an erased caller has a later number than the erasure.
- `BlameAfterErasure` (`OnlyRedactedBlamed`), assuming `OneProcess`. `BlameInv` adds that every line
  is linked to the digest of the one before it, redacted or not (`Linked`), and the cache as above.
- `VerifierSound` (`VerifiedIsGenuine`), assuming `OneProcess`. A file that has been edited says
  nothing of what it was, so `TamperInv` keeps beside each file the chain of what the API wrote, with
  the same digest at its end (`Backed`); two chains with one digest at their ends are equal, which is shown from
  the end backwards (`ChainEndDecides`).
- `HoldCorrect` (`HoldFreezesRows`), assuming `OneReplica`, for the look at the holds and the rewrite of the file are one
  step in one process only. The cache of holds is dropped when the file changes, so a sweep goes by the holds on disk. It needs `LogInv` alone: a row carries an event that was appended, and
  numbers are not used twice.
- `SweepCorrect`, `FloorCorrect` (`OnlyOwnExpiredTaken`, `GrantedMeetsFloor`), assuming `OneReplica`: with
  several processes the caches of policies and floors go stale, and a process may grant what another has
  forbidden. `StoresInv` adds that a cache holds nothing or what is on disk.

`WebhookDeliveryProofs` proves the four safety properties of `WebhookDelivery` for any hooks, calls,
attempts, threshold, cap and rate: `TypeCorrect`, `DeletedCorrect` (`DeletedForGood`),
`FreshStreakCorrect` (`StopNeedsFreshStreak`) and `BreakerCorrect` (`BreakerNotMissed`). `BoundaryInv`
ties the boundary the breaker reads out of the record to the time of the resume, except after a
rotation (`WebhookResume` shows why). For `BreakerNotMissed` the lemmas follow the newest row of a hook to
its delivery (`Checked`): that is `closing` until it has looked at the streak, `unchecked` if the look
failed, and any row logged meanwhile is the newest itself.

`ListPagesProofs` proves the six safety properties of `ListPages` for any set of pages and of rows, and any number of
writes and requests in flight. As for the policy pages, facts about the pages are
lemmas that go through them once: an operation is offered only while its flag is not held by that
operation, and by none if the flag is a form's (`PagesOffer`). The steps are summed up by `StepKinds`,
an answer by `DeliverDoes`: the handler loads again and holds its flag, loads again and releases it,
or ends. The invariants:

- `FlagInv` (`FlagsCorrect`): a flag that is held is held by an operation of its own;
- `AloneInv` (`OneSubmitCorrect`, `RowSentCorrect`): the request that holds a flag is alone, and the
  flag names it. It holds of the form's boolean always, and of what holds a row's slot unless it is `crossed`,
  and not on the inventory, whose dialog gives the boolean back while a save is under way;
- `KnownInv` and `FreshInv` (`SettledCorrect`): nothing told is newer than the list; and while no answer
  has overtaken another, the answers are those of the first requests, each as new as the one before,
  and a page that is ready with less than it was told has a load on its way;
- `SecretInv` (`SecretCorrect`): the answer to a write that is on its way is newer than any write the page
  knows of, or, of the signing key, has made, and that key is off the page meanwhile. It needs `AloneInv`: of two
  rotations under way the older answer could come last.

`QueryPagesProofs` proves the four safety properties of `QueryPages`, for any set of pages and of items and any
number of requests in flight: `TypeCorrect`, `BulkCorrect`, `MarkCorrect` and `SettledCorrect`. `PickInv` says that the
selection lies within the rows shown, `MarkInv` that until two bulk operations were under way at once
only one is, and `AskInv` that the last read under way asks for the page's question and, if none is under way,
that the page shows its answer or an error (`ReadsAsk`), that operations ask for what the page
asks (`ActsAsk`), and that the URL of a keyed page is that of its fields unless these wait for the timer (`UrlAsks`).

With that every safety and action property that a run checks is proved. The prover cannot handle liveness:
`EveryRequestAnswered`, `BusyEnds` and `EveryJobSettles` are only model-checked. `OneProcess` and
`OneReplica` are the conditions under which their properties hold at all; the code does not enforce them.

## 5. Behaviour worth knowing that no run shows

The API:

- Two processes on one audit file fork the chain: each links its next event to the digest it remembers
  (`audit.py:181`), and the second of them fails verification, though `audit_verify.py:22-24` has the file on
  shared storage and the chart runs two replicas (`infra/helm/clawhum/values.yaml:5`). With
  `Replicas` of two, `BlameOnlyDamage` fails in three steps.
- The remembered digest is keyed by `path.resolve()` when the file exists and by the path as
  configured otherwise (`audit.py:175`). With a relative path there are two keys, and after
  a rotation a fresh file can start from the older digest instead of genesis (`:37-41`, `:48-49`).
- `set_policy` writes what the cache holds (`retention.py:180`). Before any GET that is nothing, so
  storing one workspace's policy erases the others'; after one, it waits for the lock it holds (`:157`).
- Replaying a response moves it to the end of the store, so an expired one can stand behind fresher
  ones, where eviction, which stops at the first fresh one, does not see it (`idempotency.py:134`,
  `:87-88`): it is replayed after its TTL, unlike `:13-14` says.
- The forwarder signs with the secret registered last: between the two halves of a PUT it posts to the new
  URL with the old secret, and after a restart it has none, so every event fails until somebody rotates.
  A retry is queued without a look at the bound. A file that cannot be written kills the
  thread with the job in its hands. A deletion whose write fails answers with an error
  but stops forwarding until the next boot brings the destination back.
- After a rotation that raised once its renames were done, `write_event` swallows the exception, and the next event
  opens a new file with the digest of the old one (`audit.py:144`, `:199`). The verifier blames its first line, though
  `audit_verify.py:18-20` has each file start at genesis; the traces of `AuditLog` contain this. An append that fails with the line on disk but
  for its newline leaves the older digest remembered and the next event on the same line.
- `_read_last_hash` says a malformed last line restarts the chain at genesis; it takes the last
  line that parses instead (`audit.py:74-78`, `:89-100`). The model follows the code.
- An erasure stops at a gap that an interrupted rotation left among the siblings
  (`privacy.py:50-57`), so the files beyond keep the actor. `AuditErasure` therefore assumes
  rotations that complete.
- An erasure and a sweep leave the remembered digest and the digests of the rows alone: redacted
  rows no longer verify, and a sweep breaks the chain where it removed a row. The sweep reads the
  active file only; rows in rotated files stay whatever their age, and rotation drops held rows.
- Lines cut off at the end of a file are not noticed by the verifier, and entries have no sequence
  number, although `docs/security/THREAT_MODEL.md:67-72` says deletions show and entries carry one.
- A floor is checked when a policy is set, not when the floor is raised, and hold events carry no
  time stamp, so they never expire.
- Locks of idempotency keys whose requests fail are never freed. A key is scoped by API key, not
  by workspace, and replays come before authentication.
- Pausing a hook stops new dispatches; retries under way, `/test` and `/redeliver` still send.
  Rows skipped by policy or rate count as failures for the breaker. The rate cap looks at rows
  already logged, once per delivery. A look at the breaker that raises is swallowed
  (`routes/webhooks.py:1098`), and the hook stays active until the next delivery fails.

The web client:

- Every settings page loads twice on a mount (section 1). The first answer, to a request
  without a key, may come last. When the key changes, an answer for the old one may land under the new, and a
  save then writes one workspace's values to another. Admin pages do not load again on a change.
- `webhook-destinations` and `webhook-egress` depend on the pair `useApiKey` makes anew on each
  render (`settings/webhook-egress/page.tsx:84`), so each load starts the next.
- Settings pages leave their inputs enabled while saving; the reload overwrites what is typed
  meanwhile. So does the acknowledgement of `system-use-notification` with the text of a new banner
  (`page.tsx:143-160`, `:88-92`). No PUT carries a version: of two administrators the second overwrites the first unseen.
- The slot of a list page belongs to the row clicked last: the answer of row A clears it, and the
  buttons of row B, still under way, are enabled again. On `webhooks` and `sessions`, where the slot holds an id for each
  kind of operation, one operation of a row frees another of the same row in the same way
  (`webhooks/page.tsx:280-303`, `sessions/page.tsx:175-201`), which can then be sent twice.
- A rotation or revocation of the SCIM token that took effect while its answer was lost leaves the dead token on
  the page (`settings/scim/page.tsx:99-140`). The page of the signing key takes it off before it asks.
- Failures of a row are silent on `embed-origins`, `invite-domains`, `security-contacts`, `subprocessors` and
  on revoking a key. `dsar` has no busy flag. The editor of `keys/inventory` closes on its backdrop
  while a save is under way. A second invite (`members`) or create (`keys`, `webhooks`) replaces a
  token that is shown once and not yet dismissed.
- Operations on `history`, `admin/incidents`, `dsar` and the devices of a key load again with the
  filter or row their handler was rendered with; the `finally` of `history` ends the loading sign
  of another request. The panels of a key and of a hook show one row's answer under another if answers overtake.
- Enter in the tag field of `history` starts a bulk operation while another runs (`history/page.tsx:435`); the
  first to end enables the buttons. The load after an operation on a key's device says nothing when it is refused
  (`settings/keys/page.tsx:500`): the panel keeps the list from before.
- A bulk tag operation of `history` merges the tags of the list it showed, so tags set since are lost.
- `matches/[id]/page.tsx:116` calls a hook after conditional returns (`:97-112`). The first render, without data, returns
  before it and the second does not, which React refuses, so the page never works; it is not modelled.

## 6. Not modelled, and the plan

In the modelled parts: contents of events beyond id, actor and workspace; the other three retention
categories (same loop, other files); signatures; read-only routes; the stores behind the webhook
constants; the forwarder's test request and the compaction of its delivery log; on the pages
texts, previews, validation messages, MFA codes and confirmation dialogs. The forms of list pages are always filled in
(as is that of workspace closure); the allow-list editors of a key, the panel of a rotated
webhook secret and the second form of `subprocessors`, which repeats the first, are left out, and
the session policy is a flag. A list page is mounted once. `QueryPages` leaves out `sandbox`,
`batch`, `usage`, the filter of `dsar`, `matches/[id]`, and the second load after a mount.

Not modelled at all: MFA, sessions, tokens, members and SCIM, rate limits and budgets, closure and
support access on the API side, acknowledged documents, policy stores (their pages are modelled), the music
pipeline. `PROJECT.json` lists every component with its status and reason, and the hazards with the properties that
cover them. Hazards of the API outside the models that a reader should know of: a seat limit and a last-admin rule
checked before a row is appended, without a lock, from the SCIM thread pool and the event loop
(`member_store.py:315`); `touch` refreshes `last_seen` before the caller looks whether the session
was idle too long (`sessions.py:346`); a restart drops scheduled webhook deliveries without a row
(`routes/webhooks.py:1120`); retention sweeps leave the remembered digest alone (`retention.py:317`).

What would come next:

1. Abstract specifications beside `AuditLedger`: of a delivery (every event settled once) and of a page (a register read and written through requests).
2. `Members` with seats and SCIM; `MfaStepUp` and `Sessions`; `PatStore`, `RateLimit`.
3. `Closure` with `SupportAccess`; life cycles of incidents and DSARs.
