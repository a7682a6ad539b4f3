# A verification project for SyncPage

SyncPage publishes landing pages from one master to many edge nodes and brings
the leads (submitted forms) captured on the edges back to the master and on to
a webhook and a Google Sheet. Both roles are the same NestJS program over its
own PostgreSQL database. They talk over RabbitMQ where it is reachable and over
HTTP where it is not, and every handler on either side is meant to be
idempotent. There is no consensus and no distributed transaction: what makes
the system correct is the order of a handful of database calls, a table of
processed keys, and retries. That is what these modules model.

Source paths below are relative to `src/src/modules/` unless they start
elsewhere. Each definition's source lines are in `PROJECT.json` under `map`.

## 1. Inventory

### Lead capture on the edge (`form-engine/form-engine.service.ts`)
- State: `FormSubmission` rows (with `syncVersion`, OTP and payment status),
  `Payment` rows, `OutboxEvent` rows.
- Operations: `submit`, `requestOtp`, `verifyOtp`, `handlePaymentSuccess`,
  `remove`. The first three write the lead and its outbox row in one
  transaction. The payment row and its outbox row are separate calls.
- Hard: three snapshots of one lead travel independently; the snapshot of the
  completed payment does not raise `syncVersion`.
- Correct when: every committed version has its outbox row; a payment that
  completes is announced.

### Outbox publisher (`sync/outbox.service.ts`)
- State: `OutboxEvent.status/attempts`, the `publishing` flag, the connection,
  the channel and its socket buffer.
- Operations: `flush` on a timer (`outboxPollMs`), `connect`,
  `pushSubmissionViaHttp`, `pushSubmissionsBatchViaHttp`.
- Interacts with: RabbitMQ (`sendToQueue`, no publisher confirms) and the
  master's two HTTP endpoints.
- Hard: timeouts whose request goes on, a channel that is replaced, a batch
  whose answers are applied one by one, retries by another transport; a row
  that fails is tried again behind its successors; a row is SENT while its
  message is only in the socket buffer.
- Correct when: a row is SENT only if its message is safe somewhere or its socket
  buffer was lost, an unsent row is tried again, and only a failed
  publication changes the order.

### Lead ingestion on the master (`sync/sync-consumer.controller.ts`, `sync/sync-http.controller.ts`)
- State: `FormSubmission`, `Payment` and `ProcessedEvent` rows.
- Operations: `handleFormSubmissionSync` (AMQP), `receiveSubmission` and
  `receiveSubmissionBatch` (HTTP); the admin's deletion of a form cascades.
- Hard: the two paths run the same unlocked series of calls at the same time;
  versions arrive in any order; restarts between calls.
- Correct when: a lead is stored before its key is recorded, the copy never goes
  back, and the webhook is called once.

### Landing deployment on the master (`deployment/deployment.service.ts`)
- State: `Landing` rows, served files, packages, `SyncTombstone`, outbox.
- Operations: `confirm`, `syncSingle`/`syncAll`, `deleteLanding`, and the
  manifest for pulling edges.
- Hard: files are replaced outside the transaction; the version is read in one
  call and used in another; a deletion restarts the versions.
- Correct when: the event of a change commits with it, a version names one
  package, what is served is what was published.

### Landing application on the edge (`sync/landing-apply.service.ts`, `sync/sync-consumer.controller.ts`)
- State: the edge's `Landing` and `ProcessedEvent` rows, its served files,
  `activeLocks`, the failure counter of the consumer.
- Operations: `applyLanding`, `deleteLanding`, `handleLandingSync`,
  `handleLandingDelete`.
- Hard: the lock answers "done" to whoever meets it; deletion takes no lock;
  a message is given up after five failures.
- Correct when: one task at a time applies a slug, the served files match the
  row, the edge ends with the master's landings.

### HTTP pull (`sync/sync-pull.service.ts`)
- State: `isSyncing`, `lastSyncTimestamp`, the ETag; two timers.
- Operations: `tick` (incremental and full): tombstones, concurrent items, and
  the cleanup of a full pull.
- Hard: it shares the apply service with the consumer; a 60 s overlap repeats
  what is already done; the manifest is older than what it is compared with.
- Correct when: it never undoes a newer change, and it heals what AMQP missed.

### Payments (`payments/payment-verify.controller.ts`, `payment.service.ts`, `payping.service.ts`)
- State: the `Payment` row, the gateway's own state (external).
- Operations: opening a payment, the return callback (read the row, verify at
  the gateway, compare the amount, complete or reverse, write the row).
- Hard: repeated and overlapping callbacks; lost gateway answers.
- Correct when: COMPLETED means settled, REVERSED means refunded, a success is
  reported once.

### The connection to RabbitMQ (`sync/outbox.service.ts`, `connect`)
- State: `connection`, `channel`, the `connecting` lock, `destroyed`; sleeping
  retry loops; connections that answer after their timeout.
- Operations: `connectWithRetry`, `connect`, the close handler, the dial of
  `flush`, `onModuleDestroy`.
- Hard: every await of `connect` can be overtaken by the close event of the same
  or of an older connection; three places start a dial.
- Correct when: there is one dial at a time, a missing channel is being looked
  after, and the channel in use is open.

### Webhook dispatch (`form-engine/webhook.service.ts`)
- State: `webhookStatus`, `webhookAttempts` and the `WebhookInvocation` rows.
- Operations: `dispatch` (three attempts, one and two minutes apart, not waited
  for by anybody), `retryFailedWebhook`, the list of failed webhooks.
- Hard: several runs of one lead; a lost answer; a restart between attempts.
- Correct when: SENT means accepted, and what was not accepted is listed.

### Forms, products and settings (`form-engine`, `payments/product.service.ts`, `sync`)
- State: the rows on both sides, their messages, `SyncTombstone`,
  `lastSyncTimestamp`, `ProcessedEvent`.
- Operations: the panel's changes; `handleFormSync`, `handleProductSync`,
  `handleSettingSync` of the consumer; `tick` of the pull with `syncForms`,
  `syncProducts` and `processDeletions`.
- Hard: the message of a change is read back and queued after the write; two
  transports apply the same rows; a full pull has no tombstones.
- Correct when: the edge comes to have what the master has.

### Edge nodes (`nodes/nodes.service.ts`)
- State: `EdgeNode` rows; package files on the master's disk.
- Operations: `create`, `update`, `remove`, `verify`, `probeHealth`,
  `syncAllLandingsToNode`.
- Hard: `verify` writes by id long after it read; a node is filled with packages
  named by a URL whose content changes.
- Correct when: ONLINE means that this node answered, and a filled node has what
  it was sent.

### Synchronisation operations (`deployment/deployment.service.ts`, `public/admin/admin.js`)
- State: `SyncOperation` and `SyncOperationNode` rows; the tabs that show them.
- Operations: `getSyncOperationStatus`, the only writer, called by a tab every
  2.5 s until the status looks final.
- Hard: the expected landings are read anew at each call; tabs overlap.
- Correct when: COMPLETED means deployed, and what is deployed is completed.

### Resumable download (`sync/landing-apply.service.ts`, `downloadFile`)
- State: the byte count, the total, the file; attempts and resumes.
- Operations: requests with a range, their 200, 206 and 416 answers, cuts and
  timeouts; the fallback URL; the checksum.
- Hard: a file put together from several answers while the package is replaced.
- Correct when: the bytes are those of one package, and the download ends.

### One-time codes (`form-engine/form-engine.service.ts`, `public/admin/admin.js`)
- State: `OtpChallenge`, the lead's `otpStatus` and `syncVersion`; the page.
- Operations: `requestOtp`, `verifyOtp` with the opening of the payment; the
  page's submit handler.
- Hard: overlapping calls in READ COMMITTED transactions; everything after the
  commit can fail.
- Correct when: only the code verifies, a version is made and queued once, the
  payment is opened once and known before the visitor goes there.

### The rest
`PROJECT.json` lists every other part (updates, categories, panel, guards,
bootstrap, scripts) with its status and the reason. The hazards, each at its line,
are listed there too.

### How the parts interact

    edge                                     master
    ----                                     ------
    FormEngine --tx--> OutboxEvent
                          | flush
            AMQP queue <--+--> HTTP push/batch
                 |                   |
                 +---> ingestion <---+  --> ProcessedEvent, FormSubmission,
                                            Payment --> webhook, sheet

                                 DeploymentService --tx--> Landing, OutboxEvent,
                                                           SyncTombstone
    consumer <------ AMQP queue <------ flush ----------------+
       |                                                      |
    LandingApply <-- SyncPull <------ GET manifest <----------+
       |
    Landing, files, ProcessedEvent

## 2. Modules

| module | models | state and actions |
| --- | --- | --- |
| `LeadPayload` | the payload of `form.submission.sync` and its key | the snapshots `Captured`, `Verified`, `Paid` of a lead; `Key` is lead and version |
| `IdempotentInbox` | what ingestion promises (abstract) | `Accept` a new key once, `Perform` its effect at most once |
| `MasterIngest` | one handler of the master per worker | a step per database call: `CheckProcessed`, `FindForm`, `ReadExisting`, `UpsertLead`, `UpsertPayment`, `MarkProcessed`, `Dispatch` |
| `MasterIngestOverlap` | the same steps, with the history of which leads were handled by two handlers at once | `raced` |
| `EdgeOutbox` | capture on the edge and `flush` | `Capture`, `VerifyOtp`, `OpenPayment`, `CompletePayment`, `EnqueuePayment`; `StartFlush` to `EndApply` follow the body of `flush` |
| `SubmissionSync` | `EdgeOutbox` and `MasterIngest` over the two transports | the broker's queue, HTTP requests and their answers, timeouts, crashes of either side |
| `PaymentVerify` | opening a payment and its callbacks, with the gateway | a step per database or gateway call |
| `MasterOutbox` | `flush` on the master, for one edge's queue | `StartFlush` takes a batch, `Send` writes the first of it to the socket buffer, `MarkSent`; `PublishFails` (before the message is written), `MarkFails` (after it), `BrokerAccepts`, `LinkLost`, `MasterStops` |
| `LandingDeploy` | the admin's requests on the master, over `MasterOutbox` | `BeginConfirm`, `ReadVersion`, `Publish`, `Rebuild`, `Republish`, `FindLanding`, `DeleteRow`, `CleanSite` |
| `LandingEdge` | consumer, pull items and deletions on the edge as tasks | `Check` to `Mark` per task; `Fetch` to `EndPull` per pull |
| `LandingSync` | `LandingDeploy` and `LandingEdge` over AMQP and pull | `MasterAct`, `OutboxAct`, `Deliver`, `Settle`, `EdgeAct`, `Pull`, and the failures: of the outbox, of a download, of either process |
| `OutboxConnection` | the connection of one process | per dial the awaits of `connect` (`Handshake` to `Publish`), its failures, the close event, sleeping loops, `destroy` |
| `WebhookDispatch` | dispatch and manual retry, per lead | a step per POST and per database call, the waits between attempts |
| `DefinitionSync` | forms, products and settings on both sides | the panel's requests, over `MasterOutbox`; `Deliver`, the consumer and the pull as two workers over the same tables |
| `SyncOperation` | an operation, its nodes and tabs | a call of the status endpoint with its concurrent probes, deployment, outages, deletions |
| `OtpVerification` | the page, `requestOtp` and `verifyOtp` | a step per database or gateway call; transactions show their writes at the commit |
| `NodeFill` | package files on the master and the events that name them | confirm, save, delete, fill and download of `<slug>.zip`; the node's consumer |
| `NodeVerify` | the nodes' rows and their verification | read, one address after the other, the write by id |
| `ResumableDownload` | one package transfer | a request, its answer, cuts and resumes; the package may be replaced |
| `*_proofs` | theorems, see section 5 | |
| `MCMasterIngest`, `MCSubmissionSync`, `MCPaymentVerify`, `MCLandingSync`, `MCDefinitionSync` | instances of one component for TLC | the constants' values |
| `MCCapture`, `MCNodes`, `MCTransport` | instances of two or three components that share nothing: `OtpVerification` and `WebhookDispatch`; `NodeVerify`, `NodeFill` and `SyncOperation`; `ResumableDownload` and `OutboxConnection` | `part` chooses in the initial state whose behaviour it is |

Conventions. A step ends where the code awaits; what runs synchronously between
two awaits is one step. A variable that holds a history (`dropped`, `late`,
`cut`, `raced`, `overlapped`, `spoilt`, `shown`) does not influence any guard. A rigid variable is
chosen in the initial state and never changes: `syncMode` (`SYNC_MODE`),
`transports` (which paths feed the edge), `hasNodes` (whether the process has
node queues) and `part`; one run then covers every choice. Definitions marked
"wrong ..., for mutation" stand before the ones they replace in mutation runs and
are used nowhere else.

Abstractions. A lead's field values are the same in all its snapshots. A package
is its checksum; a package zipped by `syncSingle` is new each time and named by
the clock. Times are the number of changes so far. One edge is modelled, with one
queue each way: edges share nothing but the master's tables, and a lead belongs
to one edge. In `MasterOutbox` the broker keeps what it has accepted, and a row is its
index: the rows are taken in the order of `createdAt`. A form, product or setting is the time of its last change. A package
in `ResumableDownload` is a sequence of bytes that differ between packages. The
modules after `LandingSync` in the table stand alone: each has the part of its
neighbours it needs as an environment (the gateways, the receiver of the webhook,
the broker, what answers at a node's address), and nothing is assumed of it but
what the code tests. The prefetch of 1 and the manual acks of `src/main.ts` decide when
a message is delivered and where a failed one goes.

## 3. Runs

Bounds are the constants of each `.cfg`. A failure is drawn from `Faults`, and at
most `FaultBound` of them happen in a behaviour.

| run | instance | properties |
| --- | --- | --- |
| `ingest` | two leads, two handlers, any snapshot delivered any time and again, form deletion, restarts | `NotifiedOnce`, `ProcessedIsStored`, `ProcessedIsCurrent`, `LeadNotifiedOnce`, `VersionNeverRegresses`, `ImplementsInbox` |
| `sync` | AMQP with the HTTP fallback, or HTTP alone; one lead with OTP and payment (3 outbox rows, batches of 2, 2 URLs), `MaxAttempts` 2, any 2 failures of all 8 kinds, form deletion | `SentIsSafe`, `NotifiedOnlyPaid`, `MasterNeverAhead` |
| `sync_live` | the same transports, two leads, `MaxAttempts` 3, any one failure | `LeadReachesMaster`, `LeadIsNotified` |
| `sync_payment_lost` | one paid lead, no failure; expects a violation | `PaymentReachesMaster`, see section 6 |
| `payment` | two payments, one with a mismatched amount; two callbacks | `CompletedIsSettled`, `ReversedIsRefunded`, `ReportedOnce`, `CompletedIsFinal` |
| `landing_both` | both paths, two overlapping admin requests, any one of seven failures, with `MaxTries` 1 | `OneApplier`, `NothingDropped`, `RowIsAnnounced` |
| `landing_queue` | AMQP only, three changes of a landing, any two of five failures (publication, mark, connection, download, restart of the edge), batches of two, two attempts | `ServedIsPublished`, `EdgeNeverRegresses`, `EdgeCatchesUp` |
| `landing_pull` | pull only, two landings, two changes, two failures | `ServedIsRow`, `EdgeCatchesUp` |
| `definitions` | AMQP, the pull or both; a form and a setting, changes one after the other with a deletion; a restart of each side, a failed publication, a failed mark, a lost connection. One path: three changes and two of these; both: two changes and one of them | `ProcessedIsApplied`, `LiveFormsFollow`, `SettingsFollow`, `FormNeverRegresses` |
| `capture` | on an edge two leads, two overlapping calls, any one of five failures, an edit of the form, a wrong code; three dispatches or retries of a lead, two at a time, a restart, a database error | `VerifiedByCode`, `VersionsQueuedOnce`, `OfferIsBacked`; `HookUndeliveredIsListed`, `HookRepeatsAreAccounted` |
| `nodes` | a node at two addresses, one of them local, two verifications, two moves, an edit, a database error; four requests of the panel for packages, two at a time; an operation with a node, two tabs, outages, a second version, a deleted landing, a deleted node | `OnlineIsAnswered`, `AnsweredIsNotOffline`; `FillVersionedBytesAreKept`; `OperationCompletedOrDeleted` |
| `transport` | packages of two and three bytes, two URLs, three tries, three resumes, the package replaced twice; six connections, three faults, a dial of `flush`, with and without node queues | `MismatchIsReplaced`, `TransferEnds`; `LinkInv`, `LinkReconnects` |

The runs are kept to what says most. The type invariants, the inductive
invariants of section 5 and the further properties the modules state
(`VersionsAreQueued`, `VersionNamesPackage`, `SentIsAccepted`, `RowIsLastInvocation`,
`DispatchSettles`, `StoredAgrees`, `TabSettles`, `SettledNodeHasRow`,
`OneDispatchPerVersion`, `FailedIsExhausted`, `LiveIsKept`, `NoDialAfterDestroy`) were
checked with TLC on instances of the same size, and six of them are proved (section
5); adding one to a `.cfg` (or, for
a module that an `MC` module instantiates, `Hook!SentIsAccepted` and the like as a
definition there) checks it again.

Why these bounds. Ingestion is per lead: two handlers and a lead with two
versions show every pairwise race of the calls, a second lead that they do not
disturb each other. A batch of two with three rows makes a row wait for the next
batch, and two failures make a retry fail again or come by the other transport;
`MaxAttempts` 2 in `sync` lets rows run out of attempts, which `SentIsSafe` must
survive; 3 with one failure in `sync_live` keeps the failures below the number
that makes the code give a row up. For landings, three changes are the fewest that
confirm, delete and confirm again; two requests are the fewest that overlap;
`MaxTries` 1 lets the consumer give a message up and 3 exceeds the failures of the
run. A batch of two rows is the fewest in which a failed row has a successor; with two
failures a row that failed can be lost, or run out of its two attempts. Three
changes of a definition are the fewest that create, edit and delete
it, or that change a form twice beside a setting. Two overlapping calls or requests show every pairwise race
of `WebhookDispatch`, `OtpVerification`, `NodeFill` and `NodeVerify`, a third run
of the webhook starts with the rows the others left, and a fourth request for a
package confirms, deletes, confirms again and saves. Two tabs are the fewest
that overlap; a second version makes the first one stale. In `transport` a second
fault can hit while the loop of the first one sleeps and a third while the two
meet; there is one connection more than the dials the bounds allow. A package of
two bytes is cut in its middle and has a longer one beside it, which leaves the
file too long for the next range. The histories are finite, so runs of protocols
that come to rest set `CHECK_DEADLOCK FALSE`; `ingest` and `payment` never come to
rest and keep the deadlock check.

What they show:
- *Whatever overlaps, repeats or crashes on the master, the webhook hears of a key
  at most once, a processed lead is stored, and the handlers implement the
  idempotent inbox* (`ingest`). For a lead that no two handlers ran at the same
  time its copy never goes back and its webhook is called once over all its versions;
  for the others both can fail, since the version is read in one call and used
  in another.
- *An edge forgets no lead*: a row is SENT only when the master has its key or
  AMQP has its message, or a socket buffer was lost with it (`SentIsSafe`); and
  every captured lead reaches the master, with the two excuses that `Excused`
  names (`LeadReachesMaster`); and the webhook, unless a timeout, a crash or a lost
  connection made two handlers of it (`LeadIsNotified`).
- *Nothing on the master runs ahead of the edge*: neither the copy of a lead, nor
  its payment status, nor the webhook of a paid lead.
- *A payment is COMPLETED only if the gateway settled the ordered amount and
  REVERSED only if it refunded it*, with overlapping callbacks too; that it stays
  COMPLETED and is reported once holds only where callbacks do not overlap.
- *One task at a time replaces the files of a slug; an event the edge has not
  handled is on its way, unless it was in a socket buffer that was lost*
  (`OneApplier`, `NothingDropped`). Handled is also what the consumer gave up after
  `MaxTries`, or called processed when it met the lock (section 6).
- *The pull alone brings the edge to the master's landings. The queue alone does so
  for the landings whose events came in order and whose last event came*
  (`EdgeCatchesUp`): a failed publication puts an event behind its successors
  (`OutOfOrder`), a lost socket buffer or ten failures lose it (`LastLost`), and then nothing
  on the queue makes it good. What is not excused: messages sent twice, full
  buffers, lost downloads, restarts of the edge. Corrupt packages and the end of
  `MaxTries` are left out of that run (section 6). Both paths together do not (section 6).
- *A process dials once at a time and never forgets to; with node queues to declare
  it comes back after any faults* (`transport`). Connections and loops beyond
  the first go back to a dial of `flush` or a refused declaration.
- *The receiver gets a lead again only after a lost answer or in another run*; what
  it never took is listed, in whatever order overlapping runs write, unless a
  restart or a database error hit one of them.
- *The forms the master has and its settings reach the edge by either path or by
  both, whatever restarts*, as long as changes do not overlap. Where the queue is
  used, the forms excused are those whose last change was not announced
  (the master stopped between the two), whose last event was lost, or whose events came
  out of order; so are the settings on the queue alone, and those of which a
  message was sent a second time behind a later one. With one path a form never
  goes back unless its events came out of order. What happens to deletions and to
  products is in section 6.
- *An operation is completed only on a node that has the version*, unless the
  landing is deleted.
- *Only the code verifies a lead, in time; it makes one version however many
  calls bring it, and a visitor goes to the gateway only with a payment the
  callback will find.*
- *A versioned package keeps its bytes through deletions and repeated versions; a
  node is ONLINE only after its own answer; a download that ends with other bytes
  met another package.*

Each property has a mutant in `PROJECT.json`: a plausible slip in one definition
with which the run finds the property violated.

## 4. Fairness

`SubmissionSync!Fairness`: both sides are single-threaded event loops that run
every ready continuation (weak fairness of each step); the flush timer ticks
and `publishing` is always reset; the broker delivers to a connected consumer;
`connect` is retried until it succeeds; a request in flight arrives or fails.
No user action and no failure is fair. Requests of the edge already running
(opening or recording a payment) end.

`LandingSync!Fairness`: the same steps of the flush, the socket buffer, the
broker and the two loops, and strong fairness of the full pull. Its timer
(`syncPullFullMs`) skips a tick while an incremental pull runs; nothing in the code
rules out that this happens every time, so the assumption is that it does not.
Incremental pulls are not assumed.

`DefinitionSync!Fairness`: the same, with strong fairness of the full pull for the
same reason; a deployment without a transport has none of its steps.

`OutboxConnection!Fairness`: a dial is answered, refused or timed out
(`RABBITMQ_CONNECT_TIMEOUT_MS`), and a sleeping loop wakes (`setTimeout`). Neither
the dial of `flush`, which needs waiting rows, nor any fault is fair.
`MCTransport` states both for the component that `part` chose. The `Spec` of
`WebhookDispatch` and of `SyncOperation`, needed for `DispatchSettles`, `TabSettles` and
`OperationCompletes` only, assumes that timers fire and that requests
with a timeout end; `SyncOperation` also that an edge that answers downloads and
deploys (section 3, `landing_pull`). `ResumableDownload!LiveSpec`: the idle timer
of 15 s and the timeout of axios end every request. `OtpVerification`, `NodeFill`
and `NodeVerify` state safety only.

## 5. Proofs

All theorems hold for every value of the constants that meets the named
assumptions: `FormsAssumption` and `NoPayloadAssumption` (leads have a form of
`Forms`; an idle handler has no payload), `PaymentAssumption`, `OutboxAssumption`,
`FaultAssumption`, `DeployAssumption`, `RowAssumption`, `EdgeAssumption`,
`LocalAssumption`, `SyncAssumption`, `DefinitionAssumption`, `OtpAssumption`,
`VerifyAssumption`, `DownloadAssumption`, and, of the modules that an `MC` module
instantiates, `HookAssumption`, `FillAssumption`, `OperationAssumption` and
`LinkAssumption` (the bounds are naturals, the null values are no value of their sets,
the switches are Booleans, rows of different tables differ). TLC
evaluates each of them in the runs. Every inductive invariant was checked by TLC
on an instance of the run's size before it was proved; the runs keep what follows
from it.

Every safety invariant and every action property of a passing run is proved; for the
seven liveness properties, see the end of this section. Some hold
only under a hypothesis of the theorem, which is the reason why the run that checks
them has the instance it has:

| hypothesis | theorems | why |
| --- | --- | --- |
| `OneAtATime`: one request of the panel at a time | `RequestInvariant`, `VersionsNamePackages`, `ServedPackageIsPublished`, `EdgeVersionsNeverRegress`, `PulledVersionsNeverRegress` | overlapping requests read a version in one call and use it in another; met by `landing_queue` and `landing_pull` |
| `"master" \notin Faults` | `ServedPackageIsPublished` | a master that stops between the files and the row serves files without a row (section 6); met by `landing_queue` |
| `OnePath`, `"edge" \notin Faults` | `ServedPackageIsRow` | the paths overwrite each other, and a restart leaves files without a row (section 6); met by `landing_pull` |
| `QueueOnly`: AMQP and no pull | `EdgeVersionsNeverRegress` | what the pull has applied the queue takes back (section 6); met by `landing_queue`, with failed publications: what they put out of order the property itself excepts |
| `PullOnly`: no AMQP, no deletions | `PulledVersionsNeverRegress` | a full pull skips the tombstones, so that a landing deleted and confirmed again comes back below its old version; no run has this instance, TLC was given `landing_pull` with `CanDelete = FALSE`, three changes and restarts |
| `"fill" \notin Operations` | `SettledNodes` | a fill names a URL whose content changes (section 6); `nodes` has fills, so the property is checked on an instance without them |
| `OneRequest`, `"recreate" \notin Scope` | `ProcessedAreApplied`; `FormsNeverRegress` needs the first only | two edits are announced in the opposite order, and a row created again is removed by its tombstone (section 6); met by `definitions`, with all its failures: the events that came out of order the properties themselves except |

`SubmissionSync_proofs`, first part, `MasterIngest`, for any leads, forms and number of handlers. That the
webhook is called once for a key (`NotifiedOnce`) is not inductive: one has to
know that a handler about to dispatch owns its key, that no other handler has
the same one, and that it was not called yet (`OneDispatcher`); all of it rests
on the unique key of `ProcessedEvent`. That a processed lead is stored needs
`StoredBeforeMark`: between the upsert and the key, the row is there, or its form
is gone. `IngestInv` is their conjunction with the types. From `OneDispatcher`
every step maps to `Accept`, `Perform` or a stutter of `IdempotentInbox`
(`IngestImplementsInbox`).

What is about `MasterIngestOverlap` adds what holds of a lead that no two handlers ran
at once, on top of `IngestInv`: what the handler read of the row is still there
when it writes (`ReadIsCurrent`), and whoever would notify an unpaid lead read no
row, while a notified lead has one (`FirstNotifies`, `NotifiedHasRow`). The
step of a handler leaves the facts of the others alone because they are at
work on other leads (`OthersElsewhere`). It gives `ProcessedIsCurrent`,
`LeadNotifiedOnce` and the action property `VersionNeverRegresses`.

`PaymentVerify_proofs`, for any payments and number of callbacks. `PaymentInv` says
what a callback past an answer of the gateway knows of it (`StepsKnowGateway`: a
settled payment stays settled, a refunded one refunded, so the knowledge survives
the other callbacks), that two running callbacks of a payment are in the
history (`OverlapIsNoted`), and that without overlap only one callback of an
unfinished payment can still write or report (`OneSettles`). It gives
`CompletedIsSettled`, `ReversedIsRefunded`, `ReportedOnce` and the action property
`CompletedIsFinal`.

`MasterOutbox_proofs`, for any rows, batch sizes and attempts, holds the lemmas that
landings and definitions share. The outbox, with its failures and the line (the
queue and then the socket buffer), promises an order to a set of events when
some of them are known to be handled (`SendingInOrder`): what was written, or failed, is
somewhere (`TriedIsSomewhere`, `WrittenIsSomewhere`, `SentIsSomewhere`); nothing goes
before an event that has not failed yet (`UntriedIsNext`); an event behind a later one in the
line was overtaken, or is a repetition (`LineInOrder`), and so is one still to come
after a later one was handled (`HandledInOrder`). A lemma per kind of step
keeps it: the steps of the outbox (`OutboxOrder`), a handled head of the queue
(`AckOrder`) and a new event (`AnnouncedOrder`). `Overtaken` is narrower than "failed": a row
that failed after its message was written is repeated, not overtaken, unless
the socket buffer took the first copy with it.

`LandingSync_proofs`, for any landings, packages, overlapping requests, failures
and transports. The types alone are not inductive: settling a message takes the
tail of the queue, so the consumer at work must have its message at the head
(`ConsumerAtHead`). With it, and with what the outbox promises (`PlacesInv`: the row about to
be marked SENT has its message in the line, handled or lost), `LandingInv` gives
that the lock of a slug is held by exactly one applying task (`OneTaskApplies`) and that
an event the edge has not handled is unsent, in the line, or was in a lost
socket buffer (`NoEventIsDropped`). That the last event of a slug
announces its row (`RowsAreAnnounced`) follows step by step: only the transaction that
writes the row appends an event.

The rest of the landing path needs its hypotheses. With one request at a time,
`OneInv` says that events are not newer than the row (`EventsBelowRow`), that
versions climb from one event to the next unless a deletion lies between
(`VersionsClimb`, `DeletionsLeaveTombs`), that the version a request has read is still free
(`VersionIsFree`) and that the served files are the row's or those the request is
replacing (`SiteInHand`); it gives `ServedIsPublished` and `VersionNamesPackage`. With one path
that never restarts, `ServeInv` says of every task what it knows of its slug
(`TaskKnows`), and gives `ServedIsRow`. That a landing does not go back on an edge
fed by the queue takes three more: event keys never repeat (`KeyInv`, which needs
no hypothesis: theorem `EventKeysAreUnique`), the events are sent in order (`SendingInOrder`, of all
events), and the consumer records what it has applied (`ConsumerKnows`); together
`OrderInv`. Unless the events of a slug came out of order or were skipped, its row is
traced to the index of its event (`RowOf`), so that the order of indices is the
order of versions. On an edge that pulls there is no such order, and the argument is another
one: no row is ahead of the master's (`NotAhead`), whose versions only climb while nothing
is deleted (`LandingClimbs`); a manifest has one item for a slug, which lies between the
two (`ItemsBetween`) until the pull has ended, since the items are applied one per slug. Both
theorems conclude `EdgeNeverRegresses`, with any lost downloads and restarts.

`SubmissionSync_proofs`, second part, for any leads, forms, handlers, batch size, tries and
failures and either `SYNC_MODE`. `SyncInv` follows a lead through every place it can be
in: an outbox row, a batch in hand, a request, an answer, the socket buffer, the queue,
a handler, the history of lost messages. Every message is `Known`, that is true of
the edge's lead (`TrueOf`), and stays so because a lead only moves forward
(`LeadShape`, `Forward`); the consumer has its message at the head
(`ConsumerAtHead`) and a push has its rows in hand (`PushInHand`); an answer that is not a
failure names a processed key (`AnswersAreTrue`). With them a row that is marked SENT is
`Safe` (`SentRowsAreSafe`). The handlers of the composed module take the steps of
`MasterIngest`, so that `IngestInv` is reused as it is; the one step they do not share,
the next item of a batch, changes nothing but the task. The rest is
`WebhookHearsOnlyPaid`, `MasterFollowsEdge`, `CommittedVersionsAreQueued`, and that
the whole path implements `IdempotentInbox` (`SyncImplementsInbox`).

`DefinitionSync_proofs`, for any forms, products, settings, changes and sets of
transports. `DefInv` are the types with what they rest on: the message in hand is the head
of the queue, a transport that is not used carries nothing, and everything
under way is older than the clock. What brings a definition differs between the
transports, and so does the argument. In the queue the upserts of forms are sent in
order (`SendingInOrder`), and their versions climb along the log (`LogClimbs`), since the change a request
has to announce is the last one (`LastChange`); so the edge has nothing newer than what is
still to come, unless that is a repetition, whose key is recorded, or came out of
order (`EdgeIsBehind`). The pull has no order; instead, nothing on the edge is newer than
the manifest in hand, which is not newer than the master (`PullInv`). Either way a write never
goes back (`FormsNeverRegress`), so what was written stays written until its key is recorded
(`Written`). A deletion is told from a loss by its tombstone, which is
newer than all that was known of the row (`TombsAreLast`). Together they give
`ProcessedAreApplied`.

`MCCapture_proofs` has two parts. For `OtpVerification`, any leads, calls and failures and either role.
`OtpInv` says of every running call what it knows (`CallInv`: past the check the code
was the lead's, before the commit it owns the row's lock and the row is as it read
it, while it opens a payment the gateway has opened none or that one), that at most one call is on its way to open a lead's payment
(`OnePays`), and what the rows of a lead look like together (`RowShape`). It gives
`VerifiedByCode`, `VersionsQueuedOnce` and `OfferIsBacked`. For `WebhookDispatch`, any leads
and runs: `HookInv` says that a lead is SENT, or a run about to say so, only
if the receiver accepted (`GoodIsAccepted`), and that a lead that is not listed is still
tried, or is excused (`UnlistedIsActive`). That deliveries are no more than runs and
lost answers is a sum over a changing set of runs: `RunsAreCounted` adds
the number of the runs that may still deliver (`Hoping`), and each step moves one of them.
It gives `HookUndeliveredIsListed`, `HookRepeatsAreAccounted` and `SentIsAccepted`.

`MCNodes_proofs` has three parts. For `NodeVerify`, any nodes, addresses and calls. A verification writes by id
what it heard at an address, so `WritesAccepted` says that a call
about to write has heard an answer accepted for its node, and `HeardIsGone` that a
call which heard one and still asks further has lost its row for good. It gives `OnlineIsAnswered` and
`AnsweredIsNotOffline`. For `NodeFill`, any versions and requests: a package that a
request has in hand is on the disk (`PackageInHand`), and the file of a queued event with
a versioned name is there with the bytes of its checksum (`EventsAreKept`), since a name
contains the checksum, so that a file is only ever replaced by one with the same bytes, and
no request removes a versioned file. For a node that is
never filled, its row after everything queued is the landing's (`NoFills`,
`Upcoming`). For `SyncOperation`, any nodes and tabs: a call knows the entries it
probes (`CallsKnowEntries`, `BranchesOfCalls`) and, as long as the landing is there,
expects a version (`CallsExpectIt`), and a node that never had the landing's version is
nowhere marked completed (`CompletionIsBacked`).

`MCTransport_proofs` has two parts. For `ResumableDownload`, any lengths, URLs, tries and resumes. As long as no
other package answered, the file is a prefix of the wanted package, the byte count
its length, and the answer being read continues it (`BodyContinues`); so a complete
file is the package (`MismatchIsReplaced`). The file is built byte by byte, which
needs no induction over its length.

For `OutboxConnection`, any connections, faults and loops: that there is one dial at
a time, that somebody looks after a missing channel, and that loops and connections
are accounted for (`LinkInv`) holds together with `DialsAreUp`: a dial past its handshake is
on an open connection. The account is an equation of cardinalities of finite
sets; a lemma per kind of step says which set gains or loses which element
(`StepAccounted`). From the same invariant come the action properties that an open channel is not
replaced (`OpenChannelKept`) and that a destroyed process dials no more
(`DestroyedDialsNoMore`).

Model-checked only:
- Liveness under fairness, which is beyond the prover: `LeadReachesMaster`,
  `LeadIsNotified`, `EdgeCatchesUp`, `LiveFormsFollow`, `SettingsFollow`, `TransferEnds`,
  `LinkReconnects`, and `DispatchSettles`, `TabSettles` and `OperationCompletes`, which no run
  has.
- `RowIsLastInvocation`, `StoredAgrees`, `OneDispatchPerVersion` and `FailedIsExhausted`:
  they restate a few steps of one component, and were not worth a proof.
- Every property of section 6, which the code violates. `EdgeNeverRegresses` is one of
  them on an edge that both paths feed, and with pulls while landings are deleted.

## 6. Where code and documentation disagree

One has a run, `sync_payment_lost` (`findings` in `PROJECT.json`): the completed
payment of an edge's lead repeats the key of the pending one, and the master
drops it as a duplicate, against the comment at
`form-engine/form-engine.service.ts:1052`.

The others were met while modelling. Each is shown by TLC on the module named,
with the constants named (and for the rest those of the run's `.cfg`), as the
violation of the property named.

Lead path (`MCSubmissionSync`, `FairSpec`)
- *A row stays first in every batch.* In HTTP mode an answer is looked up by its
  payload's key among rows that carry the outbox key; a payment event has another
  one (`sync/outbox.service.ts:446`), so no answer names it. `README.md:203` calls the
  leads buffered and returned. `LeadReachesMaster` in `sync_live` with
  `Leads = {paidLead, plainLead}`, `SyncModes = {"http"}`, `BatchSize = 1`, no faults.
- *A lead that can never be stored blocks the queue.* The form was deleted on the
  master; the message is requeued at the head of a queue with prefetch 1
  (`sync/sync-consumer.controller.ts:511`). `LeadReachesMaster` in `sync_live` with
  `Deletable = {otpForm}`, no faults.
- *Nobody calls the webhook.* After a timeout the retry can store the key while the
  first handler stores the lead (`sync/sync-http.controller.ts:188`).
  `LeadIsNotified` without `faults.harsh > 0` and with `Faults = {"timeout"}`.
- *A retry that overlaps the first attempt fails* on the unique key instead of being
  accepted silently (`sync/sync-http.controller.ts:98`): in `MasterIngest`,
  `MarkProcessed` goes to "failed".
- *A SENT row is lost* with the socket buffer of a connection that closes
  (`sync/outbox.service.ts:539`): the second disjunct of `Excused`.
- *Of two overlapping handlers of a lead the older version can be written last*
  (`sync/sync-consumer.controller.ts:395`), and each can call the webhook for its version:
  `ProcessedIsCurrent` and `LeadNotifiedOnce` in `ingest` without `raced`.

Payments (`MCPaymentVerify`)
- *Of two overlapping callbacks one can complete a payment and the other mark it
  FAILED* (`payments/payment.service.ts:195`), *and both can report the success*
  (`payments/payment-verify.controller.ts:178`): `CompletedIsFinal` and `ReportedOnce` in
  `payment` without `overlapped`.

Landing path (`MCLandingSync`, `FairSpec`, `EdgeCatchesUp` unless another property is named)
- *An event that meets the slug's lock is recorded as processed*
  (`sync/landing-apply.service.ts:91`); `README.md:202` says each edge applies updates.
  `UseAmqp` and `UsePull`, one request, `MaxChanges = 2`, `CanDelete = FALSE`,
  `MaxTries = 3`, no faults.
- *One failed publication puts version 1 behind version 2*
  (`sync/outbox.service.ts:549`): `landing_queue` with `Faults = {"publish"}`,
  without `OutOfOrder`.
- *A SENT event is lost with the socket buffer* (`sync/outbox.service.ts:504`, `:539`), and
  the edge never hears of that landing: `landing_queue` with `Faults = {"link"}`, without
  `LastLost`. A lost deletion can also let a landing go back to an older version:
  `EdgeNeverRegresses` without `Skipped`, `MaxChanges = 4`, two packages.
- *A corrupt package is acked* (`sync/sync-consumer.controller.ts:507`), and without a
  pull nothing brings the landing again: `landing_queue` with `Faults = {"corrupt"}`.
- *A message is given up and recorded as processed after `MaxTries` failures*
  (`sync/sync-consumer.controller.ts:54`): `landing_queue` with `MaxTries = 1`
  and `Faults = {"download"}`.
- *A master that stops between the replaced files and the row serves files of no
  row* (`deployment/deployment.service.ts:112`): `ServedIsPublished` in `landing_queue` with
  `Faults = {"master"}`.
- *A pull's deletion runs inside the consumer's apply*, which then leaves a row
  without files (`sync/landing-apply.service.ts:430`): `ServedIsRow`, both paths, one
  landing, no faults.
- *A landing deleted and confirmed again within the 60 s overlap is removed* by the
  repeated tombstone, and its processed key keeps it away: `landing_pull` with
  `MaxChanges = 3`.
- *A restart between the deletion of a row and of its files leaves the files
  served* (`sync/landing-apply.service.ts:438`): `landing_pull` with
  `Faults = {"edge"}`.
- *A package confirmed again after its deletion has the key of the first time*; the
  transaction fails after the files were replaced
  (`deployment/deployment.service.ts:157`): `ServedIsPublished` without `Kept`.
- *A landing goes back to an older version* when an event of the queue is applied after
  a newer manifest, since the consumer compares no versions
  (`sync/sync-consumer.controller.ts:65`): `EdgeNeverRegresses` in `landing_pull` with
  `UseAmqp = TRUE`, `CanDelete = FALSE`, one landing, `MaxChanges = 3`; and, with pulls
  alone, when a full pull skips the tombstone between the two: one landing, no faults,
  `MaxChanges = 4`.

Connection (`OutboxConnection`)
- *A closed connection stays as the channel.* It closes while `connect` awaits the
  node list (`sync/outbox.service.ts:251`), the close handler's retry returns at the
  lock, and nobody dials again, although line 229 logs "will retry". `DeadIsReplaced`
  with three connections, `MaxFaults = 1`, `MaxFlushes = 0`; only a process without
  node queues is concerned.

Webhook (`WebhookDispatch`)
- *A restart between two attempts keeps a failed lead off the list*: the status is
  written after the last attempt, and the column's default is SENT
  (`form-engine/webhook.service.ts:69`). `views/admin/failed-webhooks.hbs:9` lists the
  leads whose webhook failed. `FailuresAreListed` with `MaxRuns = 1`,
  `MaxRestarts = 1`, `MaxDbErrors = 0`.

Definitions (`DefinitionSync`, with one of `Forms`; `Deployments` as stated, and as
many changes in `Limit`). The first four are violations of
`<>[](\A f \in Forms : Follows(f))`.
- *The deletion of a form is acked as invalid by the edge*
  (`form-engine/form-engine.service.ts:245`): `{{"amqp"}}`, `Scope = {"delete"}`,
  two changes.
- *A full pull skips tombstones and moves past them*
  (`deployment/deployment.service.ts:498`): `{{"pull"}}`, `Scope = {"delete"}`.
- *A form created again is removed by its own tombstone*
  (`sync/sync-pull.service.ts:161`): `{{"pull"}}`, `Scope = {"delete", "recreate"}`,
  three changes.
- *Two edits are announced in the opposite order*
  (`form-engine/form-engine.service.ts:226`): two `Requests`, both transports,
  `Scope = {}`.
- *A form whose publication failed once ends with its older definition*
  (`sync/outbox.service.ts:549`): the event is sent behind its successor, whose key
  is processed. `LiveFormsFollow` and `FormNeverRegresses` without `OutOfOrder`, `{{"amqp"}}`,
  `Scope = {"publish"}`, two changes. The same of a setting.
- *A form or setting in a lost socket buffer stays old*: `LiveFormsFollow` without
  `LastLost`, `{{"amqp"}}`, `Scope = {"link"}`, one change. The pull, where there is one,
  makes it good.
- *A setting goes back when its message is sent again behind a later one*
  (`sync/outbox.service.ts:511`, `:539`): a setting's message has no key and the consumer
  compares nothing. `SettingsFollow` without `Repeated`, `{{"amqp"}}`,
  `Scope = {"resend"}`, two changes.
- *A master that stops between a row and its message never announces it*
  (`form-engine/form-engine.service.ts:155`): `LiveFormsFollow` without `cut`, `{{"amqp"}}`,
  `Scope = {"masterRestart"}`, one change.
- *No path brings a product to an edge* (`payments/product.service.ts:131`,
  `sync/sync-pull.service.ts:272`): `<>[](\A p \in Products : Follows(p))`, one of
  `Products`, `Paid = Forms`, both transports, `Scope = {}`.
- *A form with a product blocks the edge's queue*
  (`sync/sync-consumer.controller.ts:215`): `SettingsFollow` with one of `Products`,
  `Paid = Forms`, `{{"amqp"}}`, `Scope = {}`.

Operations (`SyncOperation`, one tab)
- *Once the landing is deleted, any node completes*
  (`deployment/deployment.service.ts:308`), while the tab says that the nodes confirmed
  by checksum (`public/admin/admin.js:1394`): `CompletedIsConfirmed`, one node,
  `Scope = {"deletion"}`.
- *A node that answers again is still called unreachable*
  (`deployment/deployment.service.ts:332`): `UnreachableIsSilent`, one node,
  `Scope = {"outage"}`.
- *The tab stops at PARTIAL, and the operation with it*
  (`public/admin/admin.js:1419`): `OperationCompletes`, two nodes, `Scope = {}`.
- *A node with the role SLAVE never completes* (`src/common/health.controller.ts:41`
  against `README.md:9`): `OperationCompletes`, one node that is in `Mute`.

One-time codes (`OtpVerification`, one lead, one call)
- *An unverified, unpaid lead of a paid form goes to the webhook*
  (`form-engine/form-engine.service.ts:321` against
  `sync/sync-consumer.controller.ts:469`): `UnpaidIsNotDispatched`, `IsEdge = FALSE`.
- *A payment whose opening failed once is never offered again*
  (`form-engine/form-engine.service.ts:448`): `ThankedIsOffered`, `Faults = {"gateway"}`.
- *The page says the code was sent when the SMS gateway refused it*
  (`form-engine/form-engine.service.ts:314`, `public/admin/admin.js:1005`):
  `PromisedIsTexted`, `Faults = {"sms"}`.
- *Wrong codes are not counted*: the exception rolls the increment back
  (`form-engine/form-engine.service.ts:367`): `WrongCodesAreCounted`, `MaxWrong = 1`.

Nodes
- *A new node drops the landings it is filled with*: the event names `/package` with
  the checksum of the row's package (`nodes/nodes.service.ts:474` against the comment at
  `deployment/file.service.ts:162`): `FilledNodeHasRow` of `NodeFill`, `MaxRequests = 2`,
  `Operations = {"confirm", "fill"}`.
- *A database error makes a node that answered OFFLINE* (`nodes/nodes.service.ts:426`):
  `OfflineIsUnheard` of `NodeVerify`, one call, `MaxDbErrors = 1`.

## 7. Plan

Done, in this order: the lead path, the landing path, payments; then definitions,
webhook dispatch, the connection, operations, one-time codes, nodes, the
resumable download; then the proofs, component by component, of every safety
property of the runs. What is left, by worth:
1. Refinements between the modules that model one thing at two grains:
   `OutboxConnection` against the connection of `SubmissionSync`, and
   `ResumableDownload` against the download step of `LandingEdge`.
2. `OneDispatchPerVersion` of the one-time codes, by what each call still has to dispatch.
3. The upload with its preview, and install tokens.

## 8. Not modelled

Rendering, validation of form fields, file extraction, the Google Sheet call,
guards and configuration (the settings that change behaviour are constants of
the modules), install tokens, the upload and its preview, the ETag of the manifest
(a 304 answer changes nothing), the version check, and single-table
administration. Within the modelled parts: an empty setting value, the fields of a
definition, a form's products read between its two writes, products in the
instance of `definitions` (the module has them; no path brings one to an edge), a broker
that loses what it has accepted, an operation with several
landings, a package answer that ends by closing the connection without a length,
and the time a fallback URL is kept waiting. Liveness is model-checked only. TLC's
instances bound leads, landings, changes and failures; the theorems do not.
