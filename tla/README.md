# Contextator in TLA+

Contextator indexes documents from many kinds of sources into PostgreSQL and serves
them to language models over MCP. One Node.js process runs the HTTP server, the
indexer with its in-process queue, the sync scheduler, the admin API and the MCP
server; everything durable is in PostgreSQL and in a data directory.

The modules here model the parts of `src/src` whose correctness depends on the *order*
of things: the queue and its locks, a run against the index clients read, the scheduler
and its webhooks, the revision token of a source, the credential of a Notion source,
the accounts and the grants they give to MCP clients, the conversion thread, the scan for
personal data, the golden set's runner and the relevance floor. TLC checks them on
small instances, TLAPS proves the most important properties for all instances.
`PROJECT.json` lists the components, the runs, which source lines each definition
stands for, one mutation of the code that breaks each property, the hazards and the
findings. Paths below are relative to `src/src`.

1. [The system](#1-the-system)
2. [The modules](#2-the-modules)
3. [The runs](#3-the-runs)
4. [Fairness](#4-fairness)
5. [What is proved](#5-what-is-proved)
6. [What the code does otherwise than it says](#6-what-the-code-does-otherwise-than-it-says)
7. [What is not modelled](#7-what-is-not-modelled)
8. [Plan](#8-plan)

## 1. The system

### Components

| Component | Code | State | Operations | Correct when |
|---|---|---|---|---|
| Index queue | `services/indexer.ts` (`enqueue`, `runLoop`, `forget`), `index-runs.ts` | map of jobs, two lanes, `running`; `projects.status` | enqueue (join, promote, force), take, run, record, forget, recover after a restart | every request gets a run that reads what it was about; one run at a time; no job in two places or in none; people before timers; a run that died is repeated |
| Locks | `services/locks.ts` | promise chain per key | `runExclusive`, `isLocked`; `Semaphore` | first come first served, one at a time, nothing left behind |
| Index run | `indexer.ts` (`indexProject`, `collectSource`), `vector-store.ts` | documents, chunks and vectors per generation, `live_generation`, hashes, counters, the model's stamp | sync, incremental update, rebuild and swap, removal, sweep, failure | what is served changes in whole steps, to what the files said; nothing unread is taken for deleted; vectors of one model |
| Document changes | `services/document-changes.ts` | one row per path: change, `changed_at`, `added_at` | record on write, removal, swap; classify for a `since`; prune | `whats_new` tells the truth |
| Sync scheduler | `services/scheduler.ts`, `notion-webhook.ts`, `confluence-webhook.ts`, `admin/webhooks.ts` | `next_sync_at`, `webhook_due_at`, `last_synced_at`; the tick in flight | tick, advance, claim, probe, debounce | no delivery lost, no hot loop, nobody starves |
| Source settings and tokens | `services/sources.ts`, `admin/sources-routes.ts`, `indexer.ts` (`recordSyncedSource`) | row of `document_sources`: settings, content type, probe token, secret | create, PATCH, delete, record a sync | a token speaks for what is indexed under the settings beside it |
| Source drivers | `services/sources/*` | mirror on disk, manifest, cursors | sync, scan, probe | the mirror is the origin at some moment, or the sync failed |
| Uploads | `services/uploads.ts`, `admin/upload-routes.ts`, `archives.ts` | staging sessions, directory of the source | stage, commit, expire | a commit is whole, and indexed |
| Accounts | `services/auth/users.ts`, `federated-identities.ts`, `memberships.ts`, `admin/users-routes.ts`, `auth-routes.ts`, `tokens-routes.ts` | users, identities, sessions, API tokens, memberships | PATCH, DELETE, sign in, link, unlink, provision, mint, grant | somebody administers; root is local; what an identity opened ends with it; nobody is locked out |
| Single sign-on | `auth/oidc/client.ts`, `services/auth/oidc-groups.ts` | group mappings | reconcile at sign-in, map, unmap | memberships follow the mappings |
| MCP tokens and OAuth | `services/auth/mcp-tokens.ts`, `oauth.ts`, `api-tokens.ts`, `mcp/oauth-routes.ts` | clients, codes, grants, epochs | authorize, exchange, refresh, revoke | a code is used once, a revoked grant never works again |
| MCP server | `mcp/*.ts` | session registry, rate windows | open, use, reap | limits hold, idle sessions go |
| Search | `services/search.ts`, `rrf.ts`, `relevance.ts`, `reranker.ts` | none of its own | a query | best first, within the caller's scope |
| Chunking, content types | `services/chunker.ts`, `chunk-budget.ts`, `doc-types/*`, `openapi.ts` | none | text to chunks | nothing lost, nothing over budget |
| Document conversion | `services/conversion/*` | worker thread, requests in flight, open expansions, timers | convert, expand and read, time out, replace the thread, stop when idle | every call is answered; nothing parsed is kept that nobody reads; an idle thread goes |
| Embeddings | `services/embeddings/*`, `startup-maintenance.ts` | the model in use | embed, re-index after a change | the question and the documents have one model |
| Projects and quotas | `services/projects.ts`, `quotas.ts` | `projects` | create, delete, limits | deletion never under a run |
| Search quality | `services/eval-runs.ts`, `eval-scoring.ts`, `floor-calibration.ts`, `golden-questions.ts` | a run and one waiting per project, a slot, debounce timers; suggestions and the floor | run, score, calibrate, adopt | a score and a floor belong to the index they were measured on; every change is measured |
| Query log | `services/query-log.ts`, `query-summary.ts` | buffer, tables | log, flush, prune | bounded, nothing twice |
| Notion OAuth, secrets | `sources/notion-oauth.ts`, `admin/notion-oauth-routes.ts`, `crypto.ts`, `encrypted-fields.ts` | sealed columns | connect, reconnect, refresh, edit, rotate the key | a refresh token is spent once; what was replaced stays so |
| Transfer | `services/transfer/*` | archives | export, import | all or nothing |
| Findings (PII) | `services/pii-scan.ts`, `document-findings.ts` | projects asked about, the cursor of a pass, scans and findings | ask, pass, sweep, stop and start | every served document is scanned; findings are of the text that is shown |
| Audit, metrics, tracing | `audit.ts`, `metrics.ts`, `tracing.ts` | tables, counters | append | – |
| Bootstrap, panel, CLI | `db/*`, `admin/pages.ts`, `cli/*`, `config.ts` | schema | migrate, render | – |

### How they interact

* **Requests for runs.** The admin API, an upload's commit, a webhook, the scheduler,
  the recovery and a changed setting all call `enqueue(project)`. A project has at most
  one active job; a second request joins it, may promote it to the lane of people, may
  add `force`. The loop takes one job after the other, people first.
* **The project's mutex** (`KeyedMutex`, in memory). A run holds it from its second look
  at the project to its last sweep. Deleting a project, committing an upload, deleting
  a source and resetting the hashes of a source take it too. What is *not* under it: the
  PATCH of a source's row, the scheduler, webhooks, and every reader.
* **The tables.** The run writes documents of one generation while searches read the
  live one; on a rebuild the two differ and the final transaction swaps them. The
  scheduler's due times and claims, and the token of a source, are columns that the
  tick, the webhook route, the run and PATCH each read, await, and write.
* **Row locks** of PostgreSQL order the requests that touch an account.
* **Callbacks.** Timers drive the scheduler; the terminal phase of a job is published
  in a `finally`, before the mutex goes. A run that changed the index calls `onIndexChanged`,
  which asks the golden set's runner and the scanner, and a rebuild for another model
  calls `onModelChangeRebuilt`, which measures the floor.
* **Compare-and-swap.** The credential of a source, the scan of a document and the
  adoption of a floor are computed from a row that was read long before, and are
  written only where the row still is what it was.
* **A thread.** Files are converted on a worker that is spoken to by messages and dies on
  its own.

### What is hard

JavaScript runs one thing at a time, so a step of the models is the code between two
`await`s, or one SQL statement or transaction. What remains hard, and what the hazards
of `PROJECT.json` place at their lines:

* decisions before an `await` and acts after it: the route that found a project idle,
  the tick that read a row, the sign-in that looked an identity up;
* requests that *join* work in flight which is past the point they need;
* a process that dies anywhere: rows say `indexing`, a generation is half written, a
  hash is reset or not;
* steps of a run that fail one by one: a source unread, a file unreadable, a conversion
  dead between two documents of one file, a sweep cut short, a quota met;
* timers that fire late, ticks that are skipped, runs longer than the interval;
* READ COMMITTED: locking the rows of a snapshot says nothing of rows that match later;
* time stamps of transactions that commit after they began.

## 2. The modules

| Module | Stands for | Composed with |
|---|---|---|
| `KeyedMutex` | `locks.ts`: `runExclusive` as the promise chain it is | refines `FifoLock` |
| `FifoLock` | *abstract*: what the callers of a `KeyedMutex` rely on | assumed by `IndexQueue` (`line`) and `FloorCalibration` (`projectLine`) |
| `IndexQueue` | queue, loop, recovery, and the requests that share the project's mutex | – |
| `DocumentChanges` | the row of `document_changes`: recording and classifying | extended by the next two |
| `ServedIndex` | *abstract*: what the index promises its clients | refined by `IndexRun` |
| `IndexRun` | one project's runs and all other writers of its documents | instantiates `ServedIndex` |
| `SyncSchedule` | when sources are synced | the queue is a job that waits its turn |
| `SourceToken` | the row of a source between run, tick and PATCH | the schedule is a tick that comes again and again |
| `SecretRefresh` | the rotating credential of a Notion source | runs and probes are drivers that come and go |
| `Conversion` | client and worker of the conversion thread | the run of `IndexRun` is its one caller |
| `PiiScan` | scanner and findings | runs are rewrites of documents |
| `EvalRuns` | runs of the golden set | runs of the indexer are moves of a generation |
| `FloorCalibration` | measuring and adopting the relevance floor | as above |
| `Accounts` | accounts and the requests that change them | – |
| `Grants` | consents, codes and credentials of MCP clients | an account is the epoch of its credentials |
| `MCRows` | index, accounts and secret on one instance each, one at a time | extends the three |
| `MCServices` | mutex, conversion, scanner, runner and floor, one at a time | extends the five; the refinement of `KeyedMutex` |
| `MCSourceToken` | two PATCHes of one source at once, one of which only saves | extends `SourceToken` |
| other `MC…` | instances for TLC: sets, symmetry | |
| `…Proofs` | theorems and their proofs | |

A definition whose comment begins with "Mutant:" is no part of the model: it is the
definition below it as a plausible bug would have it, and no action uses it.

### IndexQueue

`jobs` is the map of jobs (`phase`, `trigger`, `force`), `interactive` and `scheduled`
are the lanes, `running` the flag of the loop, `run` the local state of `indexProject`
with the point it has reached, `line[p]` the mutex of a project (head: the holder), and
`row[p]` what `projects.status` says. `deleting` and `committing` are the requests that
take the mutex. Ghosts, read by properties only: `edited`, `uploaded`, `forceOwed`,
`wanted`.

`Enqueue` is `Indexer.enqueue` with all it does: joining an active job, adding `force`
to a queued one, promoting it to the other lane, waking the loop. `TakeInteractive`,
`TakeScheduled` and `StopLoop` are one turn of `runLoop`; the emptiness test and
`running = false` are one step, as no `await` separates them. `LookUp`, `BeginRun`,
`SyncSources`, `FinishRun`, `RecordRun`, `LeaveMutex` are the stretches of a run. A
run's status may also stay `indexing` when the update in the `catch` fails too
(`"stuck"`); the code leaves that to the next start, and so does the model.
`AskDelete`…`Forget` and `AskCommit`…`EnqueueCommit` are the routes of deletions and
commits. `Crash` empties memory; `Recover`, `Requeue`, `Listen` are `recoverInterruptedRuns`
in its order, and a second crash may come in between.

### IndexRun, DocumentChanges, ServedIndex

`documents[g][d]` is the row of path `d` in generation `g`: the hash of the file's bytes,
what the document says, the settings of its source and the model of its vectors, which
`replaceDocument` writes in one transaction. `live`, `stamp`, `counted`, `status` are the
project's columns, `changes` is `document_changes`, `run` what `indexProject` keeps in
locals. `disk` changes at any time; a run lists files, reads each later, and indexes what
it read. A file of `Specs` renders into several documents, one transaction each, so a
run can die, or lose its converter, between them.

`Rendering` maps a content to the documents it gives. It is a constant function, so
everything about parsing and chunking is abstract; what remains is what matters here:
two contents can give the same text, a text can be empty, can be too long to be stored
whole (`Truncated`; then equality proves nothing), and a specification may lose an
operation between two contents.

Other writers are `DeleteSource` (whose route counts again, or fails to), `EditSettings`
and `InvalidateDocuments` (PATCH: the row first, without the mutex; the hashes later, with
it), `Restart` with any model, whatever the stamp says. The ghost `mixed` is the set of
generations in which the code itself has let vectors of two models come together: a
restart with another model while nothing is stamped (`MixedByRestart`), and a rebuild that
begins on what a failed sweep left under its number (`MixedByRebuild`); a rebuild that
begins on nothing of another model clears its generation. `Look` marks the moment a client will later pass as `since`;
timestamps are then either after it or not, which is all `classifyChange` compares.

`ServedIndex` is the promise: `served` changes by `Publish`, in whole, and the same step
records what changed. `IndexRun` maps `served` to the live generation, and implements it.

### SyncSchedule

Instants are kept relative to now: `next[s]` and `claim[s]` are minutes left, `synced[s]`
minutes gone, and they stop counting past the last value anything compares them with.
`Clock` is a minute; a minute in which the last timer's callback has not run yet is not
modelled away: `timer` remembers it and `MissTick` drops it when a tick is still going.
`BeginTick`, `AdvanceDueTimes`, `TakeWebhookClaims`, then per source `SkipBusy`,
`RunUnprobed` or `BeginProbe`/`AnswerProbe` are `runSyncTick`; `NoteDelivery` and
`EnqueueDelivery` the webhook route; `StartRun`…`EndRun` a run of a project, per source.
`owed[s]` is the ghost of an accepted delivery no run has answered.

### SourceToken

Contents of the origin and edits are numbers. `row` is the source's row; the run copies
settings when it begins, reads content and token in the driver's order (`Late`), writes
the token back through the merge of `mergeRunConfigPatch`; the tick compares the token it
read with the answer of a probe; PATCH (`updateSource`) reads the row, validates and writes without
a lock, any number of them at once: `WriteConfig` takes the token away, `WriteSame` writes settings
and token back as they were read, `WriteFlavor` changes the column of the content type alone, and
`NarrowExtensions` is the content type that makes `updateSource` narrow the stored extensions: it
writes other settings *and* the token it read. `index` is what the index holds of the source, `failed` that a
run failed past its sync. The ghost `carried` is set by the two writes that leave a token
beside settings it was not taken under, a narrowing and a save that overwrites another PATCH, and
cleared by a run that indexes the source under what the row says, or by the next change of
the settings, which takes the token.

### SecretRefresh

`row` is the source: whether it is there, what `secret_enc` holds and which workspace
`config.oauth` names. A pair of tokens is `<<connection, n>>`; `newest` is what Notion
honours. A ciphertext has a fresh IV each time, so "unchanged since I read it" is
exactly "nobody wrote": `read` is the set of those who read what is there now, and every
`Write` empties it. `Build`, `Meet401`, `LookUp`, `RefreshPair`, `Save` are the session of a
driver, `RefreshPair` with an answer that may be lost; `Authorise`, `BeginReconnect`,
`Reconnect`, `Create`, `SealFirst` the callback; `PatchSecret`, `BeginSourcePatch`/`PatchSettings`,
`DeleteSecret` and `ReadForRotation`/`Rotate` take no lock, as in the code. The ghosts
`lost`, `replaced` and `stale` say what can no longer be expected.

### Conversion

`thread`, `requests`, `sessions`, `unread`, `idle` and `stopped` are the fields of
`ConversionService`, `open` and `Answer` the worker's sessions and its handler, `wire` the
messages between them. `Begin`, `Step`, `GiveUp` and `Drop` are what the one caller does;
`SettleRequest`, `Timeout`, `Error`, `Exit`, `IdleFires` and `UnreadFires` are the events, in any
order. A terminated thread runs on until its `Exit`. The worker may answer with a refusal, which
refuses the file, or with any other failure (`"broken"`), which ends the run; a step on an
expansion the thread does not hold (`"notOpen"`) is of the second kind.

### PiiScan

`asked` is the scanner's queue, `drain` the loop with its pass: project, cursor, the batch
it holds. `Behind` puts the projects one look finds behind the queue, in any order, as the
statement that lists them names none. `Rewrite`, `Put`, `SwapGeneration`, `SweepOld` are what runs do to documents, in any
order with the scanner's statements; `CallHook` is `onIndexChanged`, which a run calls when
it is over. `Sweep` is the look at a start; it may fail (`SweepFails`), and what is due then waits for the
next change of its index. `ScanOne` writes a scan only where the hash it read is still there. A text is a
file's revision *and* the content type it was read as, which the hash does not cover.

### EvalRuns and FloorCalibration

`states[p]` is the run of a project and the trigger that waits behind it, `slot` the
`Semaphore(1)` of the server, `timers` the debounce of edited questions, `seen` (ghost) the
number of changes the last run to read had before it. What changes an index and calls no hook
(section 6) is not among its moves. A run asks its questions one at a time
and an index may be swapped between two of them.

A measurement of the server waits for the project's lock and then for a place; one by
hand takes a place first and is refused where it would wait. `FloorCalibration` has
both orders, the probes, the suggestion with its generation, and the two transactions
that set a floor, each with its row locks.

### Accounts

A request (`req[q]`) is its kind, its account, what it read before any lock, the locks it
has still to take, and those it holds. `Locks` is the order of `updateUser` and
`deleteUser`: the active roots, by id, then the account; everything else takes only the
account. `BeginLockRoots` is the snapshot of `SELECT … FOR UPDATE`; `LockRoot` takes its rows one at
a time, waits for each, and passes over one that stopped matching. Under the locks `Decide`
reads again and `Commit` writes; a failure at any point rolls back. `RevokeSessions` is the
statement after the commit. `grown` observes that an account became root while a removal
was between its snapshot and its last lock.

### Grants

A code is in memory (`code`), a pair of access and refresh token is two rows (`pair`), and
a request (`req`) is where it is between two statements: `check`, `share` (the account `FOR
SHARE`), `claim`, `insert`, or waiting at a lock. `Exchange` redeems a code, compares its epoch with
the account's under the lock, and inserts a pair; `Refresh` claims the refresh token,
inserts a successor, or finds it spent and revokes the grant, or loses the race and is told
so. `ChangeAccount` is a password set, which raises the epoch and revokes what there is,
`Unlink`, `Disable`, `CloseSessions`, `ChangeMembership`, `DeleteProject` and `Restart` what else
ends things. `Holds` reads off the stages who holds which row. The ghosts are `code`, `epoch`
and `from` of a pair: which approval it goes back to and what it was rotated from.

## 3. The runs

Each passing run checks a type invariant and the properties below. What belongs together is
one property of a run, a conjunction of parts that are stated one by one where they are
commented:

| Property | Parts |
|---|---|
| `RunAndRowAgree`, `JobsAreKept` (`IndexQueue`) | `RunOwnsItsProject`, `IndexingMeansRunning`; `QueuedOnce`, `ForceKept` |
| `QueueGoesOn` (`IndexQueue`) | `InteractiveJobStarts`, `ScheduledJobStarts`, `InterruptedRunIsRepeated`, `RequestsAnswered` |
| `ScheduleGoesOn` (`SyncSchedule`) | `SyncedAgainAndAgain`, `DeliveryAnswered` |
| `IndexCatchesUp` (`SourceToken`) | `ProbesFindEverything`, `ContentTypeArrives` |
| `ApprovalGivesOneGrant` (`Grants`) | `CodeGivesOnePair`, `OneRefreshPerApproval`, `RacedPairIsDead` |
| `RootsRemain`, `AccountsWhole` (`Accounts`) | `ARootRemains`, `RootIsLocal`; `AlwaysAWayIn`, `MembersOnly` |
| `RefreshIsSafe` (`SecretRefresh`) | `TokenIsSpentOnce`, `StoredPairWorks` |
| `WritersAgree` (`SecretRefresh`) | `ReplacedStaysReplaced`, `OnlyOutsidersMeet`, `WorkspaceFollowsCredential` |
| `MutexSafe` (`KeyedMutex`) | `FirstComeFirstServed`, `LockedWhileUsed` |
| `ThreadIsInStep` (`Conversion`) | `IdleThreadIsTimed`, `SessionIsOpen`, `NoGraphIsLeft`, `OnlyALostSessionFails` |
| `ScansAreSound` (`PiiScan`) | `FindingsAreOfTheFile`, `NothingIsForgotten` |
| `RunsAreSound` (`EvalRuns`) | `NoChangeIsMissed`, `MostTellingTrigger`, `OkRowIsOfOneIndex` |
| `FloorIsSound` (`FloorCalibration`) | `OperatorNeverWaits`, `AdoptedWhereMeasured`, `TrailIsTrue` |
| `ServicesGoOn` (`MCServices`) | `IdleThreadGoes`, `EveryRequestSettles`, `EveryDocumentIsScanned`, `EveryChangeIsMeasured`, `RebuiltIsMeasured` |

Every part has a mutation of its own in `PROJECT.json`, which breaks the conjunction through it.


| Run | Instance | Shows |
|---|---|---|
| `queue_projects` | 2 projects: `p1` can be deleted and has uploads, `p2` takes edits and forced re-indexes; requests of people and timers; 1 crash; with fairness | A run past its second look owns its project (`RunOwnsItsProject`); `indexing` has a run behind it; a stopped loop left nothing queued; a committed upload has a run ahead of it; a forced rebuild is not lost to joins; the map and the lanes agree (`QueuedOnce`); nobody who asked waits behind a timer (`PeopleFirst`); every job starts, an interrupted run is repeated, deletions and commits are answered |
| `index_run` | a plain file and a specification of two operations, 2 contents each, 2 settings, 2 models, 2 runs, 1 edit, 1 crash, sweeps may fail | `ImplementsServedIndex`; what could not be read keeps its documents; a finished run publishes what it read; search ranks vectors of one model, outside the generations in `mixed`; both ways into `mixed` are reached |
| `sync_schedule` | a pushed source without interval and a directory due every minute, 1 source per tick, debounce 2 min, maximum age 1 min | no delivery is lost, no hot loop, both are synced again and again, each delivery is answered |
| `source_token` | 1 change at the origin, 1 edit, 2 PATCHes at once of which one only saves, runs that fail | a token speaks for what is indexed, for the settings unless `carried`; probes find every change of the content, and of the settings unless `carried`; a new content type arrives |
| `grants` | 1 account, 1 client, 2 requests, 2 codes, 3 pairs, 1 revocation | nothing of a revoked epoch lives; a code gives one pair; an approval has one live refresh token; who lost a race leaves nothing alive; codes become pairs for those who may read |
| `rows` | *index*: one file, 4 contents (two cut at the same place), 2 settings, 3 runs, 2 edits, no crash; *accounts*: a root and an account to be made, 1 identity, 1 session, 2 requests at a time, all 9 kinds; *secret*: a run and a probe, 1 callback, 2 connections, 2 refreshes | `whats_new` is true, changed settings reach every document; a root remains, roots are local, nothing outlives its link, nobody is locked out, only members have memberships, the locks make no cycle; a refresh token is spent once, what was stored works, what was replaced stays so, only those without the lock meet a refresh, the settings name the credential's workspace |
| `services` | *mutex*: 3 calls, 2 keys; *conversion*: 2 files, 3 threads; *scanner*: 1 project, 2 documents, 2 revisions, 2 rewrites, 1 failure (of a select, a scan or the sweep of a start), 1 restart; *runner*: 2 projects, 1 click, 2 changes, 1 lost row; *floor*: 2 projects, 2 measurements, 2 managers, 1 place, 2 probes, 1 swap; with fairness | the chain of promises implements `FifoLock`; every request to the thread settles, what is open is open and nothing else is, an idle thread goes; findings are of the file, nothing is forgotten, everything is scanned; no change that calls the runner is missed, the most telling trigger is recorded, an `ok` row is of one index; an operator never waits, a floor is adopted where it was measured, the trail is true, the server's measurement gets its turn |
| `queue_edit`, `source_token_failed`, `accounts_roots`, `grants_returned`, `findings_text` | smaller ones | violations, see section 6 |

**One part at a time.** `rows` and `services` hold components that share no state. Their
specifications choose a part in the first state and let only it go, so the reachable
states are the sum of those of the parts and not their product, and a property of a part
is checked on exactly the behaviours it has alone. In `services` the second project of the
runner is there to want the slot: its index is extended once (`OnlyWaits`).

**Why these bounds.** In the queue, interference is between two projects at most: one
runs, the other waits; a third would only lengthen a lane. One crash, at any point, gives
every state a crash can leave (a second one in the recovery is in the model, and its
consequence is conceded by the code). For the index, a generation number is used again
only after a rebuild failed or died, which two runs show; three runs and two edits
let a document come, go and come back, the case the change rows must survive. Each source of
`index_run` begins with the same settings (`MCSpec`): those of two sources never meet. One crash and two
runs reach both ways of mixing models: a first run dies half-way and the process comes back
with another model, or a forced rebuild dies, the process comes back with another model, the sweep
fails, and the next rebuild takes the same number. Without either half of the exception TLC refutes
`OneModelServes` within these bounds. In the
schedule, two sources and a tick that takes one are starvation's smallest case, and minutes
past the longest comparison are all alike. For tokens, a
PATCH that changes something, once, meets a run, a probe, a change at the origin and a second PATCH
that writes back what it read before (`SaverOnlySaves`), each at every point; what two that both change
something do to one another is in the theorem `TokensAreTrue`, for any number of each. For accounts, a cycle of waiting and a race both need two
requests; three are taken where a root is promoted by one while two remove. One identity
is enough, because unlinking removes all an account has; the theorems are for any number.
For grants, two requests meet at every lock; the third pair is what a reuse after a rotation
needs. A second client or account shares no row with the first. For the secret, a second connection is a reconnection,
and two refreshes let a pair be spent by one driver while the other still holds it. Three
threads are one that was terminated and runs on, its successor, and one after that. Two probes
put a swap between them.
Every bound is a constant of its module (`MaxCrashes`, `MaxRuns`, `MaxEdits`,
`MaxGeneration`, `MaxChanges`, `MaxLate`, `MaxCodes`, `MaxPairs`, `MaxEpoch`, `MaxConnections`,
`MaxRefreshes`, `MaxThreads`, `MaxRewrites`, …) and stands in the guard of the action it limits.

`CHECK_DEADLOCK FALSE` is said of the runs whose budget is used up: `index_run`, `rows`,
`services`, `grants` and the violations. The others are checked for deadlock.

**Symmetry** is used over requests and identities in `rows` (and over the two drivers of the
secret), `accounts_roots`, `grants` and `grants_returned`, none of which has a liveness property.

## 4. Fairness

* **Weak fairness of what is ready** (`Loop`, `IndexProject`, `Startup`, deletions and commits
  in `IndexQueue`; ticks, runs and routes in `SyncSchedule` and `SourceToken`): the event loop runs every
  callback that is due, and each awaited call ends, since syncs and conversions
  have timeouts and the process is started again. Nothing is assumed of clients.
* **The clock of `SyncSchedule`** goes on (`setInterval`), and a tick ends before the
  second timer after its own.
* **Strong fairness of `StartRun`** (`SyncSchedule`): a queued job gets its turn. This is what
  `InteractiveJobStarts` and `ScheduledJobStarts` say of `IndexQueue`, the second only while
  people stop asking.
* **Strong fairness of a sync that succeeds**: a source tried again and again is not
  refused every time. Without it nothing can be promised about its content.
* **Strong fairness of a PATCH that has begun** (`UpdateSource(e)`): the statements of its route
  come back, and the reset of the hashes waits for the mutex, which is FIFO (`services`).
* **`FifoLock`** is fair to each key if each `fn` ends, and `ImplementsFifoLock` shows that the
  chain of promises is too, from the fairness of each call.
* **Conversion**: only timers and the exit of a terminated thread are fair. Neither the
  worker's answers nor what the caller does next are, and every request settles all the same.
* **Scanner, runner, floor**: what a loop awaits comes back, a run that ends calls its hook,
  a debounce timer fires. Clicks, edits and swaps are not assumed.

`MCServices.Fairness` joins the conditions of the parts. Of all parts but the conversion's,
every behaviour is finite, as each counts what is left of its budget, so that one condition on
all fair steps together says as much as one for each of them: the part goes on until
none is ready. The conversion thread can go on for ever and keeps a condition for each timer.

There is no fairness between the lanes: people come first, and `ScheduledJobStarts` and
`InterruptedRunIsRepeated` say so by their premise.

## 5. What is proved

For every set of projects, calls, sources, files, accounts, clients, and every bound (what
is proved of `Accounts`, `SecretRefresh` and the five machines of `MCServices` is proved of
their own specifications, which their modules name):

| Theorem (module) | Says | By |
|---|---|---|
| `TypeCorrect` (six modules); `SecretTypesHold`, `RowsTypesHold` (`RowsProofs`); `ConversionTypesHold`, `PiiTypesHold`, `EvalTypesHold`, `FloorTypesHold`, `ServicesTypesHold` (`ServicesProofs`) | `[]TypeOK` of each machine, `[]RowsTypeOK` and `[]ServicesTypeOK` of those a run checks together | types, and what the fields of a local state have to do with one another; where a state is about who is in a line, what the next table rows say |
| `RunsOwnTheirProject`, `IndexingIsTrue` (`IndexQueueProofs`) | `RunOwnsItsProject`, `IndexingMeansRunning` | `MutexInv`: who stands in a line is who its stage says, each once, whoever is inside is the head; `OwnerInv`: a run inside has a row |
| `RunAndRowDoAgree` (same) | `RunAndRowAgree` | the two above |
| `WakeupsAreKept`, `UploadsAreIndexed` (same) | `NoLostWakeup`, `CommittedUploadIsIndexed` | `QueueInv`: a queued job is in a lane, an active one in the hands of the run |
| `JobsDoStay` (same) | `JobsAreKept` | `LanesInv`: a job stands in one lane, once, through promotions and deletions (what a removed entry, a promoted one and a new head do to it are lemmas about sequences); `WantedInv`: people are remembered as having asked exactly as long as their job waits in their lane; `RunJobInv` |
| `PeopleGoFirst` (same) | `PeopleFirst` | the same: the lane of timers is looked at when that of people is empty, and everything people asked for is in theirs |
| `MutexIsFifo`, `MapIsClean`, and both as `MutexIsSafe` (`ServicesProofs`) | `FirstComeFirstServed`, `LockedWhileUsed`, `MutexSafe` | `ChainInv`: `arrived` orders the calls of a key, each waits for the one before it, a settled promise has only finished calls behind it |
| `MutexIsALock`, and of the run's own specification `ServicesKeepTheLock` (same) | the chain of promises implements `FifoLock`, its fairness apart (`InTurn`) | `RanksInv`: the active calls of a key are finitely many and their arrivals number them without a gap; so who comes is appended (`JoinsLast`), who may go is the head, and the rest moves up (`HeadLeaves`) |
| `AnswersAreTrue` (`ServedIndex`) | the promise makes `whats_new` true | `Truth`: a recent row tells whether its document is served, one that is not recent that it is as it was |
| `Implements`, `AnswersAreTrue` (`IndexRunProofs`) | `ImplementsServedIndex`, `WhatsNewIsTrue`, where `Reliable` | `StoredInv`: a stored hash tells the stored text, and only the live and the written generation hold rows; each step is a step of `ServedIndex` or a stutter |
| `FinishedRunsPublish`, `UnreadDoKeep` (same) | `PublishesWhatItRead`, `UnreadKeepsItsDocuments` | `RenderedInv`: a row under a hash holds what its file says under it; `FilesInv`: what is refused or protected is not read, and what is refused was seen; `ProgressInv`: of every document a run has read, it is untouched and to come, or says what its file said, or is about to be removed |
| `SettingsDoReach` (same) | `SettingsReachDocuments`, until a crash | `SettingsInv`: a row that is not stale tells the settings of its source, or a PATCH still waits to say otherwise; so does a run that has read them |
| `OneModelDoesServe` (same) | `OneModelServes`, whatever fails and whenever the model changes | `ModelInv`: the live rows are of the model of the stamp, or of the one in use where there is no stamp, unless the generation is `mixed`; so are those a rebuild writes beside them; and a run that does not rebuild has the model of the stamp |
| `HotLoopExcluded` (`SyncScheduleProofs`) | `NoHotLoop` | `DueInv`: what is left of an interval and what has gone make at least the interval |
| `DeliveriesAreRemembered` (same) | `DeliveryRemembered` | `OwedInv`, and `ProbeInv` for a run that begins and ends under a probe |
| `TokensAreTrue` (`SourceTokenProofs`) | `TokenDescribesIndex`, for any number of PATCHes at once | `OriginInv`, `EditsInv`: no token and no edit is of the future; `LiveInv`: every token that is stored, held by a run or about to be written back is of no newer content than is indexed; `ConfigInv`: one that is stored is of the settings beside it, unless `carried` |
| `SomebodyAdministers` and `RootStaysLocal`, both as `RootsDoRemain`, `UnlinkingIsComplete`, `AccountsAreWhole` (`RowsProofs`) | `RootsRemain`, `LinkOutlivesNothing`, `AccountsWhole` | `Staged`: who decides holds the row; `Decided`: so what was decided upon is still so at the commit; `RootsOf`: until a removal has its locks its snapshot covers the roots, from then on it holds one, and only one removal is past them |
| `NobodyWaitsForever` (same) | `NoDeadlock`, for any number of requests and every set of them | `WhoWaits`: only a removal that is taking its roots waits while it holds; `OneHolder`: as roots are taken by their ids and its snapshot covers them, only one removal holds any, so no circle of waiting closes |
| `RefreshDoesStaySafe`, `WritersDoAgree` (same) | `RefreshIsSafe`, `WritersAgree` | `PlacesInv`: whoever is between its read and its write holds the lock; `FreshInv`, `GrantInv`: a connection not yet made, or not yet stored, is in nobody else's hands; `ReadInv`: a driver whose ciphertext is still there holds the pair of the row; `SavedInv`: what it is about to save is the newest pair of its connection |
| `NothingOld`, `OnePairOfACode`, `OneRefresh` and `RacedIsDead`, these three as `OneGrantOfAnApproval`, `MintsForMembers` (`GrantsProofs`) | `NothingOfAnOldEpoch`, `ApprovalGivesOneGrant`, `MintsForWhoMayRead` | `GrantsInv`: who is about to insert holds what it checked (`AboutToInsert`), so no epoch moves under it (`EpochInv`); a code in somebody's hands has given nothing yet (`CodeInv`); of one approval at most one refresh token is unspent, counting those that are claimed (`RefreshInv`) |
| `ThreadDoesStayInStep` (`ServicesProofs`) | `ThreadIsInStep` | `WireInv`: what is pending is exactly what is on the wire of the thread there is, one request of a file at a time; `PostInv`: each request is awaited by the caller or lets go of a file, and its answer fits what the worker has open; `BooksInv` |
| `ScansDoStaySound` (same) | `ScansAreSound` | `AskedInv`: nobody stands in the queue twice, and a loop runs while anybody does; `DrainInv`: a batch ascends and its texts are of the revision their hash names; `RowsInv`: so is every scan, none is newer than the next key, none outlives its document |
| `RunsDoStaySound` (same) | `RunsAreSound` | `SlotIs`: the slot is held by the runs that are in no line for it, so by one; `AnswersInv`: what a run was answered is of an index between the one it began on and the one served now, and of one only where it writes an ok row; `Awaited`: of a project edited and not measured something is still to come |
| `FloorDoesStaySound` (same) | `FloorIsSound` | `LineInv`, `PlacesInv`: who is measuring is the head of its project's line and counted among the places; `SuggestionsInv`, `ProbesInv`: a suggestion was measured on indexes up to the one served now, and an adopted one on the index it was adopted for; `RequestsInv`: who adopts holds the row and the floor it read |

None of the properties is inductive: each says nothing of what is under way. The
strengthenings say it, and TLC checked them before they were proved. Counting is done by
lemmas on sequences and cardinalities (what joining, leaving and being first do to a line in
which nobody stands twice), shared by the scanner, the runner and the floor.

**Assumptions.** The named `ASSUME`s of the modules say what the code validates (an
interval is at least a minute, a cap at least one) or what the data are (a file belongs
to one source). So do those of `Conversion`, `PiiScan`, `EvalRuns`, `FloorCalibration`
and `SecretRefresh`: there are finitely many projects, at least one probe, document to a batch, pair
to a connection, and a driver is no callback. Beyond them: `Reliable` (sweeps do not
fail, `since` is not inside a transaction): the run `index_run` covers failing sweeps on its instance, and section 6 tells
why the other half is needed. `ARootRemains` and `NoDeadlock` carry `~grown` in their statements, and `accounts_roots` and
section 6 show why. `crashes = 0` in `SettingsDoReach`: without it TLC finds a counterexample
(section 6). `OneModelDoesServe` and `TokensAreTrue` assume nothing; what their properties except, the
generations in `mixed` and the settings while `carried`, is in the statement of the properties, where
section 6 tells what happens there.

**Model-checked only.** Every invariant and every action property the passing runs check is
proved, under the assumptions above. What is left is what this prover has no rules for:

* All liveness (`QueueGoesOn`, `ScheduleGoesOn`, `IndexCatchesUp`, `ServicesGoOn`, and what they
  are made of): it rests on fairness, and fairness on `ENABLED`.
* The fairness half of `ImplementsFifoLock`: that `Serve(k)` of the lock happens if the calls go on.
  Its safety half is `MutexIsALock`.

## 6. What the code does otherwise than it says

| Run | Code | What |
|---|---|---|
| `queue_edit` | `services/indexer.ts:285` | `enqueue` joins the active job in every phase. A request that meets a run past its sync is lost: the change it is about is not indexed until something else asks. `scheduler.ts:268` and `sources-routes.ts:117` reason as if the run would still read it. |
| `source_token_failed` | `services/indexer.ts:534` | The token is stored when the source is synced. A run that then fails leaves it, and probes answer "unchanged" about content that was never indexed, until `SYNC_MAX_SKIP_HOURS`. |
| `accounts_roots` | `services/auth/users.ts:153` | The roots are locked as they were when the statement began. Roots made while two removals wait are in neither's lock, and the removals can take each other's root, the last two. |
| `grants_returned` | `services/auth/mcp-tokens.ts:348` | Handing a token back revokes the pairs the statement sees. A rotation that has claimed the refresh token and not committed inserts its pair afterwards, and the grant lives on, though "What comes down is the grant, not the string" (`mcp/oauth-routes.ts:887`). |
| `findings_text` | `services/document-findings.ts:145` | Whether a scan is due is told by the hash of the file. A change of the content type rewrites the text under the same hash, and findings of the old text are shown, with offsets, beside the new one. |

Noted while modelling, without a run of their own. Where a definition is named, it is in the
module, no run checks it, and TLC refutes it when it is added to the run that is named.

* `services/document-changes.ts:114`: a document that was there at `since`, was removed, came
  back and was removed again has an `added_at` in the window and is left out as one that
  "came and went". (`RemovalIsReported`, in `rows`.)
* `services/document-changes.ts:187`: `changed_at` is `now()`, the start of the transaction. A
  client that looks between it and the commit and later asks from that moment is not told of
  the change. (`WhatsNewIsTrue` in `rows` with `Looks = {FALSE, TRUE}`.)
* `services/startup-maintenance.ts:27-35`: a project without a stamp is taken for one
  without vectors. One whose first run failed half-way has vectors and no stamp, and
  after a change of the model both kinds are ranked together. (`OneModelServes` in `index_run`,
  with `Restart` leaving `mixed` as it is.)
* `services/auth/users.ts:139-146`: the order of the locks "leaves no cycle". A removal that
  holds the roots of its snapshot and then wants its account, a root made since, can meet one
  that locked that root first and waits for the others; PostgreSQL breaks it.
  (`NoDeadlock` without `~grown`.)
* `services/transfer/manifest.ts:306`: documents of an imported project are scanned "once they
  are imported". `importProject` asks nobody; they wait for a run or the sweep of the next
  start. (`ImportedIsScanned`, in `findings_text`.)
* `services/conversion/client.ts`: where a thread dies, "the run finishes". Between two documents
  of an expansion nothing is in flight, so nobody is refused; the next step meets a new
  thread that does not know the expansion, and that is no refusal: the run fails.
  (`ThreadDeathIsARefusal`, in `services`.)
* `rotate-secret` re-seals a row between the reading and the writing of a refresh: the refresh
  finds another ciphertext, does not write, and the pair it was given is lost, though
  nobody replaced anything. (`lost` in `SecretRefresh` grows by it.)
* `services/sources.ts:1040`: a PATCH of the content type alone that narrows the stored extensions writes
  `{ ...existing.config, extensions: kept }`: other settings, with the token of the old ones. If the sync of the
  run it asks for fails, every later probe answers "unchanged", and nothing but another edit or a
  run somebody asks for brings the settings to the index. The comment at 977-981 gives that very reason for
  taking the token away. (`TokenDescribesIndex`, and `ProbesFindEverything` for the settings, without
  `~carried` in `source_token`.)
* `services/sources.ts:966`: a PATCH that changes nothing writes back the settings and the token it
  read, over those of another PATCH that came between. (The same two.)
* `services/sources.ts:1006`: a PATCH of settings that began before a reconnection writes back
  the workspace it read. (`WorkspaceFollowsCredential` without `~stale`.)
* `admin/sources-routes.ts:116`: a crash between the update of a source and the reset of its
  hashes leaves the old settings in the documents. (`SettingsReachDocuments` in `rows` with
  `MaxCrashes = 1`.)
* `services/indexer.ts:624`: where the sweep before a rebuild fails, documents a dead rebuild
  left under the same number are taken for the new one's. They say what their file says,
  so `PublishesWhatItRead` holds; their vectors are not computed again. With a second model that
  is more than a saving: a first rebuild under it dies, the operator goes back, and a forced
  rebuild whose sweep fails goes live with rows of the one and a stamp of the other.
  (`OneModelServes` in `index_run`, with `BeginRun` leaving `mixed` as it is.)
* `admin/sources-routes.ts:123-141`: the deletion of a source changes the index and calls no `onIndexChanged`.
  Nor does a run that fails after it has only removed a document that became empty
  (`services/indexer.ts:1083`, which counts in neither `chunksDone` nor `filesRemoved`, and 1327). The golden set
  is not asked of what is left until the next change; the scanner has nothing to do there.
  (`NoChangeIsMissed` speaks of the changes that call the runner.)
* `services/sources/notion.ts:387` and the drivers that take the token last
  (`Late = TRUE`): a change between the reading and the token is not found by probes.

## 7. What is not modelled

* **Data.** Parsing, rendering, chunking, embedding, ranking, encryption, HTML and HTTP
  formats, the rules of the scanner, the scoring of answers, the fitting of a floor. Where a
  decision depends on their outcome, the outcome is chosen freely.
* **PostgreSQL** beyond READ COMMITTED, row locks and transaction time; full-text and
  vector search in it.
* **The network.** Drivers and probes answer anything of the kind they may answer, or throw.
* **Policy**: who may ask for what (`auth/policy.ts`). The accounts allow every request
  to everybody, so what holds does not depend on it.
* **Quota arithmetic**: a quota may stop a run at any point.
* **More than one process.** The queue and its mutexes are in memory and the program is
  deployed as one process. Only `rotate-secret`, a process of its own, is modelled beside it.
* **Group mappings** (`services/auth/oidc-groups.ts`) and their advisory lock; the **staging of
  uploads** (`services/uploads.ts`) and the two renames of its directory; the **mirror** on disk and the
  cursors of `sources/remote-store.ts`, `gdrive.ts`, `github.ts` and the web crawl; the **MCP session registry**
  and the sliding windows; the **query log**'s buffer. Each is a machine of its own that could stand
  beside these modules; none shares state with what is modelled except where the actions
  above already let it do anything.
* Components without concurrency or state of their own: search, audit, metrics, panel, CLI,
  configuration, bootstrap.

Most of the implementation's lines are data of this kind, pages, schemas, configuration and
tools: the modules cover what decides, and the map names little of what computes.
The components marked `not_modelled` or `partly` in `PROJECT.json` say of each what is missing.

## 8. Plan

What would come next, most important first:

1. **GroupMappings** (`services/auth/oidc-groups.ts`): reconciliation under a shared advisory lock
   against the deletion of a mapping under the exclusive one; the memberships of
   `Accounts` get their mappings.
2. **Uploads** (`services/uploads.ts`): staging, expiry, the two-step swap of the directory, a
   crash in it, and the commit that `IndexQueue` already orders.
3. **RemoteMirror** (`services/sources/remote-store.ts`, `gdrive.ts`, `github.ts`): the mirror, its manifest
   and the cursors under failures and restarts; it replaces the free sync of `SourceToken`.
4. **McpSessions** (`mcp/sessions.ts`): a registry with limits and a reaper: limits never passed,
   nothing in use reaped.
5. **Algorithms**: `rrf.ts`, the selection per document, `relevance.ts`, quotas, `mergeRunConfigPatch`,
   the chunker's cuts, rate windows: operators and folds against reference definitions over
   bounded inputs.

And proofs: that `IndexQueue`'s lines are those of `FifoLock`, so that what it assumes of the mutex is
what `MutexIsALock` gives; `ImplementsServedIndex` with failing sweeps, from a weaker `StoredInv`;
and of each machine above its invariant, as it is written.
