# TLA+ models of lingualayer-backend

Formal models of the LinguaLayer backend (Fastify API, Soroban event indexers),
the TLC runs that check them on small instances, and TLAPS proofs about all of
them. Paths below are relative to the repository root.

    tlc -workers 2 -config MCRegistryInstances.cfg MCDatasetRegistry.tla
    tlapm DatasetRegistryIndexerProofs.tla      # each *Proofs module takes about a minute

## 1. Inventory of the system

| component | state | operations | interacts with |
|---|---|---|---|
| DatasetRegistry indexer, `src/services/dataset-registry-indexer.ts` | tables `datasets`, `licenses`, `royalty_payouts`; a checkpoint in Redis and one in Postgres; the lag gauge | `tick`, `readCheckpoint`, `decodeEvent`, `applyEvent`, `writeCheckpoint`, `stop` | Soroban RPC, Postgres (Prisma), Redis; one per API process |
| QualityOracle indexer, `src/indexer/quality-indexer.ts` | tables `quality_attestations`, `dataset_quality`, `curators`, `indexer_cursors`; `cursor` in memory | `main`, `loadCursor`, `processEvents`, three handlers, `saveCursor`, SIGTERM | RPC, Postgres; a process of its own |
| Commission indexer, `src/services/commission-indexer.ts` | a map and `cursor`, in memory | `poll`, `upsertCommission`, `parseCommissionEvent`, `listCommissions` | RPC; emits to the WebSocket channel |
| Commission routes, `src/routes/v1/commissions.ts`, `src/services/notifications.ts` | none of their own | fulfil (map, then e-mail), reads, prepare | the map, SendGrid, IPFS, RPC |
| WebSocket channel, `src/routes/ws.ts` | the set of sockets | connect, close, broadcast | `commission:new` |
| Sign-In With Stellar, `src/routes/v1/auth-siws.ts` | nonces, in Redis or in the worker's memory | challenge, verify | Redis |
| Dataset reads, `src/routes/v1/datasets.ts` | cached answers in Redis | `cached`, list, detail, licences, royalties, languages | Postgres, Redis, the indexer's inserts |
| Transaction builder and submission, `src/lib/txBuilder.ts`, `src/routes/v1/tx.ts` | none; a prepared transaction is in the client's hands | prepare, submit and poll, fee bump | RPC, the account's sequence number |
| Quality routes, leaderboard, `src/routes/v1/quality.ts`, `src/services/curator-stats.ts` | a map of running averages | prepare (records), leaderboard | RPC, IPFS |
| Start and shutdown, `src/index.ts`; Redis client, `src/lib/redisClient.ts` | the process, the connection, the limiter's store | start, drain, forced exit, retry | every handler |
| Seed, `prisma/seed.ts` | the tables | upserts, `deleteMany`, creates | Postgres |
| Backups, `scripts/` | dumps in a bucket | dump, upload, prune, health check, restore | Postgres, S3 |
| The rest: SEP-10, roles and JWT, reports, contributors, health and metrics, rate limits, IPFS, configuration | none, or one write to a map | | |

`PROJECT.json` lists them all with what is modelled of each, or why it is not.
`dist/` holds compiled output of an older state of the sources and is ignored.

What is hard in this code, and which property answers to it, is the list of
hazards in `PROJECT.json`. The main ones:

- every `await` of an indexer is a point at which it may fail, be killed, or be
  overtaken by another process; its checkpoint must never run ahead of the rows;
- pages are replayed after failures, so the writes must be idempotent *as a
  sequence*, not only one by one;
- two stores hold the checkpoint and may disagree;
- a topic filter that does not fit the events selects none, and nothing fails;
- the RPC limits a page, refuses start ledgers outside its window and knows
  nothing of ledgers that are not closed;
- `setInterval` starts polls that overlap; a fulfil request changes the same map;
- verify calls race on a nonce, on several workers, over two kinds of store;
- a cached answer is stored after it was read, and a walk mixes pages of
  different ages;
- a transaction is prepared against a sequence number, a simulation and a time
  bound that may all be stale when it is submitted, and may be submitted twice;
- a drain waits for handlers that poll as long as the drain may last;
- a limiter is bound at the start to a Redis connection that may give up for good;
- jobs without transactions (seed, backup) stop at any of their commands.

What makes each component correct: an indexer applies every event since it
began, in order, names no ledger in a checkpoint before its events are applied,
and its tables end up as one clean pass over the events leaves them; the map of
commissions follows the chain and never goes back, one grant per commission, one
message per client; a challenge buys one session and only its owner can spend it;
an answer is never older than the cache's lifetime, and a walk lists every row
once; a prepared call that is submitted at once is accepted, a submission that is
told SUCCESS or FAILED is told what the ledger says, and every request ends; a seed run
that goes through repairs what others left; a backup called OK can be restored, and
old ones go only when newer ones are there.

## 2. Modules

| module | models |
|---|---|
| `SorobanFeed` | the events of one contract and the RPC that serves them (external): order, page limit, closed ledgers, retention |
| `AtLeastOnceFeed` | abstract: what an event indexer promises: deliver in order, commit only what is delivered |
| `DatasetRegistryIndexer` | the DatasetRegistry indexer, any number of processes |
| `DatasetRegistryProjection` | what its tables should hold, stated from the history |
| `QualityIndexer` | the QualityOracle indexer |
| `CommissionIndexer` | polls, map, fulfil requests, e-mail, WebSocket clients |
| `SiwsAuth` | the life of a SIWS challenge |
| `DatasetListing` | `cached()` and the routes over the dataset tables, beside the indexer's writes |
| `ContractCalls` | preparing contract calls, submitting signed ones, the curators' statistics |
| `ServerLifecycle` | start, drain and exit of the API process, its Redis connection, the limiter's store |
| `ApiServer` | composes the two: requests are let in, served, lost |
| `Seed`, `Backup` | the two jobs that operators run |
| `Services` | composes what runs beside the indexers and the ledger calls: cached reads, sign-in, seed, backups, one of them in a behaviour |
| `DatasetRegistryIndexerProofs`, `DatasetRegistryProjectionProofs`, `QualityIndexerProofs`, `CommissionIndexerProofs`, `SiwsAuthProofs`, `DatasetListingProofs`, `ApiServerProofs`, `MaintenanceProofs` | theorems about the module they are named after (section 4) |
| `MC*` | instances for TLC |

**SorobanFeed.** A whole history (`chain`) is chosen initially and ledgers close
one by one (`CloseLedger`), so an event exists before it is visible. `IsPage`
says what `getEvents` answers: the first `Limit` visible events from a ledger on.
The answer is deterministic; a page may end inside a ledger.

**DatasetRegistryIndexer.** `pc[p]` names the await the tick of process `p` is at:
`idle` (the timer), `readPg`, `readTip`, `fetch`, `apply`, `insert` (between
`findFirst` and `create`), `writeRedis`, `writePg`. `cp`, `start`, `high`,
`latest` are the constants and variables of `tick`; `pos` and `end` delimit the
page. `applyEvent` is one action per kind of event, and
one more for the second query of a payout. Failures are actions of their own:
a failed Redis command falls through as the empty `catch` blocks do
(`ReadRedisError`, `WriteRedisError`), a failed read of the cursor table counts
as no row (`ReadPgError`), every other rejection ends the tick (`EndTick`). `FormerLives` says what earlier processes may have left: nothing, or a
cursor row with the tables it was written with. Two
history variables: `origin`, the ledger indexing began from, and `delivered`, the
events that were applied at least once (a tick that cannot read the cursor row begins
again at the start ledger and may apply events before `origin`: the feed it implements
is of those in scope, `DeliveredInScope`). Event fields that no property tells apart
are one value (`meta`, `terms`). `indexedAt` and `issuedAt` are left out.

**QualityIndexer.** One process; `Exit` stands for SIGTERM, a crash and a failed
start alike, since a supervisor starts it again. The average is kept as sum and
count, so no rounding is modelled. `emitted` is what the contract emits and `chain`
the `Selection` of it that the request's `TopicFilters` let through; how `getEvents`
matches a filter (`Matches`: as many segments as topics, each of them the topic or
the wildcard) is external. `SentFilter` is what `topicFilter("oracle", "*")` makes:
two segments, both of them symbols. `quality_filter` has it; `quality_replay` and the
theorems are about the rest of the indexer, behind filters that match.

**CommissionIndexer.** A poll holds its answer before it is applied
(`answered`), so that answers of overlapping polls may arrive in any order. The
body after the await runs in one turn and is one action; so is a fulfil request
up to its e-mail. A cursor is a position in the history. `Restart` empties
everything, as all of it is in memory. `ListPage` is one request of a client that
pages through `GET /commissions` without the state filter; `walk` is its history.
`FirstEvent` stands for the insertion order of the map, which decides among rows
of one ledger since the sort is stable.

**SiwsAuth.** With Redis, `SET`, `GETDEL` and the arrival of their replies are
steps; the memory path is one step. A verify call carries a message the server
handed out, the address it names and the key that signed it. `now` is shared:
the clocks of workers and Redis are taken to agree.

**DatasetListing.** Ages and remaining lifetimes instead of a clock, so nothing
grows. A client may walk the list page by page, with the state filter or without,
ask for a single page behind any row (`GetPage`),
or read one dataset, its children (licences and royalties, which differ in the
table only) or the languages; `owed`, `listed` and `repeated` are the history of
its walk. A walk owes the rows that have been in the list for `Staleness` when it
begins (a younger one need not be on a page that was cached) and that stay in it. `AfterCursor` is what Prisma makes of `cursor` and `skip: 1`: the rows
from the cursor's id on that match, less the first of them, whether or not that
is the cursor's own. The keys of two uses never meet, so a behaviour has clients
of one use (`use`). `Exists` is the `findUnique` in front of `cached`.

**ContractCalls.** `Checks` is the order of the awaits in each prepare route;
`check` is where a request is in it. `source` is the sequence number of the
`Account` object that `TransactionBuilder.build()` increments: that is why
`CheckRegistered`, which builds a transaction only to simulate it, is not without
effect. Statuses of a refused prepare (404, 409, 422, 500, 503) are one outcome.
A submission goes through `sendTransaction` (`SendPending`; `SendElsewhere` for
`DUPLICATE` and `TRY_AGAIN_LATER`, which the code does not tell from `PENDING`;
`SendRejected`) and at most `MaxAttempts` polls, then answers `PENDING`. A fee
bump is refused: the server builds its envelope and nobody signs it. The network
is external: it takes the next sequence number of an account, in time, one
transaction of an account at a time, may drop what it queued, and other software
may use the account (`OtherTransaction`).

**ServerLifecycle.** The limiter's store is decided once (`Start`), from whether Redis
answered at the start. `conn` follows ioredis: `retrying` until the strategy returns null,
then `end`; the store then rejects whatever asks it. A signal before the handler
is registered ends the process; later ones find `shuttingDown`; one that falls between
the registration and `listen()` (`index.ts:106-110`) is not told from one before, as
both end a process that has no request. `Close` is
`app.close()` followed by exit 0, `ForceExit` the timer; that `app.close()` waits for
every handler is an assumption on Fastify and no property.

**ApiServer.** `Arrive` and `TurnAway` are a request meeting the limiter, `Serve` a
step of a handler, `Stop` an exit with whatever it loses. The drain's 15 seconds
are not counted against the 15 polls of a second each: that a `ForceExit` may
cut a submission is in the model, when it does so is not.

**Seed.** `Queries(d)` is the sequence of the script's queries for one dataset, each a
step, and `After` the loop over the five datasets. Rows are absent, from an earlier seed, or as this seed writes them. Columns
that the data does not give (`state`, `version` of most datasets) are not reset by
the update and not in the model, so "as this seed writes it" is said of the columns
the data gives.

**Backup.** A dump is named by the time the run starts and dated by its upload. Under
`set -euo pipefail` any command that fails ends the run (`BackupFails`), also in the
loop, which is the last part of a pipeline. `Dump` lets the dump be cut short; the
pipeline's status then fails the run. The cutoff is taken as the upload ends: what
lies between are local commands. `Expired` compares times of one clock: `aws s3 ls` prints
local time and `backup.sh:52-56` reads it as UTC, which is the same on the workflow's
runner. The health check is two requests. A run ends within
`MaxRunTime`, less than the retention time (a runner allows hours, the retention is
in days); without that, a run that stalls for the whole retention time could prune a
key that another one has just written anew.

`map` in `PROJECT.json` gives the lines each definition stands for. Definitions
headed "Faulty variant" are not part of a model: each is a plausible bug that
the check substitutes for the definition below it, to see that a property fails.

## 3. Runs

| run | instance | shows |
|---|---|---|
| `registry_instances` | 2 processes, both stores, any one of 9 kinds of fault, an RPC that keeps 3 of 4 ledgers | checkpoints are sound, alone and as part of the inductive invariant; delivery in order, no reported lag is too small, the refinement of `AtLeastOnceFeed` |
| `registry_replay` | 1 process, Postgres only, 3 faults | tables converge after replays, one row per payout among them; they come to mirror the chain |
| `registry_first_run` | 1 process, both stores, no start ledger, a contract that may be silent at first, 3 faults of 7 kinds | liveness: once Postgres has a checkpoint, nothing after it is lost |
| `quality_replay` | 3 faults, saved cursor, a filter that matches | the cursor, stale averages, convergence (slashes included), refinement of the same feed |
| `commissions_serial` | 1 poll at a time, 2 requests, a socket, a walk in pages of 1, a failure, a restart | one grant, map against chain, told once, walks skip nothing, every event gets there |
| `services`, listing | a client that walks and one that asks for single pages, 3 datasets, pages of 1, 1 fault | walks neither skip nor repeat beside inserts and state changes, answers are fresh |
| `services`, siws | 2 workers, addresses, challenges and calls; 1 lost command or restart | one session, only the owner spends, no refusal without cause |
| `services`, seed and backup | 2 seeders and 3 runs; 2 hosts and 3 backups | the seed converges, OK means restorable, pruning leaves newer dumps |
| `api` | 1 call (a commission or an attestation), 2 submissions, an outage, an exit | SUCCESS and FAILED are what the ledger says, calls prepared by the builder are accepted, every request ends |

Runs that find a disagreement between the code and what the repository says of it:

| run | finding |
|---|---|
| `registry_late_start` | a licence or payout whose dataset was registered before indexing began violates its foreign key in every tick, for ever |
| `registry_silent_start` | without a start ledger and while pages are empty, every tick begins again at the current tip: an event between two ticks is lost, contrary to `dataset-registry-indexer.ts:278-279` |
| `quality_filter` | the topic filter of `quality-indexer.ts:102` selects no event of the oracle, so the tables stay empty |
| `commissions_overlap` | an answer that arrives late takes a commission back, contrary to `commission-indexer.ts:120-121` |
| `attest_sequence` | the registration check uses up a sequence number of the account object, so every attestation that the server prepares is refused when it is submitted at once |

**Known counterexamples without a run.** Where a cfg is named, the edit it says shows it:

- *A later run whose cursor row cannot be read.* Without a start ledger, a tick that
  misses the key in Redis and fails to read the row begins at the tip: the events
  between are lost, and the checkpoint then passes them, where `:213-215` expects at
  most "re-scanning from the retention horizon". `MCRegistryFirstRun.cfg` with `"pg_get"`
  added to `Faults` violates `NothingLostOnceSaved`. With `registry_silent_start` it is
  why `SafeConfig` below asks for a start ledger or a cursor row that can be read.
- *A state change before the first indexed registration.* The first pass finds no row
  to update (`updateMany`), the replay finds one: the history registered at ledger 1,
  archived at 3, registered again at 4, indexed from ledger 2 on and replayed once after
  a crash ends in `archived` instead of the default (`:13-14`). It is why
  `ReplaysConverge` asks for `StatesFollowRegistration`. The QualityOracle indexer is
  the same with a slash that precedes the registration of its curator
  (`SlashedOnceRegistered`).
- *A cursor row that cannot be read now and then.* With `"pg_get"` and `"crash"` among
  the faults of `MCRegistryReplay.cfg`, a tick replays from the start ledger, is cut
  short, and the next one resumes from the checkpoint past the rows it left behind
  (`ReplayConverges`).
- *Two stores.* A replay from the older checkpoint that is cut short and resumed from
  the newer one leaves older values in the rows (`:13-14`, "replaying a ledger range
  is harmless"). `MCRegistryReplay.cfg` with `SPECIFICATION Spec`,
  `RedisConfigured = TRUE`, `Faults = {"redis_get", "crash"}` and only
  `ReplayConverges`.
- *Two processes.* `MCRegistryReplay.cfg` with `Indexers <- TwoIndexers`: both insert a
  payout after both found none; the slower one puts older values over newer ones.
- *A full page of the QualityOracle indexer.* The cursor moves to `latestLedger` though
  the page was cut (`quality-indexer.ts:121`, `:132-135`; `db/schema.sql:34`, "the last
  ledger this indexer fully processed"). `MCQualityReplay.cfg` with `Limit = 2`, a
  history of three attestations in ledgers 2, 2 and 3 and only `CursorCovers`. Under the
  filter that is sent no page holds anything, so it has no run.
- *A submission that is sent again.* A transaction that was taken is refused the second
  time, and the answer is 422 whatever became of it (`txBuilder.ts:110-114`).
  `AnswersAreTrue` says nothing of 422 and 500.
- *Filtered walks.* With a state filter, a cursor whose row left the list makes
  `skip: 1` leave out another row. `Stands(cursor) == TRUE` in `DatasetListing`
  violates `WalkSkipsNone`. `GET /commissions` pages by offset and so skips too when a
  state filter is given and states change.
- *Cut ledgers.* A full page that ends inside a ledger makes the checkpoint skip the
  rest of that ledger (`AlignedHistories` excludes it).
- *Overlapping seeds.* Two seed runs at once can each delete before the other creates,
  and double the payouts; the next run repairs it (`SeedConverges`).
- *A limiter that lost Redis.* After three attempts the client is at its end
  (`redisClient.ts:19`), and a limiter that was given it at the start answers 500 to
  every request until a restart, where `datasets.ts:77-79` wants an outage to "slow the
  API down, not take it down". In the model this is `RetryFails` and `TurnsAway`.

Read from the code and not modelled: the comment at `auth-siws.ts:28-29` says a nonce
consumed on one worker "is still spendable on another", where it is spendable only on
the worker that issued it (`RefusedForCause` says what the code does).
`getAccount` that fails for any reason is answered as 404, "account not found".
`restore.ts` runs psql without `ON_ERROR_STOP` and prints "done" though statements failed.

**Bounds.** Histories have up to five events over four ledgers and pages of two
events, so a history takes several pages, a page may hold events of one or of
several ledgers, and ledgers may be empty. Each kind of event occurs, and each row
is written, then overwritten. Three failures are enough for one in the middle of a
page and two during its replays; one is enough to make the two stores disagree,
and for two processes any number of them is covered by the proof. Two histories of
`registry_instances` refer to a dataset whose registration did not decode. There
`Retention = 3`, so a start ledger may fall out of the window and be refused; the
liveness properties are about an RPC that still has the events, and their runs have
`Retention = 4` for four ledgers. `registry_first_run` has the two histories whose rows
need no dataset of an earlier ledger, one of them silent in its first ledger. The histories of the passing registry runs are aligned (no full page ends
inside a ledger, `AlignedHistories`): the code relies on that, see the hazard at
line 285. In `services` one part runs in a behaviour, as the parts share nothing, and
the others rest in an initial state. Sign-in: time runs past the expiry of the
first challenge and not of one asked for at the end. Listing: with three datasets and
pages of one a walk has up to three pages, so a row can be inserted before its cursor
or behind it while a page is still to come. The second client asks for single
pages only, without the filter and behind dataset 2, to put answers of another age
under the keys of the walk; dataset 2 is also the one that changes its state, gets
licences and is asked for by id (`Active`). A key lives one unit and a request takes
one unit at most, so a stored answer can be older than the key's lifetime when it is
served. In `api` one call of each shape is enough, because calls meet only in the
account's sequence number, and `OtherTransaction` stands for every other call of the
account; two submissions are one more than a transaction needs, so they overlap and
repeat. One poll instead of 15, and one retry instead of three, keep both the
case where the last one still succeeds and the case where it does not. The network
may accept, drop, include or outlast a transaction at any time, `MaxSequence = 2`
lets the account move on twice. One outage and one exit suffice for a limiter
bound to a connection that ended and for a process that starts during an outage.
Backup: the retention time is two units, a run ends within one, and time
runs five, so a third backup prunes what the first stored; three seed runs let the
third repair what two overlapping ones left.

`CHECK_DEADLOCK FALSE` where the system stops: `registry_instances` (stopped indexers do
nothing), `registry_silent_start` (looked at for its invariant only), `services` (all
calls and runs are made, the clocks are at their bounds), `api` and `attest_sequence`
(every request is answered). Symmetry is used in `registry_instances` and `services`,
which check no liveness.

**Fairness.** Weak fairness of what the event loop does unless something fails:
`Step(p)` for an indexer (its `finally` block always schedules the next tick; the
loop of `main` has no exit), `PollStep(q) \/ PollFails(q)` for the commission poller
(`setInterval` keeps firing, and a call comes back or fails), and `PrepareStep(c)` and
`SubmitStep(s)` for the handlers of `ApiServer` (a call comes back unless something
fails: the code sets no timeout of its own on RPC calls). No fairness for
failures, ledgers closing, requests or clients. A crash is followed by a restart:
the processes run under a supervisor.

## 4. Proofs

Eight modules state, for every value of the constants (any number of processes,
requests and rows, any history, page limit, bound and set of faults), all safety
properties that the passing runs check. `GaugeSound` is about the steps that set the
gauge; how old the value is that a stuck indexer leaves there, it does not say. Each proof has the same
shape: an inductive invariant, a lemma that it holds initially, one lemma per action or
group of actions that it is kept, and a last step in temporal logic. TLC checked each
invariant on the instance of its run before it was proved. `PROJECT.json` lists the
theorems.

Beyond the named assumptions on the constants, these hypotheses are used. Each is needed
(section 3 has the counterexamples) and each holds of the instance whose passing run
checks the property; `registry_first_run` runs what `SafeConfig` leaves out, a first run
without a start ledger.

| hypothesis | says | used by |
|---|---|---|
| `SafeConfig` | no full page cuts a ledger; there is a start ledger, not past a saved cursor row, or else a saved row whose read does not fail | `IndexerInvariant` and what follows from it |
| `OneReplayer` | one process, Postgres only and its row can be read, a start ledger, new tables, no state change before the first indexed registration of its dataset | `ReplaysConverge` |
| `UncutPages` | no retention window holds more events than a page | all of `QualityIndexerProofs` but types |
| `SavedCursor # 0` | a run after the first | `FeedImplemented`, `StaleAveragesAreRedone`, `ReplayIsHarmless` |
| `SlashedOnceRegistered` | no curator is slashed before it is registered | `ReplayIsHarmless` |
| `PollsNeverOverlap` | the RPC answers within the 5 s of the interval | `SerialInvariant` and what follows from it |

`SiwsAuthProofs`, `DatasetListingProofs`, `ApiServerProofs` and `MaintenanceProofs` need none.

**DatasetRegistry, checkpoints** (`CheckpointSafe`, `OrderedDelivery`, `GaugeSound`,
`FeedImplemented`). `CheckpointCovers` is not inductive: it says nothing of the ledgers a
tick is about to write. `IndexerInv` adds what each tick knows. Its request starts where
every earlier event has been applied; in the loop everything up to `pos` has been applied,
and `high` is the old checkpoint or the ledger of an applied event; after the loop
`high` is covered, because the page ends where a ledger ends. The invariant is
local to one tick but for `delivered`, which only grows, so the steps of other
processes keep it (`TickInvKept`): that is why no lock is needed for the
checkpoints, though the rows would need one. The refinement of `AtLeastOnceFeed` needs one
invariant more (`FeedInv`): what a tick is about to save was visible when it was read.

**DatasetRegistry, tables** (`ReplaysConverge`). `RowsInv` holds what replays do not
touch: which rows there are, the first event of each (`createdLedger`), one payout per
key. The other columns are not a function of what was delivered: in a replay they go
back in time. What is kept is a lower bound: `Reflects(k)` says that every row has the
value of an applied event that is no earlier than any applied event up to `k`. It holds
with `k` at the last event of the checkpoint's ledger, whatever happens, because no
replay begins before that; and with `k = pos` inside a page. `EventReflects` is the
one step that matters: applying event `e` moves the bound from `e - 1` to `e`, and
keeps it at any earlier `k`. When `pos` is the last event ever applied, the bound and
the value meet (`CaughtUp`).

**QualityOracle** (`CursorSafe`, `FeedImplemented`, `StaleAveragesAreRedone`,
`ReplayIsHarmless`). `CursorInv` is `IndexerInv` for one process whose cursor jumps to
the latest ledger of the response. `StaleInv`: an average that disagrees with the
attestations has one of them `Ahead`, where every failure leads back to. `TablesInv`:
each row stems from an event that no `Settled` event follows, where an event is
settled when no replay begins at or before it without having applied it.

**Commissions.** What holds even when polls overlap (`EachIsToldOnce`, `WalksSkipNone`)
rests on the map only growing: a row a walk still owes has a rank of at least the rows
already paged (`WalkInv`). With polls in turn, `RowsInv` ties each row to the events
before the cursor, and counts: grants, and one more if the row is open, are never more than
the events that left it open (`GrantsAreCovered`, `MapMirrorsChain`).
That polls take turns is not what `setInterval` gives; `commissions_overlap` shows what
happens otherwise.

**SIWS** (`SessionsAreBoughtOnce`, `ChallengesAreTheOwners`, `RefusalsHaveACause`). A nonce
that was handed out is in exactly one place: its store, one call that took it out with
`GETDEL`, or the tokens (`SpendInv`). `LiveInv` is the converse: before it expires and
unless a memory was lost it is in its store, or a call of its owner took it; a `GETDEL`
whose reply was lost is such a call.

**Cached reads** (`ServedFresh`, `WalksSkipNone`, `WalksRepeatNone`). An answer read at
most `a` ago reflects every row that has been as it is for longer (`Good`): `AnswersInv`
says so of every cached answer, whose age and remaining lifetime add up to `Staleness`
at most, and of every answer on its way into the cache. A walk has listed what it owes up
to its cursor and nothing beyond (`Walked`), so pages of different ages cannot leave a
row between them.

**API process** (`AnswersStayTrue`, `FreshCallsPass`). `Numbered` follows the sequence number of the
`Account` object through the checks of a prepare request, which gives what a prepared call
is numbered with; `NetworkInv` ties what the network has done to the account's
sequence, so an answer once true stays true.

**Seed** (`SeedIsIdempotent`). A run has written all rows before its place, because no run
undoes an upsert; that holds beside other runs. Of the payouts, the datasets before the
place are exact and the current one has a prefix, but only while the run is alone
(`SeederInv`): another run deletes and creates the same payouts, which is why
`SeedConverges` asks for `alone`. The datasets are those of the script; the proof uses of
them that their ids differ and their lists are sequences (`Data`).

**Backups** (`OkIsRestorable`, `PruningIsSafe`). `PruneInv`: a run that prunes has its own
whole dump in the bucket, newer than all it lists by more than the retention time, and no
run that is still going can store under a name it lists, since a run is shorter than
the retention time.

Only model-checked:

- liveness (`EventuallyMirrors`, `NothingLostOnceSaved`, `EventuallyStored`,
  `EveryRequestEnds`): fairness and
  ENABLED are out of the prover's reach;
- the order properties of commissions when polls overlap, and the convergence of the
  registry's tables with two processes or two stores, which do not hold;
- the five runs that find a disagreement.

The models changed where a proof showed that they had to be more precise: what former
processes left (`FormerLives`), the feed restricted to events in scope, a clock bound
above zero (`MaxClock`), outages bounded from the start (`ServerInit`), finitely many
commissions, a seeder's place as a dataset and a query of it instead of a position in
one flattened sequence.

## 5. Not modelled, and the plan

Not modelled: SEP-10 (the challenge is a signed transaction and the server keeps
nothing), JWT and role checks (functions of one request), reports and roles (one write
to a map), contributors (a cache before a constant table), metrics text, rate-limit
tiers, IPFS and wallet configuration (formatting), the environment (parsing), the
readiness flag (`health.ts`: true from the start, and nothing calls `setReady`),
`restore.ts` (psql does the work). The leaderboard's averages are arithmetic on one
map; the backup's metrics textfile is written and never read here.

Done: the three indexers, the abstract feed, SIWS, the cached reads, contract calls
with the process that serves them, the seed and the backups, and theorems that state
every safety property of their runs. Next, in this order:

1. `QualityIndexer` from its first run (`SavedCursor = 0`): what the refinement and
   the tables promise before the first save, and what a run that exits before it
   leaves behind (`quality-indexer.ts:34`).
2. `SiwsAuth` over the connection of `ServerLifecycle`: the store that changes under
   the challenges when Redis comes and goes.
3. The convergence of the tables for a second process whose replays overlap the
   first's, for the tables that survive it (`payouts` does not).
