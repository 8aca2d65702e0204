----------------------- MODULE DatasetRegistryIndexer -----------------------
(***************************************************************************)
(* The DatasetRegistry event indexer                                       *)
(* (src/services/dataset-registry-indexer.ts).  Every API process starts   *)
(* one (src/index.ts), so several may run at once.  A tick reads the       *)
(* checkpoint, from Redis or else from Postgres, asks the RPC for a page   *)
(* of events, applies them one by one to the projection tables, and writes *)
(* the checkpoint back to both stores.  There is one action per await, so  *)
(* ticks of different processes interleave wherever the event loop or the  *)
(* database lets them.                                                     *)
(***************************************************************************)
EXTENDS SorobanFeed

CONSTANTS
    Indexers,         \* the processes that run an indexer
    RedisConfigured,  \* whether getRedisClient() returns a client
    StartLedger,      \* options.startLedger; 0 when it is not given
    FormerLives,      \* what earlier processes may have left in the database
    Datasets,         \* dataset ids
    Licenses,         \* licence ids
    Metas,            \* what dataset_registered carries beside its id
    DatasetStates,    \* values of datasets.state
    DefaultState,     \* the schema's default for datasets.state
    Terms,            \* what license_issued carries beside its ids
    NoRow,            \* no row under this key
    Faults,           \* the kinds of failure that may happen
    MaxFaults         \* bound: how many failures may happen

VARIABLES
    dataset,      \* table datasets: a row or NoRow for each id
    license,      \* table licenses
    payouts,      \* table royalty_payouts: rows for each (dataset, ledger)
    redisCp,      \* the checkpoint key in Redis; 0 when absent
    pgCp,         \* indexer_cursors.last_ledger; 0 when there is no row
    pc,           \* which await the tick of a process is at
    cp,           \* const checkpoint; 0 when undefined
    start,        \* const startLedger
    pos,          \* the events of page up to this one have been applied
    end,          \* the last event of page
    high,         \* let highest
    latest,       \* page.latestLedger
    lag,          \* the gauge set by setIndexerLagLedgers
    stopped,      \* let stopped
    faults,       \* how many failures have happened
    origin,       \* history: the ledger indexing began from; 0 before that
    delivered     \* history: the events applied at least once

tables == <<dataset, license, payouts>>
stores == <<redisCp, pgCp>>
locals == <<cp, start, pos, end, high, latest>>
history == <<origin, delivered>>
vars == <<feedVars, tables, stores, pc, locals, lag, stopped, faults, history>>

FaultKinds == {"rpc", "db", "redis_get", "redis_set", "redis_evict",
               "pg_get", "pg_set", "crash", "stop"}

(* What decodeEvent returns; "other" is an event it does not recognise. *)
RegistryBodies ==
    [kind : {"dataset_registered"}, id : Datasets, meta : Metas]
    \cup [kind : {"dataset_state_changed"}, id : Datasets, state : DatasetStates]
    \cup [kind : {"license_issued"}, id : Licenses, datasetId : Datasets,
          terms : Terms]
    \cup [kind : {"royalty_distributed"}, datasetId : Datasets]
    \cup [kind : {"other"}]

DatasetRow == [meta : Metas, state : DatasetStates, createdLedger : Ledgers]
LicenseRow == [datasetId : Datasets, terms : Terms]

(* A cursor row, with 0 for none, and the tables it was written with. *)
FormerLife ==
    [checkpoint : 0 .. MaxLedger,
     dataset : [Datasets -> DatasetRow \cup {NoRow}],
     license : [Licenses -> LicenseRow \cup {NoRow}],
     payouts : [Datasets \X Ledgers -> Nat]]

NoFormerLife ==
    [checkpoint |-> 0, dataset |-> [d \in Datasets |-> NoRow],
     license |-> [l \in Licenses |-> NoRow], payouts |-> [k \in Datasets \X Ledgers |-> 0]]

ASSUME IndexerAssumption ==
    /\ Bodies = RegistryBodies
    /\ RedisConfigured \in BOOLEAN
    /\ StartLedger \in Nat
    /\ FormerLives \subseteq FormerLife
    /\ Faults \subseteq FaultKinds
    /\ MaxFaults \in Nat
    /\ DefaultState \in DatasetStates
    /\ NoRow \notin DatasetRow \cup LicenseRow

-----------------------------------------------------------------------------
(* Steps of a tick.                                                        *)

Init ==
    /\ FeedInit
    /\ \E life \in FormerLives :
        /\ pgCp = life.checkpoint
        /\ dataset = life.dataset /\ license = life.license /\ payouts = life.payouts
    /\ redisCp \in IF RedisConfigured THEN {0, pgCp} ELSE {0}
    /\ pc = [p \in Indexers |-> "idle"]
    /\ cp = [p \in Indexers |-> 0]
    /\ start = [p \in Indexers |-> 0]
    /\ pos = [p \in Indexers |-> 0]
    /\ end = [p \in Indexers |-> 0]
    /\ high = [p \in Indexers |-> 0]
    /\ latest = [p \in Indexers |-> 0]
    /\ lag = [p \in Indexers |-> 0]
    /\ stopped = [p \in Indexers |-> FALSE]
    /\ faults = 0
    /\ origin = IF pgCp # 0 THEN pgCp + 1 ELSE StartLedger
    /\ delivered = {}

Fail(kind) ==
    /\ kind \in Faults
    /\ faults < MaxFaults
    /\ faults' = faults + 1

(* The tick returns or throws; its finally block schedules the next one. *)
EndTick(p) ==
    /\ pc' = [pc EXCEPT ![p] = "idle"]
    /\ cp' = [cp EXCEPT ![p] = 0]
    /\ start' = [start EXCEPT ![p] = 0]
    /\ pos' = [pos EXCEPT ![p] = 0]
    /\ end' = [end EXCEPT ![p] = 0]
    /\ high' = [high EXCEPT ![p] = 0]
    /\ latest' = [latest EXCEPT ![p] = 0]

FirstLedger(c) == c + 1

(* readCheckpoint returned c: the request starts right after it. *)
ResumeAfter(p, c) ==
    /\ cp' = [cp EXCEPT ![p] = c]
    /\ start' = [start EXCEPT ![p] = FirstLedger(c)]
    /\ pc' = [pc EXCEPT ![p] = "fetch"]
    /\ UNCHANGED <<pos, end, high, latest>>

(* readCheckpoint returned undefined: options.startLedger, else the tip. *)
ResumeWithoutCheckpoint(p) ==
    /\ start' = [start EXCEPT ![p] = StartLedger]
    /\ pc' = [pc EXCEPT ![p] = IF StartLedger # 0 THEN "fetch" ELSE "readTip"]
    /\ UNCHANGED <<cp, pos, end, high, latest>>

(* The timer fires and readCheckpoint finds the key in Redis. *)
ReadRedisHit(p) ==
    /\ pc[p] = "idle" /\ ~stopped[p]
    /\ RedisConfigured /\ redisCp # 0
    /\ ResumeAfter(p, redisCp)
    /\ UNCHANGED <<feedVars, tables, stores, lag, stopped, faults, history>>

(* There is no key. *)
ReadRedisMiss(p) ==
    /\ pc[p] = "idle" /\ ~stopped[p]
    /\ RedisConfigured /\ redisCp = 0
    /\ pc' = [pc EXCEPT ![p] = "readPg"]
    /\ UNCHANGED <<feedVars, tables, stores, locals, lag, stopped, faults, history>>

(* redis.get rejects; the empty catch falls through to Postgres. *)
ReadRedisError(p) ==
    /\ pc[p] = "idle" /\ ~stopped[p]
    /\ RedisConfigured
    /\ Fail("redis_get")
    /\ pc' = [pc EXCEPT ![p] = "readPg"]
    /\ UNCHANGED <<feedVars, tables, stores, locals, lag, stopped, history>>

AtReadPg(p) ==
    \/ pc[p] = "readPg"
    \/ pc[p] = "idle" /\ ~stopped[p] /\ ~RedisConfigured

ReadPg(p) ==
    /\ AtReadPg(p)
    /\ IF pgCp # 0 THEN ResumeAfter(p, pgCp) ELSE ResumeWithoutCheckpoint(p)
    /\ UNCHANGED <<feedVars, tables, stores, lag, stopped, faults, history>>

(* findUnique rejects; the catch returns undefined, as if there were no row. *)
ReadPgError(p) ==
    /\ AtReadPg(p)
    /\ Fail("pg_get")
    /\ ResumeWithoutCheckpoint(p)
    /\ UNCHANGED <<feedVars, tables, stores, lag, stopped, history>>

(* getLatestLedger: with nothing to resume from, begin at the tip. *)
ReadTip(p) ==
    /\ pc[p] = "readTip"
    /\ start' = [start EXCEPT ![p] = tip]
    /\ pc' = [pc EXCEPT ![p] = "fetch"]
    /\ origin' = IF origin = 0 THEN tip ELSE origin
    /\ UNCHANGED <<feedVars, tables, stores, cp, pos, end, high, latest, lag,
                   stopped, faults, delivered>>

(* Faulty variant: the checkpoint becomes the tip the page was read at. *)
HighestIsTip(p) == tip

InitialHighest(p) == cp[p]

FetchPage(p) ==
    /\ pc[p] = "fetch"
    /\ Serves(start[p])
    /\ \E lo, hi \in 0 .. Len(chain) :
        /\ IsPage(lo, hi, start[p])
        /\ pos' = [pos EXCEPT ![p] = lo]
        /\ end' = [end EXCEPT ![p] = hi]
    /\ high' = [high EXCEPT ![p] = InitialHighest(p)]
    /\ latest' = [latest EXCEPT ![p] = tip]
    /\ pc' = [pc EXCEPT ![p] = "apply"]
    /\ UNCHANGED <<feedVars, tables, stores, cp, start, lag, stopped, faults, history>>

(* getEvents refuses the start ledger; the tick's catch logs and gives up. *)
FetchRefused(p) ==
    /\ pc[p] = "fetch"
    /\ ~Serves(start[p])
    /\ EndTick(p)
    /\ UNCHANGED <<feedVars, tables, stores, lag, stopped, faults, history>>

(* getLatestLedger or getEvents fails for any other reason. *)
RpcError(p) ==
    /\ pc[p] \in {"readTip", "fetch"}
    /\ Fail("rpc")
    /\ EndTick(p)
    /\ UNCHANGED <<feedVars, tables, stores, lag, stopped, history>>

-----------------------------------------------------------------------------
(* applyEvent, one case for each kind of event.                            *)

(* The event the loop is at, once the page holds one more. *)
Due(p, kind) ==
    /\ pc[p] = "apply"
    /\ pos[p] < end[p]
    /\ chain[pos[p] + 1].body.kind = kind

Body(p) == chain[pos[p] + 1].body
EventLedger(p) == chain[pos[p] + 1].ledger

(* applyEvent returned: highest moves up and the loop goes on. *)
Applied(p) ==
    /\ pos' = [pos EXCEPT ![p] = @ + 1]
    /\ high' = [high EXCEPT ![p] = IF EventLedger(p) > @ THEN EventLedger(p) ELSE @]
    /\ pc' = [pc EXCEPT ![p] = "apply"]
    /\ delivered' = delivered \cup {pos[p] + 1}
    /\ UNCHANGED <<cp, start, end, latest, origin>>

(* Faulty variant: the update moves createdLedger as well. *)
UpsertDatasetAndLedger(row, e, l) ==
    [meta |-> e.meta, createdLedger |-> l,
     state |-> IF row = NoRow THEN DefaultState ELSE row.state]

(* Faulty variant: the update replaces the row. *)
ReplaceDataset(row, e, l) ==
    IF row = NoRow
    THEN [meta |-> e.meta, state |-> DefaultState, createdLedger |-> l]
    ELSE [meta |-> e.meta, state |-> DefaultState]

UpsertDataset(row, e, l) ==
    IF row = NoRow
    THEN [meta |-> e.meta, state |-> DefaultState, createdLedger |-> l]
    ELSE [row EXCEPT !.meta = e.meta]

RegisterDataset(p) ==
    /\ Due(p, "dataset_registered")
    /\ dataset' = [dataset EXCEPT ![Body(p).id] =
                        UpsertDataset(@, Body(p), EventLedger(p))]
    /\ Applied(p)
    /\ UNCHANGED <<feedVars, license, payouts, stores, lag, stopped, faults>>

(* updateMany: no row, no change. *)
UpdateState(row, e) == IF row = NoRow THEN NoRow ELSE [row EXCEPT !.state = e.state]

ChangeState(p) ==
    /\ Due(p, "dataset_state_changed")
    /\ dataset' = [dataset EXCEPT ![Body(p).id] = UpdateState(@, Body(p))]
    /\ Applied(p)
    /\ UNCHANGED <<feedVars, license, payouts, stores, lag, stopped, faults>>

(* A new licence needs its dataset (a foreign key); an old one is updated. *)
ForeignKeyHolds(id, datasetId) ==
    license[id] # NoRow \/ dataset[datasetId] # NoRow

UpsertLicense(row, e) ==
    IF row = NoRow
    THEN [datasetId |-> e.datasetId, terms |-> e.terms]
    ELSE [row EXCEPT !.terms = e.terms]

IssueLicense(p) ==
    /\ Due(p, "license_issued")
    /\ ForeignKeyHolds(Body(p).id, Body(p).datasetId)
    /\ license' = [license EXCEPT ![Body(p).id] = UpsertLicense(@, Body(p))]
    /\ Applied(p)
    /\ UNCHANGED <<feedVars, dataset, payouts, stores, lag, stopped, faults>>

PayoutKey(p) == <<Body(p).datasetId, EventLedger(p)>>

(* Faulty variant: the table is not looked at. *)
NothingFound(p) == FALSE

PayoutExists(p) == payouts[PayoutKey(p)] > 0

(* findFirst sees a row for this (dataset, ledger): nothing to insert. *)
FindPayout(p) ==
    /\ Due(p, "royalty_distributed")
    /\ PayoutExists(p)
    /\ Applied(p)
    /\ UNCHANGED <<feedVars, tables, stores, lag, stopped, faults>>

(* findFirst sees none; create runs only after a second await. *)
MissPayout(p) ==
    /\ Due(p, "royalty_distributed")
    /\ ~PayoutExists(p)
    /\ pc' = [pc EXCEPT ![p] = "insert"]
    /\ UNCHANGED <<feedVars, tables, stores, locals, lag, stopped, faults, history>>

CreatePayout(p) ==
    /\ pc[p] = "insert"
    /\ dataset[Body(p).datasetId] # NoRow
    /\ payouts' = [payouts EXCEPT ![PayoutKey(p)] = @ + 1]
    /\ Applied(p)
    /\ UNCHANGED <<feedVars, dataset, license, stores, lag, stopped, faults>>

(* decodeEvent returned undefined: highest still moves. *)
SkipUndecoded(p) ==
    /\ Due(p, "other")
    /\ Applied(p)
    /\ UNCHANGED <<feedVars, tables, stores, lag, stopped, faults>>

(* The insert names a dataset without a row; the rejection ends the tick. *)
ForeignKeyViolation(p) ==
    /\ \/ /\ Due(p, "license_issued")
          /\ ~ForeignKeyHolds(Body(p).id, Body(p).datasetId)
       \/ /\ pc[p] = "insert"
          /\ dataset[Body(p).datasetId] = NoRow
    /\ EndTick(p)
    /\ UNCHANGED <<feedVars, tables, stores, lag, stopped, faults, history>>

(* Faulty variant: the loop catches the error and goes on. *)
ApplyErrorSkipsEvent(p) ==
    /\ \/ pc[p] = "apply" /\ pos[p] < end[p] /\ Body(p).kind # "other"
       \/ pc[p] = "insert"
    /\ Fail("db")
    /\ pos' = [pos EXCEPT ![p] = @ + 1]
    /\ pc' = [pc EXCEPT ![p] = "apply"]
    /\ UNCHANGED <<feedVars, tables, stores, cp, start, end, high, latest, lag,
                   stopped, history>>

(* Any query of applyEvent fails. *)
ApplyError(p) ==
    /\ \/ pc[p] = "apply" /\ pos[p] < end[p] /\ Body(p).kind # "other"
       \/ pc[p] = "insert"
    /\ Fail("db")
    /\ EndTick(p)
    /\ UNCHANGED <<feedVars, tables, stores, lag, stopped, history>>

-----------------------------------------------------------------------------
(* After the loop: writeCheckpoint, then the gauge.                        *)

(* Faulty variant: the checkpoint is written inside the loop. *)
AnyEventApplied(p) == pc[p] = "apply"

PageApplied(p) == pc[p] = "apply" /\ pos[p] = end[p]

Behind(p) == IF latest[p] > high[p] THEN latest[p] - high[p] ELSE 0

(* highest did not move past the checkpoint: only the gauge is set. *)
FinishWithoutWrite(p) ==
    /\ PageApplied(p)
    /\ high[p] = cp[p]
    /\ lag' = [lag EXCEPT ![p] = Behind(p)]
    /\ EndTick(p)
    /\ UNCHANGED <<feedVars, tables, stores, stopped, faults, history>>

BeginWrite(p) ==
    /\ PageApplied(p)
    /\ high[p] > cp[p]
    /\ pc' = [pc EXCEPT ![p] = IF RedisConfigured THEN "writeRedis" ELSE "writePg"]
    /\ UNCHANGED <<feedVars, tables, stores, locals, lag, stopped, faults, history>>

WriteRedis(p) ==
    /\ pc[p] = "writeRedis"
    /\ redisCp' = high[p]
    /\ pc' = [pc EXCEPT ![p] = "writePg"]
    /\ UNCHANGED <<feedVars, tables, pgCp, locals, lag, stopped, faults, history>>

(* redis.set rejects and is swallowed. *)
WriteRedisError(p) ==
    /\ pc[p] = "writeRedis"
    /\ Fail("redis_set")
    /\ pc' = [pc EXCEPT ![p] = "writePg"]
    /\ UNCHANGED <<feedVars, tables, stores, locals, lag, stopped, history>>

WritePg(p) ==
    /\ pc[p] = "writePg"
    /\ pgCp' = high[p]
    /\ lag' = [lag EXCEPT ![p] = Behind(p)]
    /\ EndTick(p)
    /\ UNCHANGED <<feedVars, tables, redisCp, stopped, faults, history>>

(* The upsert rejects and is swallowed: the gauge is set all the same. *)
WritePgError(p) ==
    /\ pc[p] = "writePg"
    /\ Fail("pg_set")
    /\ lag' = [lag EXCEPT ![p] = Behind(p)]
    /\ EndTick(p)
    /\ UNCHANGED <<feedVars, tables, stores, stopped, history>>

-----------------------------------------------------------------------------
(* What happens around the ticks.                                          *)

(* stop(): the timer is cleared, and a tick under way is the last one. *)
Stop(p) ==
    /\ ~stopped[p]
    /\ Fail("stop")
    /\ stopped' = [stopped EXCEPT ![p] = TRUE]
    /\ UNCHANGED <<feedVars, tables, stores, pc, locals, lag, history>>

(* The process dies and is started again. *)
Crash(p) ==
    /\ Fail("crash")
    /\ EndTick(p)
    /\ lag' = [lag EXCEPT ![p] = 0]
    /\ stopped' = [stopped EXCEPT ![p] = FALSE]
    /\ UNCHANGED <<feedVars, tables, stores, history>>

(* Redis is a cache: it may drop the key at any time. *)
EvictCheckpoint ==
    /\ redisCp # 0
    /\ Fail("redis_evict")
    /\ redisCp' = 0
    /\ UNCHANGED <<feedVars, tables, pgCp, pc, locals, lag, stopped, history>>

ChainAdvances ==
    /\ CloseLedger
    /\ UNCHANGED <<tables, stores, pc, locals, lag, stopped, faults, history>>

ReadCheckpoint(p) == ReadRedisHit(p) \/ ReadRedisMiss(p) \/ ReadPg(p) \/ ReadTip(p)

GetEvents(p) == FetchPage(p) \/ FetchRefused(p)

ApplyEvent(p) ==
    \/ RegisterDataset(p) \/ ChangeState(p) \/ IssueLicense(p)
    \/ FindPayout(p) \/ MissPayout(p) \/ CreatePayout(p)
    \/ SkipUndecoded(p) \/ ForeignKeyViolation(p)

Finish(p) ==
    FinishWithoutWrite(p) \/ BeginWrite(p) \/ WriteRedis(p) \/ WritePg(p)

(* What the event loop does unless something fails. *)
Step(p) == ReadCheckpoint(p) \/ GetEvents(p) \/ ApplyEvent(p) \/ Finish(p)

Failure(p) ==
    \/ ReadRedisError(p) \/ ReadPgError(p) \/ RpcError(p) \/ ApplyError(p)
    \/ WriteRedisError(p) \/ WritePgError(p) \/ Stop(p) \/ Crash(p)

Next ==
    \/ ChainAdvances
    \/ EvictCheckpoint
    \/ \E p \in Indexers : Step(p) \/ Failure(p)

Spec == Init /\ [][Next]_vars

(* Every process keeps polling: setTimeout and the awaits come back. *)
FairSpec == Spec /\ \A p \in Indexers : WF_vars(Step(p))

-----------------------------------------------------------------------------
(* Safety.                                                                 *)

Pcs == {"idle", "readPg", "readTip", "fetch", "apply", "insert", "writeRedis",
        "writePg"}

(* Every variable has its type. *)
TypeOK ==
    /\ chain \in Chains
    /\ tip \in Ledgers
    /\ dataset \in [Datasets -> DatasetRow \cup {NoRow}]
    /\ license \in [Licenses -> LicenseRow \cup {NoRow}]
    /\ payouts \in [Datasets \X Ledgers -> Nat]
    /\ redisCp \in 0 .. MaxLedger
    /\ pgCp \in 0 .. MaxLedger
    /\ pc \in [Indexers -> Pcs]
    /\ cp \in [Indexers -> 0 .. MaxLedger]
    /\ start \in [Indexers -> Nat]
    /\ pos \in [Indexers -> 0 .. Len(chain)]
    /\ end \in [Indexers -> 0 .. Len(chain)]
    /\ high \in [Indexers -> 0 .. MaxLedger]
    /\ latest \in [Indexers -> 0 .. MaxLedger]
    /\ lag \in [Indexers -> 0 .. MaxLedger]
    /\ stopped \in [Indexers -> BOOLEAN]
    /\ faults \in Nat
    /\ origin \in Nat
    /\ delivered \subseteq Positions

(* The events the indexer answers for: those since the ledger it began at. *)
InScope(i) == origin # 0 /\ chain[i].ledger >= origin

Covered(c) ==
    \A i \in Positions : InScope(i) /\ chain[i].ledger <= c => i \in delivered

(***************************************************************************)
(* A stored checkpoint never passes an event: whatever failed before, and  *)
(* whichever of the two stores the next tick reads, every event up to that *)
(* ledger has been applied, so resuming at checkpoint + 1 loses none.      *)
(* (writeCheckpoint runs after the loop over the page, tick.)              *)
(***************************************************************************)
CheckpointCovers == Covered(redisCp) /\ Covered(pgCp)

(***************************************************************************)
(* An event is first applied only when all events before it have been:     *)
(* a failed page leaves no hole behind the events that were applied.       *)
(***************************************************************************)
DeliveredInOrder ==
    \A i \in delivered : \A j \in Positions : j < i /\ InScope(j) => j \in delivered

(***************************************************************************)
(* Why both hold, whatever the ticks of other processes do: what a tick    *)
(* already knows to be applied.  Its request starts where every earlier    *)
(* event has been; its loop has applied the page up to pos and stops short *)
(* of the next ledger; and what it is about to store is covered.  A tick   *)
(* that finds no checkpoint must not begin past what is in scope, so there *)
(* is a start ledger or a checkpoint that can be read; and pages must not  *)
(* cut a ledger in two.                                                    *)
(***************************************************************************)
PageEndsLedger(k) ==
    \A i, j \in Positions : i <= k /\ k < j => chain[i].ledger < chain[j].ledger

TickInv(p) ==
    /\ Covered(cp[p])
    /\ pc[p] # "readTip"
    /\ pc[p] = "fetch" =>
        \A i \in Positions : InScope(i) /\ chain[i].ledger < start[p] => i \in delivered
    /\ pc[p] \in {"apply", "insert"} =>
        /\ PageEndsLedger(end[p])
        /\ \A i \in Positions : i <= pos[p] /\ InScope(i) => i \in delivered
        /\ high[p] = cp[p] \/ \E i \in 1 .. pos[p] : high[p] = chain[i].ledger
    /\ pc[p] \in {"writeRedis", "writePg"} => high[p] # 0 /\ Covered(high[p])

ResumesInScope ==
    /\ origin # 0
    /\ IF StartLedger # 0 THEN StartLedger <= origin
                          ELSE pgCp # 0 /\ "pg_get" \notin Faults

IndexerInv ==
    /\ ResumesInScope
    /\ CheckpointCovers
    /\ DeliveredInOrder
    /\ \A p \in Indexers : TickInv(p)

(***************************************************************************)
(* The lag a tick reports is never less than what it left behind: each     *)
(* step that sets the gauge, the one whose write to Postgres failed too,   *)
(* has applied every event up to the tip it saw less that lag (tick,       *)
(* setIndexerLagLedgers).  A tick that gives up earlier sets nothing: the  *)
(* gauge of an indexer that is stuck keeps its last value and goes stale,  *)
(* and this says nothing of it.                                            *)
(***************************************************************************)
SetsGauge(p) == (Finish(p) \/ WritePgError(p)) /\ pc'[p] = "idle"

GaugeNeverUnderstates ==
    [][\A p \in Indexers : SetsGauge(p) => Covered(latest[p] - lag'[p])]_vars

-----------------------------------------------------------------------------
(* Liveness.                                                               *)

(* Every visible event is applied in the end: "the registration may predate *)
(* the retention window. Neither should crash the indexer." (the indexer's  *)
(* tests, lines 199-200; tick is rescheduled for ever).                     *)
EventuallyIndexed ==
    \A i \in 1 .. MaxEvents :
        (i \in Positions /\ Visible(i) /\ InScope(i)) ~> (i \in delivered)

(* Once Postgres holds a checkpoint nothing after it is lost, though no    *)
(* start ledger is given, Redis comes and goes, and the process dies with  *)
(* a page half applied (readCheckpoint, writeCheckpoint).  Before that, a  *)
(* first run loses whatever falls between two empty pages; and a licence   *)
(* or a payout whose dataset came earlier stops the indexer.               *)
AfterSaved(i) == i \in Positions /\ pgCp # 0 /\ pgCp < chain[i].ledger
Shown(i) == i \in Positions /\ Visible(i)

NothingLostOnceSaved ==
    \A i \in 1 .. MaxEvents : [](AfterSaved(i) /\ <>Shown(i) => <>(i \in delivered))

-----------------------------------------------------------------------------
(* The stored checkpoint in Postgres, seen as an at-least-once feed of the *)
(* events in scope.                                                        *)

DeliveredInScope == {i \in delivered : InScope(i)}

Feed == INSTANCE AtLeastOnceFeed WITH delivered <- DeliveredInScope, checkpoint <- pgCp

(* The indexer implements the feed: its steps deliver, commit or stutter. *)
ImplementsFeed == Feed!Spec
=============================================================================
