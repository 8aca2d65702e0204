-------------------- MODULE DatasetRegistryIndexerProofs --------------------
(***************************************************************************)
(* Theorems about the DatasetRegistry indexer, for every set of processes, *)
(* history, page limit and combination of failures.                        *)
(***************************************************************************)
EXTENDS DatasetRegistryIndexer, SequenceTheorems, TLAPS

-----------------------------------------------------------------------------
(* The history: its events are typed and ordered by ledger.                *)

LEMMA HistoryType ==
    ASSUME chain \in Chains
    PROVE  /\ Len(chain) \in Nat
           /\ \A i \in Positions :
                /\ chain[i].ledger \in Ledgers
                /\ chain[i].body \in RegistryBodies
           /\ \A i, j \in Positions : i <= j => chain[i].ledger <= chain[j].ledger
  <1>1. IsFeed(chain)
    BY FeedAssumption
  <1> DEFINE Event == [ledger : Ledgers, body : Bodies]
  <1>2. chain \in Seq(Event)
    BY <1>1 DEF IsFeed
  <1>3. ASSUME NEW i \in Positions PROVE chain[i] \in Event
    <2> HIDE DEF Event
    <2> QED BY <1>2, ElementOfSeq DEF Positions
  <1> QED
    BY <1>1, <1>2, <1>3, IndexerAssumption DEF IsFeed, Positions

(* An event carries what its kind says. *)
LEMMA BodyType ==
    ASSUME NEW b \in RegistryBodies
    PROVE  /\ b.kind = "dataset_registered" => b.id \in Datasets /\ b.meta \in Metas
           /\ b.kind = "dataset_state_changed" =>
                b.id \in Datasets /\ b.state \in DatasetStates
           /\ b.kind = "license_issued" =>
                b.id \in Licenses /\ b.datasetId \in Datasets /\ b.terms \in Terms
           /\ b.kind = "royalty_distributed" => b.datasetId \in Datasets
  BY DEF RegistryBodies

-----------------------------------------------------------------------------
(* Types.                                                                  *)

TickTypeOK ==
    /\ pc \in [Indexers -> Pcs]
    /\ cp \in [Indexers -> 0 .. MaxLedger]
    /\ start \in [Indexers -> Nat]
    /\ pos \in [Indexers -> 0 .. Len(chain)]
    /\ end \in [Indexers -> 0 .. Len(chain)]
    /\ high \in [Indexers -> 0 .. MaxLedger]
    /\ latest \in [Indexers -> 0 .. MaxLedger]

(* What a tick keeps while it is at one of the events of its page. *)
AtEvent(p) ==
    /\ pc[p] = "apply" => pos[p] <= end[p]
    /\ pc[p] = "insert" => pos[p] < end[p] /\ Body(p).kind = "royalty_distributed"

TypeInv == TypeOK /\ \A p \in Indexers : AtEvent(p)

LEMMA TypeInit == Init => TypeInv
  <1> SUFFICES ASSUME Init PROVE TypeInv
    OBVIOUS
  <1>1. Len(chain) \in Nat /\ chain \in Chains /\ tip \in Ledgers
    BY HistoryType, FeedAssumption DEF Init, FeedInit, Ledgers
  <1>2. /\ dataset \in [Datasets -> DatasetRow \cup {NoRow}]
        /\ license \in [Licenses -> LicenseRow \cup {NoRow}]
        /\ payouts \in [Datasets \X Ledgers -> Nat]
        /\ pgCp \in 0 .. MaxLedger /\ redisCp \in 0 .. MaxLedger
    <2>1. PICK life \in FormerLife :
            /\ pgCp = life.checkpoint
            /\ dataset = life.dataset /\ license = life.license /\ payouts = life.payouts
      BY IndexerAssumption DEF Init
    <2> QED
      BY <2>1, FeedAssumption DEF Init, FormerLife
  <1>4. TypeOK
    BY <1>1, <1>2, FeedAssumption, IndexerAssumption DEF Init, TypeOK, Pcs
  <1>3. \A p \in Indexers : AtEvent(p)
    BY DEF Init, AtEvent
  <1> QED
    BY <1>3, <1>4 DEF TypeInv

(* Ending a tick and resuming one keep the types of the locals. *)
LEMMA TickTypes ==
    ASSUME TypeOK, chain' = chain, NEW p \in Indexers
    PROVE  /\ EndTick(p) => TickTypeOK'
           /\ ResumeWithoutCheckpoint(p) => TickTypeOK'
           /\ \A c \in 0 .. MaxLedger : ResumeAfter(p, c) => TickTypeOK'
  <1>0. Len(chain) \in Nat
    BY HistoryType DEF TypeOK
  <1>1. ASSUME EndTick(p) PROVE TickTypeOK'
    BY <1>0, <1>1, FeedAssumption DEF EndTick, TypeOK, TickTypeOK, Pcs
  <1>2. ASSUME ResumeWithoutCheckpoint(p) PROVE TickTypeOK'
    <2>1. pc' = [pc EXCEPT ![p] = IF StartLedger # 0 THEN "fetch" ELSE "readTip"]
          /\ start' = [start EXCEPT ![p] = StartLedger] /\ UNCHANGED <<cp, pos, end, high, latest>>
      BY <1>2 DEF ResumeWithoutCheckpoint
    <2>2. StartLedger \in Nat /\ TickTypeOK
      BY IndexerAssumption DEF TypeOK, TickTypeOK
    <2> QED
      BY <2>1, <2>2 DEF TickTypeOK, Pcs
  <1>3. ASSUME NEW c \in 0 .. MaxLedger, ResumeAfter(p, c) PROVE TickTypeOK'
    BY <1>3 DEF ResumeAfter, FirstLedger, TypeOK, TickTypeOK, Pcs
  <1> QED
    BY <1>1, <1>2, <1>3

(* An event that is due is an event of the history. *)
LEMMA DueEvent ==
    ASSUME TypeInv, NEW p \in Indexers, pos[p] < end[p]
    PROVE  /\ pos[p] + 1 \in Positions
           /\ EventLedger(p) \in Ledgers
           /\ Body(p) \in RegistryBodies
  <1>1. pos[p] + 1 \in Positions
    BY HistoryType DEF TypeInv, TypeOK, Positions
  <1> QED
    BY <1>1, HistoryType DEF TypeInv, TypeOK, EventLedger, Body

LEMMA AppliedTypes ==
    ASSUME TypeInv, chain' = chain, NEW p \in Indexers, pos[p] < end[p], Applied(p)
    PROVE  TickTypeOK' /\ origin' \in Nat /\ delivered' \subseteq Positions'
  <1>1. pos[p] + 1 \in Positions /\ EventLedger(p) \in 0 .. MaxLedger
    BY DueEvent DEF Ledgers
  <1>2. pos[p] + 1 \in 0 .. Len(chain)
    BY <1>1, HistoryType DEF Positions, TypeInv, TypeOK
  <1>3. TickTypeOK'
    BY <1>1, <1>2 DEF Applied, TypeInv, TypeOK, TickTypeOK, Pcs
  <1>4. origin' \in Nat /\ delivered' \subseteq Positions'
    BY <1>1 DEF Applied, TypeInv, TypeOK, Positions
  <1> QED
    BY <1>3, <1>4

(* A tick that ends, or that only moves on, is at no event. *)
LEMMA AtEventKept ==
    ASSUME TypeInv, chain' = chain, NEW p \in Indexers,
           \A q \in Indexers \ {p} :
              pc'[q] = pc[q] /\ pos'[q] = pos[q] /\ end'[q] = end[q],
           AtEvent(p)'
    PROVE  \A q \in Indexers : AtEvent(q)'
  BY DEF TypeInv, AtEvent, Body

LEMMA TickAtEvent ==
    ASSUME TypeInv, chain' = chain, NEW p \in Indexers
    PROVE  /\ EndTick(p) => \A q \in Indexers : AtEvent(q)'
           /\ ResumeWithoutCheckpoint(p) => \A q \in Indexers : AtEvent(q)'
           /\ \A c : ResumeAfter(p, c) => \A q \in Indexers : AtEvent(q)'
           /\ pos[p] < end[p] /\ Applied(p) => \A q \in Indexers : AtEvent(q)'
  <1>1. ASSUME EndTick(p) PROVE \A q \in Indexers : AtEvent(q)'
    BY <1>1 DEF EndTick, TypeInv, TypeOK, AtEvent, Body
  <1>2. ASSUME ResumeWithoutCheckpoint(p) PROVE \A q \in Indexers : AtEvent(q)'
    BY <1>2 DEF ResumeWithoutCheckpoint, TypeInv, TypeOK, AtEvent, Body
  <1>3. ASSUME NEW c, ResumeAfter(p, c) PROVE \A q \in Indexers : AtEvent(q)'
    BY <1>3 DEF ResumeAfter, TypeInv, TypeOK, AtEvent, Body
  <1>4. ASSUME pos[p] < end[p], Applied(p) PROVE \A q \in Indexers : AtEvent(q)'
    BY <1>4, HistoryType DEF Applied, TypeInv, TypeOK, AtEvent, Body
  <1> QED
    BY <1>1, <1>2, <1>3, <1>4

(* A failure is counted. *)
LEMMA FailType ==
    ASSUME faults \in Nat, NEW kind, Fail(kind)
    PROVE  faults' \in Nat
  BY DEF Fail

LEMMA ReadCheckpointTypes ==
    ASSUME TypeInv, NEW p \in Indexers,
           ReadCheckpoint(p) \/ ReadRedisError(p) \/ ReadPgError(p)
    PROVE  TypeInv'
  <1>1. CASE ReadRedisHit(p)
    BY <1>1, TickTypes, TickAtEvent
       DEF ReadRedisHit, TypeInv, TypeOK, TickTypeOK, feedVars, tables, stores,
           history, Positions
  <1>2. CASE ReadRedisMiss(p)
    BY <1>2 DEF ReadRedisMiss, TypeInv, TypeOK, AtEvent, Body, feedVars, tables,
                stores, locals, history, Positions, Pcs
  <1>3. CASE ReadRedisError(p)
    <2>1. faults' \in Nat
      BY <1>3, FailType DEF ReadRedisError, TypeInv, TypeOK
    <2> QED
      BY <1>3, <2>1 DEF ReadRedisError, TypeInv, TypeOK, AtEvent, Body, feedVars,
                        tables, stores, locals, history, Positions, Pcs
  <1>4. CASE ReadPg(p)
    BY <1>4, TickTypes, TickAtEvent
       DEF ReadPg, TypeInv, TypeOK, TickTypeOK, feedVars, tables, stores,
           history, Positions
  <1>5. CASE ReadPgError(p)
    <2>1. faults' \in Nat
      BY <1>5, FailType DEF ReadPgError, TypeInv, TypeOK
    <2> QED
      BY <1>5, <2>1, TickTypes, TickAtEvent
         DEF ReadPgError, TypeInv, TypeOK, TickTypeOK, feedVars, tables,
             stores, history, Positions
  <1>6. CASE ReadTip(p)
    <2>1. origin' \in Nat /\ start' \in [Indexers -> Nat] /\ pc' \in [Indexers -> Pcs]
      BY <1>6 DEF ReadTip, TypeInv, TypeOK, Pcs, Ledgers
    <2>2. TypeOK'
      BY <1>6, <2>1 DEF ReadTip, TypeInv, TypeOK, feedVars, tables, stores, Positions
    <2>3. ASSUME NEW q \in Indexers PROVE AtEvent(q)'
      BY <1>6 DEF ReadTip, TypeInv, TypeOK, AtEvent, Body, feedVars
    <2> QED
      BY <2>2, <2>3 DEF TypeInv
  <1> QED
    BY <1>1, <1>2, <1>3, <1>4, <1>5, <1>6 DEF ReadCheckpoint

LEMMA GetEventsTypes ==
    ASSUME TypeInv, NEW p \in Indexers, GetEvents(p) \/ RpcError(p)
    PROVE  TypeInv'
  <1>1. CASE FetchPage(p)
    <2>1. TickTypeOK'
      BY SMTT(30), <1>1 DEF FetchPage, InitialHighest, TypeInv, TypeOK, TickTypeOK, Pcs, feedVars, Ledgers
    <2>2. AtEvent(p)'
      BY <1>1, HistoryType DEF FetchPage, IsPage, TypeInv, TypeOK, AtEvent
    <2>3. \A q \in Indexers : AtEvent(q)'
      BY <1>1, <2>2, AtEventKept DEF FetchPage, TypeInv, TypeOK, feedVars
    <2> QED
      BY <1>1, <2>1, <2>3 DEF FetchPage, TypeInv, TypeOK, TickTypeOK, feedVars,
                              tables, stores, history, Positions
  <1>2. CASE FetchRefused(p) \/ RpcError(p)
    <2>1. faults' \in Nat
      BY <1>2, FailType DEF FetchRefused, RpcError, TypeInv, TypeOK
    <2> QED
      BY <1>2, <2>1, TickTypes, TickAtEvent
         DEF FetchRefused, RpcError, TypeInv, TypeOK, TickTypeOK, feedVars,
             tables, stores, history, Positions
  <1> QED
    BY <1>1, <1>2 DEF GetEvents

(* The event an action is due for, and that its kind tells its contents. *)
LEMMA DueType ==
    ASSUME TypeInv, NEW p \in Indexers
    PROVE  /\ \A kind : Due(p, kind) =>
                pos[p] < end[p] /\ Body(p).kind = kind /\ Body(p) \in RegistryBodies
           /\ pc[p] = "insert" =>
                /\ pos[p] < end[p]
                /\ Body(p).kind = "royalty_distributed"
                /\ Body(p) \in RegistryBodies
  BY DueEvent DEF Due, Body, TypeInv, AtEvent

LEMMA RegisterDatasetTypes ==
    ASSUME TypeInv, NEW p \in Indexers, RegisterDataset(p) \/ ChangeState(p)
    PROVE  dataset' \in [Datasets -> DatasetRow \cup {NoRow}]
  <1>1. CASE RegisterDataset(p)
    <2>1. Body(p).id \in Datasets /\ Body(p).meta \in Metas /\ EventLedger(p) \in Ledgers
      BY <1>1, DueType, DueEvent, BodyType DEF RegisterDataset
    <2> DEFINE row == dataset[Body(p).id]
    <2>2. row \in DatasetRow \cup {NoRow}
      BY <2>1 DEF TypeInv, TypeOK
    <2>3. [meta |-> Body(p).meta, state |-> DefaultState,
           createdLedger |-> EventLedger(p)] \in DatasetRow
      BY <2>1, IndexerAssumption DEF DatasetRow
    <2>4. row # NoRow => [row EXCEPT !.meta = Body(p).meta] \in DatasetRow
      BY <2>1, <2>2 DEF DatasetRow
    <2> QED
      BY <1>1, <2>1, <2>3, <2>4 DEF RegisterDataset, UpsertDataset, TypeInv, TypeOK
  <1>2. CASE ChangeState(p)
    <2>1. Body(p).id \in Datasets /\ Body(p).state \in DatasetStates
      BY <1>2, DueType, BodyType DEF ChangeState
    <2> DEFINE row == dataset[Body(p).id]
    <2>2. row \in DatasetRow \cup {NoRow}
      BY <2>1 DEF TypeInv, TypeOK
    <2>3. row # NoRow => [row EXCEPT !.state = Body(p).state] \in DatasetRow
      BY <2>1, <2>2 DEF DatasetRow
    <2> QED
      BY <1>2, <2>1, <2>3 DEF ChangeState, UpdateState, TypeInv, TypeOK
  <1> QED
    BY <1>1, <1>2

LEMMA IssueLicenseTypes ==
    ASSUME TypeInv, NEW p \in Indexers, IssueLicense(p)
    PROVE  license' \in [Licenses -> LicenseRow \cup {NoRow}]
  <1>1. Body(p).id \in Licenses /\ Body(p).datasetId \in Datasets
        /\ Body(p).terms \in Terms
    BY DueType, BodyType DEF IssueLicense
  <1> DEFINE row == license[Body(p).id]
  <1>2. row \in LicenseRow \cup {NoRow}
    BY <1>1 DEF TypeInv, TypeOK
  <1>3. [datasetId |-> Body(p).datasetId, terms |-> Body(p).terms] \in LicenseRow
    BY <1>1 DEF LicenseRow
  <1>4. row # NoRow => [row EXCEPT !.terms = Body(p).terms] \in LicenseRow
    BY <1>1, <1>2 DEF LicenseRow
  <1> QED
    BY <1>1, <1>3, <1>4 DEF IssueLicense, UpsertLicense, TypeInv, TypeOK

LEMMA CreatePayoutTypes ==
    ASSUME TypeInv, NEW p \in Indexers, CreatePayout(p)
    PROVE  payouts' \in [Datasets \X Ledgers -> Nat]
  <1>1. PayoutKey(p) \in Datasets \X Ledgers
    BY DueType, DueEvent, BodyType DEF CreatePayout, PayoutKey
  <1>2. payouts \in [Datasets \X Ledgers -> Nat]
    BY DEF TypeInv, TypeOK
  <1> DEFINE k == PayoutKey(p)
             Keys == Datasets \X Ledgers
  <1>3. payouts' = [payouts EXCEPT ![k] = @ + 1]
    BY DEF CreatePayout
  <1>4. k \in Keys /\ payouts \in [Keys -> Nat]
    BY <1>1, <1>2
  <1>5. payouts' \in [Keys -> Nat]
    <2> HIDE DEF k, Keys
    <2> QED BY <1>3, <1>4
  <1> QED
    BY <1>5

LEMMA ApplyEventTypes ==
    ASSUME TypeInv, NEW p \in Indexers, ApplyEvent(p) \/ ApplyError(p)
    PROVE  TypeInv'
  <1>1. CASE RegisterDataset(p) \/ ChangeState(p)
    <2>1. pos[p] < end[p] /\ Applied(p) /\ chain' = chain
      BY <1>1, DueType DEF RegisterDataset, ChangeState, feedVars
    <2> QED
      BY <1>1, <2>1, RegisterDatasetTypes, AppliedTypes, TickAtEvent
         DEF RegisterDataset, ChangeState, TypeInv, TypeOK, TickTypeOK, feedVars, stores
  <1>2. CASE IssueLicense(p)
    <2>1. pos[p] < end[p] /\ Applied(p) /\ chain' = chain
      BY <1>2, DueType DEF IssueLicense, feedVars
    <2> QED
      BY <1>2, <2>1, IssueLicenseTypes, AppliedTypes, TickAtEvent
         DEF IssueLicense, TypeInv, TypeOK, TickTypeOK, feedVars, stores
  <1>3. CASE FindPayout(p) \/ SkipUndecoded(p)
    <2>1. pos[p] < end[p] /\ Applied(p) /\ chain' = chain
      BY <1>3, DueType DEF FindPayout, SkipUndecoded, feedVars
    <2> QED
      BY <1>3, <2>1, AppliedTypes, TickAtEvent
         DEF FindPayout, SkipUndecoded, TypeInv, TypeOK, TickTypeOK, feedVars,
             tables, stores
  <1>4. CASE CreatePayout(p)
    <2>1. pos[p] < end[p] /\ Applied(p) /\ chain' = chain
      BY <1>4, DueType DEF CreatePayout, feedVars
    <2> QED
      BY <1>4, <2>1, CreatePayoutTypes, AppliedTypes, TickAtEvent
         DEF CreatePayout, TypeInv, TypeOK, TickTypeOK, feedVars, stores
  <1>5. CASE MissPayout(p)
    <2>1. pos[p] < end[p] /\ Body(p).kind = "royalty_distributed"
      BY <1>5, DueType DEF MissPayout
    <2>2. TypeOK'
      BY <1>5 DEF MissPayout, TypeInv, TypeOK, feedVars, tables, stores, locals,
                  history, Positions, Pcs
    <2>3. \A q \in Indexers : AtEvent(q)'
      BY <1>5, <2>1 DEF MissPayout, TypeInv, TypeOK, AtEvent, Body, feedVars, locals
    <2> QED
      BY <2>2, <2>3 DEF TypeInv
  <1>6. CASE ForeignKeyViolation(p) \/ ApplyError(p)
    <2>1. faults' \in Nat
      BY <1>6, FailType DEF ForeignKeyViolation, ApplyError, TypeInv, TypeOK
    <2> QED
      BY <1>6, <2>1, TickTypes, TickAtEvent
         DEF ForeignKeyViolation, ApplyError, TypeInv, TypeOK, TickTypeOK, feedVars,
             tables, stores, history, Positions
  <1> QED
    BY <1>1, <1>2, <1>3, <1>4, <1>5, <1>6 DEF ApplyEvent

LEMMA BehindType ==
    ASSUME TypeOK, NEW p \in Indexers
    PROVE  [lag EXCEPT ![p] = Behind(p)] \in [Indexers -> 0 .. MaxLedger]
  BY FeedAssumption DEF TypeOK, Behind

LEMMA FinishTypes ==
    ASSUME TypeInv, NEW p \in Indexers,
           Finish(p) \/ WriteRedisError(p) \/ WritePgError(p)
    PROVE  TypeInv'
  <1>1. CASE FinishWithoutWrite(p)
    BY <1>1, TickTypes, TickAtEvent, BehindType
       DEF FinishWithoutWrite, TypeInv, TypeOK, TickTypeOK, feedVars, tables,
           stores, history, Positions
  <1>2. CASE BeginWrite(p)
    <2>1. TypeOK'
      BY <1>2 DEF BeginWrite, TypeInv, TypeOK, feedVars, tables, stores, locals,
                  history, Positions, Pcs
    <2>2. \A q \in Indexers : AtEvent(q)'
      BY <1>2 DEF BeginWrite, TypeInv, TypeOK, AtEvent, Body, feedVars, locals
    <2> QED
      BY <2>1, <2>2 DEF TypeInv
  <1>3. CASE WriteRedis(p) \/ WriteRedisError(p)
    <2>1. faults' \in Nat
      BY <1>3, FailType DEF WriteRedis, WriteRedisError, TypeInv, TypeOK
    <2>2. redisCp' \in 0 .. MaxLedger /\ pgCp' = pgCp
      BY <1>3 DEF WriteRedis, WriteRedisError, TypeInv, TypeOK, stores
    <2>3. TypeOK'
      BY <1>3, <2>1, <2>2
         DEF WriteRedis, WriteRedisError, TypeInv, TypeOK, feedVars, tables,
             locals, history, Positions, Pcs
    <2>4. \A q \in Indexers : AtEvent(q)'
      BY <1>3 DEF WriteRedis, WriteRedisError, TypeInv, TypeOK, AtEvent, Body,
                  feedVars, locals
    <2> QED
      BY <2>3, <2>4 DEF TypeInv
  <1>4. CASE WritePg(p) \/ WritePgError(p)
    <2>1. faults' \in Nat
      BY <1>4, FailType DEF WritePg, WritePgError, TypeInv, TypeOK
    <2>2. pgCp' \in 0 .. MaxLedger /\ redisCp' = redisCp
      BY <1>4 DEF WritePg, WritePgError, TypeInv, TypeOK, stores
    <2> QED
      BY ZenonT(60), <1>4, <2>1, <2>2, TickTypes, TickAtEvent, BehindType
         DEF WritePg, WritePgError, TypeInv, TypeOK, TickTypeOK, feedVars, tables,
             history, Positions
  <1> QED
    BY <1>1, <1>2, <1>3, <1>4 DEF Finish

LEMMA SurroundingTypes ==
    ASSUME TypeInv,
           ChainAdvances \/ EvictCheckpoint \/ \E p \in Indexers : Stop(p) \/ Crash(p)
    PROVE  TypeInv'
  <1>1. CASE ChainAdvances
    <2>1. tip' \in Ledgers /\ chain' = chain
      BY <1>1, FeedAssumption DEF ChainAdvances, CloseLedger, TypeInv, TypeOK, Ledgers
    <2> QED
      BY <1>1, <2>1 DEF ChainAdvances, TypeInv, TypeOK, AtEvent, Body, tables, stores,
                        locals, history, Positions
  <1>2. CASE EvictCheckpoint
    <2>1. faults' \in Nat
      BY <1>2, FailType DEF EvictCheckpoint, TypeInv, TypeOK
    <2>2. redisCp' \in 0 .. MaxLedger
      BY <1>2, FeedAssumption DEF EvictCheckpoint
    <2>3. TypeOK'
      BY <1>2, <2>1, <2>2 DEF EvictCheckpoint, TypeInv, TypeOK, feedVars, tables,
                              locals, history, Positions
    <2>4. \A q \in Indexers : AtEvent(q)'
      BY <1>2 DEF EvictCheckpoint, TypeInv, AtEvent, Body, feedVars, locals
    <2> QED
      BY <2>3, <2>4 DEF TypeInv
  <1>3. ASSUME NEW p \in Indexers, Stop(p) PROVE TypeInv'
    <2>1. faults' \in Nat
      BY <1>3, FailType DEF Stop, TypeInv, TypeOK
    <2>2. TypeOK'
      BY <1>3, <2>1 DEF Stop, TypeInv, TypeOK, feedVars, tables, stores, locals,
                        history, Positions
    <2>3. \A q \in Indexers : AtEvent(q)'
      BY <1>3 DEF Stop, TypeInv, AtEvent, Body, feedVars, locals
    <2> QED
      BY <2>2, <2>3 DEF TypeInv
  <1>4. ASSUME NEW p \in Indexers, Crash(p) PROVE TypeInv'
    <2>1. faults' \in Nat
      BY <1>4, FailType DEF Crash, TypeInv, TypeOK
    <2>2. TickTypeOK' /\ \A q \in Indexers : AtEvent(q)'
      BY <1>4, TickTypes, TickAtEvent DEF Crash, TypeInv, feedVars
    <2>3. lag' \in [Indexers -> 0 .. MaxLedger] /\ stopped' \in [Indexers -> BOOLEAN]
      BY <1>4, FeedAssumption DEF Crash, TypeInv, TypeOK
    <2> QED
      BY <1>4, <2>1, <2>2, <2>3
         DEF Crash, TypeInv, TypeOK, TickTypeOK, feedVars, tables, stores, history,
             Positions
  <1> QED
    BY <1>1, <1>2, <1>3, <1>4

LEMMA TypeStep == TypeInv /\ [Next]_vars => TypeInv'
  <1> SUFFICES ASSUME TypeInv, [Next]_vars PROVE TypeInv'
    OBVIOUS
  <1>1. CASE UNCHANGED vars
    BY <1>1 DEF vars, TypeInv, TypeOK, AtEvent, Body, feedVars, tables, stores,
                locals, history, Positions
  <1>2. CASE ChainAdvances \/ EvictCheckpoint
    BY <1>2, SurroundingTypes
  <1>3. ASSUME NEW p \in Indexers, Step(p) PROVE TypeInv'
    BY <1>3, ReadCheckpointTypes, GetEventsTypes, ApplyEventTypes, FinishTypes DEF Step
  <1>4. ASSUME NEW p \in Indexers, Failure(p) PROVE TypeInv'
    BY <1>4, ReadCheckpointTypes, GetEventsTypes, ApplyEventTypes, FinishTypes,
       SurroundingTypes DEF Failure
  <1> QED
    BY <1>1, <1>2, <1>3, <1>4 DEF Next

(* The variables keep their types, and a tick never runs past its page. *)
THEOREM TypeCorrect == Spec => []TypeOK
  <1>1. Spec => []TypeInv
    BY TypeInit, TypeStep, PTL DEF Spec
  <1>2. TypeInv => TypeOK
    BY DEF TypeInv
  <1> QED
    BY <1>1, <1>2, PTL

-----------------------------------------------------------------------------
(* No checkpoint passes an event.                                          *)

(***************************************************************************)
(* A tick that has no checkpoint begins in scope: a first run has a start  *)
(* ledger; a later one has a start ledger that its checkpoint has passed,  *)
(* or, as src/index.ts starts it, none, and its cursor row can be read.    *)
(***************************************************************************)
SafeConfig ==
    /\ \A c \in Chains : IsAligned(c)
    /\ \A life \in FormerLives :
        IF StartLedger # 0 THEN life.checkpoint # 0 => StartLedger <= life.checkpoint + 1
                          ELSE life.checkpoint # 0 /\ "pg_get" \notin Faults

(* What is covered stays covered while more is delivered. *)
LEMMA CoveredGrows ==
    ASSUME chain' = chain, origin' = origin, delivered \subseteq delivered',
           NEW c, Covered(c)
    PROVE  Covered(c)'
  BY DEF Covered, InScope, Positions

(* The invariant of a tick at rest is untouched by the steps of others. *)
LEMMA TickInvKept ==
    ASSUME chain' = chain, origin' = origin, delivered \subseteq delivered',
           NEW q \in Indexers,
           pc'[q] = pc[q], cp'[q] = cp[q], start'[q] = start[q], pos'[q] = pos[q],
           end'[q] = end[q], high'[q] = high[q],
           TickInv(q)
    PROVE  TickInv(q)'
  BY DEF TickInv, Covered, InScope, PageEndsLedger, Positions

(* Events are delivered in order while nothing new is delivered. *)
LEMMA NothingNew ==
    ASSUME chain' = chain, origin' = origin, delivered' = delivered, DeliveredInOrder
    PROVE  DeliveredInOrder'
  BY DEF DeliveredInOrder, InScope, Positions

(* No event has a ledger below 1. *)
LEMMA ZeroCovered == ASSUME TypeOK PROVE Covered(0)
  BY HistoryType DEF TypeOK, Covered, Positions, Ledgers

(* A page that is served ends where a ledger ends. *)
LEMMA PageAligned ==
    ASSUME TypeOK, SafeConfig, NEW lo \in 0 .. Len(chain), NEW hi \in 0 .. Len(chain),
           NEW s \in Nat, Serves(s), IsPage(lo, hi, s)
    PROVE  PageEndsLedger(hi)
  <1>1. /\ Len(chain) \in Nat
        /\ \A i \in Positions : chain[i].ledger \in Nat
        /\ \A i, j \in Positions : i <= j => chain[i].ledger <= chain[j].ledger
        /\ Limit \in Nat \ {0}
    BY HistoryType, FeedAssumption DEF TypeOK, Ledgers
  <1>2. CASE \A i \in Positions : i > hi => ~Visible(i)
    <2> SUFFICES ASSUME NEW i \in Positions, NEW j \in Positions, i <= hi, hi < j
                 PROVE  chain[i].ledger < chain[j].ledger
      BY DEF PageEndsLedger
    <2>1. ~Visible(j)
      BY <1>2 DEF Positions
    <2>2. i <= lo \/ i \in lo + 1 .. hi
      BY DEF Positions
    <2>3. chain[i].ledger < s \/ Visible(i)
      BY <2>2 DEF IsPage
    <2>4. i \in Positions /\ j \in Positions /\ s <= tip /\ tip \in Nat
      BY DEF Serves, TypeOK, Ledgers
    <2> QED
      BY <2>1, <2>3, <2>4, <1>1 DEF Visible
  <1>3. CASE hi = lo + Limit /\ hi < Len(chain)
    <2>1. lo + 1 \in Positions /\ hi + 1 \in Positions /\ hi \in Positions
      BY <1>1, <1>3 DEF Positions
    <2>2. lo = 0 \/ chain[lo].ledger < chain[lo + 1].ledger
      <3> SUFFICES ASSUME lo # 0 PROVE chain[lo].ledger < chain[lo + 1].ledger
        OBVIOUS
      <3>1. lo \in Positions
        BY DEF Positions
      <3>2. chain[lo].ledger < s /\ ~(chain[lo + 1].ledger < s)
        BY <2>1, <3>1 DEF IsPage
      <3> QED
        BY <1>1, <2>1, <3>1, <3>2
    <2>3. chain[hi].ledger < chain[hi + 1].ledger
      BY <1>3, <2>2 DEF SafeConfig, TypeOK, IsAligned
    <2> SUFFICES ASSUME NEW i \in Positions, NEW j \in Positions, i <= hi, hi < j
                 PROVE  chain[i].ledger < chain[j].ledger
      BY DEF PageEndsLedger
    <2>4. chain[i].ledger <= chain[hi].ledger /\ chain[hi + 1].ledger <= chain[j].ledger
      BY <1>1, <2>1 DEF Positions
    <2>5. /\ chain[i].ledger \in Nat /\ chain[hi].ledger \in Nat
          /\ chain[hi + 1].ledger \in Nat /\ chain[j].ledger \in Nat
      BY <1>1, <2>1
    <2> QED
      BY SMTT(30), <2>3, <2>4, <2>5
  <1>4. CASE hi = Len(chain)
    BY <1>4 DEF PageEndsLedger, Positions
  <1> QED
    BY <1>1, <1>2, <1>3, <1>4 DEF IsPage

LEMMA IndexerInvInit == SafeConfig /\ Init => IndexerInv
  <1> SUFFICES ASSUME SafeConfig, Init PROVE IndexerInv
    OBVIOUS
  <1>0. TypeOK
    BY TypeInit DEF TypeInv
  <1>1. Covered(0)
    BY <1>0, ZeroCovered
  <1>2. PICK life \in FormerLives : pgCp = life.checkpoint
    BY DEF Init
  <1>3. origin = IF pgCp # 0 THEN pgCp + 1 ELSE StartLedger
    BY DEF Init
  <1>4. pgCp \in Nat /\ StartLedger \in Nat
    BY <1>0, IndexerAssumption DEF TypeOK
  <1>5. ResumesInScope
    BY <1>2, <1>3, <1>4 DEF SafeConfig, ResumesInScope
  <1>6. Covered(pgCp)
    <2>1. \A i \in Positions : chain[i].ledger \in Nat
      BY SMTT(30), <1>0, HistoryType DEF TypeOK, Ledgers
    <2> QED
      BY <1>1, <1>3, <1>4, <2>1 DEF Covered, InScope
  <1> QED
    BY <1>1, <1>5, <1>6 DEF Init, IndexerInv, CheckpointCovers, DeliveredInOrder, TickInv

OthersUnchanged(p) ==
    \A q \in Indexers \ {p} :
        /\ pc'[q] = pc[q] /\ cp'[q] = cp[q] /\ start'[q] = start[q]
        /\ pos'[q] = pos[q] /\ end'[q] = end[q] /\ high'[q] = high[q]

(* A step of one tick that delivers nothing. *)
LEMMA LocalStep ==
    ASSUME IndexerInv, chain' = chain, UNCHANGED history, NEW p \in Indexers,
           OthersUnchanged(p), pgCp # 0 => pgCp' # 0, CheckpointCovers', TickInv(p)'
    PROVE  IndexerInv'
  <1>1. origin' = origin /\ delivered' = delivered
    BY DEF history
  <1>2. DeliveredInOrder'
    BY <1>1, NothingNew DEF IndexerInv
  <1>3. ASSUME NEW q \in Indexers PROVE TickInv(q)'
    BY <1>1, TickInvKept DEF IndexerInv, OthersUnchanged
  <1> QED
    BY <1>1, <1>2, <1>3 DEF IndexerInv, ResumesInScope

(* A step that leaves the stores alone leaves them covered. *)
LEMMA StoresKept ==
    ASSUME IndexerInv, chain' = chain, origin' = origin,
           delivered \subseteq delivered', UNCHANGED stores
    PROVE  CheckpointCovers'
  <1>1. Covered(redisCp)' /\ Covered(pgCp)'
    BY DEF IndexerInv, CheckpointCovers, Covered, InScope, Positions, stores
  <1> QED
    BY <1>1 DEF CheckpointCovers

(* The invariant of a tick that ends or begins. *)
LEMMA TickBoundary ==
    ASSUME TypeInv, IndexerInv, SafeConfig, chain' = chain, UNCHANGED history,
           NEW p \in Indexers
    PROVE  /\ EndTick(p) => TickInv(p)' /\ OthersUnchanged(p)
           /\ ResumeWithoutCheckpoint(p) /\ StartLedger # 0 =>
                TickInv(p)' /\ OthersUnchanged(p)
           /\ \A c \in {redisCp, pgCp} :
                ResumeAfter(p, c) => TickInv(p)' /\ OthersUnchanged(p)
  <1>1. ASSUME EndTick(p) PROVE TickInv(p)' /\ OthersUnchanged(p)
    <2>1. Covered(0)'
      BY ZeroCovered DEF Covered, InScope, Positions, history, TypeInv
    <2>2. pc'[p] = "idle" /\ cp'[p] = 0 /\ OthersUnchanged(p)
      BY <1>1 DEF EndTick, TypeInv, TypeOK, OthersUnchanged
    <2> QED
      BY <2>1, <2>2 DEF TickInv, Covered, InScope, Positions
  <1>2. ASSUME ResumeWithoutCheckpoint(p), StartLedger # 0
        PROVE  TickInv(p)' /\ OthersUnchanged(p)
    <2>1. pc'[p] = "fetch" /\ start'[p] = StartLedger /\ cp'[p] = cp[p]
          /\ OthersUnchanged(p)
      BY <1>2 DEF ResumeWithoutCheckpoint, TypeInv, TypeOK, OthersUnchanged
    <2>2. \A i \in Positions : ~(InScope(i) /\ chain[i].ledger < StartLedger)
      BY SMTT(30), <1>2, HistoryType, IndexerAssumption
         DEF IndexerInv, ResumesInScope, InScope, TypeInv, TypeOK, Ledgers
    <2>3. Covered(cp[p])
      BY DEF IndexerInv, TickInv
    <2> QED
      BY <2>1, <2>2, <2>3 DEF TickInv, Covered, InScope, Positions, history
  <1>3. ASSUME NEW c \in {redisCp, pgCp}, ResumeAfter(p, c)
        PROVE  TickInv(p)' /\ OthersUnchanged(p)
    <2>1. pc'[p] = "fetch" /\ start'[p] = c + 1 /\ cp'[p] = c /\ OthersUnchanged(p)
      BY <1>3 DEF ResumeAfter, FirstLedger, TypeInv, TypeOK, OthersUnchanged
    <2>2. Covered(c) /\ c \in Nat
      BY DEF IndexerInv, CheckpointCovers, TypeInv, TypeOK
    <2>3. \A i \in Positions : chain[i].ledger < c + 1 => chain[i].ledger <= c
      BY SMTT(30), <2>2, HistoryType DEF TypeInv, TypeOK, Ledgers
    <2> QED
      BY <2>1, <2>2, <2>3 DEF TickInv, Covered, InScope, Positions, history
  <1> QED
    BY <1>1, <1>2, <1>3

(* A step that neither delivers nor stores, and ends the tick or begins it. *)
LEMMA BoundaryStep ==
    ASSUME TypeInv, IndexerInv, SafeConfig, chain' = chain, UNCHANGED history,
           UNCHANGED stores, NEW p \in Indexers,
           \/ EndTick(p)
           \/ ResumeWithoutCheckpoint(p) /\ StartLedger # 0
           \/ \E c \in {redisCp, pgCp} : ResumeAfter(p, c)
    PROVE  IndexerInv'
  <1>1. CheckpointCovers'
    BY StoresKept DEF history
  <1>2. TickInv(p)' /\ OthersUnchanged(p)
    BY TickBoundary
  <1> QED
    BY <1>1, <1>2, LocalStep DEF stores

(* A step that only moves a tick to another await, where less is claimed. *)
LEMMA MoveStep ==
    ASSUME TypeInv, IndexerInv, chain' = chain, UNCHANGED history, UNCHANGED locals,
           UNCHANGED stores, NEW p \in Indexers, NEW next,
           pc' = [pc EXCEPT ![p] = next],
           \/ next = "readPg"
           \/ next = "insert" /\ pc[p] = "apply"
           \/ next = "writePg" /\ pc[p] = "writeRedis"
    PROVE  IndexerInv'
  <1>1. CheckpointCovers'
    BY StoresKept DEF history
  <1>2. pc'[p] = next /\ OthersUnchanged(p)
    BY DEF locals, OthersUnchanged, TypeInv, TypeOK
  <1>3. TickInv(p)
    BY DEF IndexerInv
  <1>4. TickInv(p)'
    BY <1>2, <1>3 DEF TickInv, Covered, InScope, PageEndsLedger, Positions, history, locals
  <1> QED
    BY <1>1, <1>2, <1>4, LocalStep DEF stores

(* Applying the next event of a page delivers it after all before it. *)
LEMMA DeliverStep ==
    ASSUME TypeInv, IndexerInv, chain' = chain, UNCHANGED stores,
           NEW p \in Indexers, pc[p] \in {"apply", "insert"}, pos[p] < end[p], Applied(p)
    PROVE  IndexerInv'
  <1> DEFINE k == pos[p] + 1
  <1>1. k \in Positions /\ EventLedger(p) \in Ledgers /\ pos[p] \in Nat
    <2>1. pos[p] \in Nat
      BY HistoryType DEF TypeInv, TypeOK
    <2> QED
      BY <2>1, DueEvent
  <1>2. delivered' = delivered \cup {k} /\ origin' = origin
    BY DEF Applied
  <1>3. /\ pc'[p] = "apply" /\ cp'[p] = cp[p] /\ end'[p] = end[p] /\ pos'[p] = k
        /\ high'[p] = high[p] \/ high'[p] = chain[k].ledger
        /\ OthersUnchanged(p)
    BY DEF Applied, OthersUnchanged, TypeInv, TypeOK, EventLedger
  <1>4. /\ Covered(cp[p])
        /\ PageEndsLedger(end[p])
        /\ \A i \in Positions : i <= pos[p] /\ InScope(i) => i \in delivered
        /\ high[p] = cp[p] \/ \E i \in 1 .. pos[p] : high[p] = chain[i].ledger
    BY DEF IndexerInv, TickInv
  <1>5. CheckpointCovers'
    BY <1>2, StoresKept
  <1>6. DeliveredInOrder'
    <2> SUFFICES ASSUME NEW i \in delivered', NEW j \in Positions, j < i, InScope(j)
                 PROVE  j \in delivered'
      BY <1>2 DEF DeliveredInOrder, InScope, Positions
    <2>1. CASE i \in delivered
      BY <2>1, <1>2 DEF IndexerInv, DeliveredInOrder
    <2>2. CASE i = k
      <3>1. j <= pos[p]
        BY <1>1, <2>2 DEF Positions
      <3> QED
        BY <3>1, <1>2, <1>4
    <2> QED
      BY <2>1, <2>2, <1>2
  <1>7. TickInv(p)'
    <2>1. Covered(cp[p])'
      BY <1>2, <1>3, <1>4 DEF Covered, InScope, Positions
    <2>2. \A i \in Positions : i <= k /\ InScope(i) => i \in delivered'
      BY <1>1, <1>2, <1>4 DEF Positions
    <2>3. high'[p] = cp[p] \/ \E i \in 1 .. k : high'[p] = chain[i].ledger
      <3>1. CASE high'[p] = chain[k].ledger
        BY <3>1, <1>1
      <3>2. CASE high'[p] = high[p]
        <4>1. \A i \in 1 .. pos[p] : i \in 1 .. k
          BY <1>1
        <4> QED
          BY <3>2, <4>1, <1>4
      <3> QED
        BY <3>1, <3>2, <1>3
    <2> QED
      BY <2>1, <2>2, <2>3, <1>2, <1>3, <1>4
         DEF TickInv, Covered, InScope, PageEndsLedger, Positions
  <1>8. ASSUME NEW q \in Indexers PROVE TickInv(q)'
    <2>1. CASE q = p
      BY <2>1, <1>7
    <2>2. CASE q # p
      BY <2>2, <1>2, <1>3, TickInvKept DEF IndexerInv, OthersUnchanged
    <2> QED
      BY <2>1, <2>2
  <1> QED
    BY <1>2, <1>5, <1>6, <1>8 DEF IndexerInv, ResumesInScope, stores

(* A page begins where everything before it has been applied. *)
LEMMA FetchPageStep ==
    ASSUME TypeInv, IndexerInv, SafeConfig, NEW p \in Indexers, FetchPage(p)
    PROVE  IndexerInv'
  <1>1. PICK lo \in 0 .. Len(chain), hi \in 0 .. Len(chain) :
          /\ IsPage(lo, hi, start[p])
          /\ pos' = [pos EXCEPT ![p] = lo]
          /\ end' = [end EXCEPT ![p] = hi]
    BY DEF FetchPage
  <1>2. /\ pc'[p] = "apply" /\ cp'[p] = cp[p] /\ pos'[p] = lo /\ end'[p] = hi
        /\ high'[p] = cp[p]
    BY <1>1 DEF FetchPage, InitialHighest, TypeInv, TypeOK
  <1>8. OthersUnchanged(p)
    BY <1>1 DEF FetchPage, OthersUnchanged, TypeInv, TypeOK
  <1>3. chain' = chain /\ UNCHANGED history /\ UNCHANGED stores
    BY DEF FetchPage, feedVars
  <1>4. PageEndsLedger(hi)
    BY <1>1, PageAligned DEF FetchPage, TypeInv, TypeOK
  <1>5. \A i \in Positions : i <= lo /\ InScope(i) => i \in delivered
    BY <1>1 DEF IsPage, FetchPage, IndexerInv, TickInv
  <1>6. Covered(cp[p])
    BY DEF IndexerInv, TickInv
  <1>7. TickInv(p)'
    BY <1>2, <1>3, <1>4, <1>5, <1>6
       DEF TickInv, Covered, InScope, PageEndsLedger, Positions, history
  <1> QED
    BY <1>8, <1>3, <1>7, StoresKept, LocalStep DEF history, stores

(* After the loop, everything up to the highest ledger has been applied. *)
LEMMA BeginWriteStep ==
    ASSUME TypeInv, IndexerInv, NEW p \in Indexers, BeginWrite(p)
    PROVE  IndexerInv'
  <1>1. /\ chain' = chain /\ UNCHANGED history /\ UNCHANGED stores /\ UNCHANGED locals
        /\ pc'[p] \in {"writeRedis", "writePg"} /\ OthersUnchanged(p)
    BY DEF BeginWrite, feedVars, locals, OthersUnchanged, TypeInv, TypeOK
  <1>2. Covered(high[p])
    <2>1. high[p] # cp[p] /\ pos[p] = end[p] /\ pc[p] = "apply"
      BY DEF BeginWrite, PageApplied, TypeInv, TypeOK
    <2>2. PICK i \in 1 .. pos[p] : high[p] = chain[i].ledger
      BY <2>1 DEF IndexerInv, TickInv
    <2> SUFFICES ASSUME NEW j \in Positions, InScope(j), chain[j].ledger <= high[p]
                 PROVE  j \in delivered
      BY DEF Covered
    <2>3. i \in Positions /\ i <= end[p]
      BY <2>1, <2>2, HistoryType DEF Positions, TypeInv, TypeOK
    <2>4. ~(end[p] < j)
      <3>1. chain[i].ledger \in Nat /\ chain[j].ledger \in Nat
        <4>1. \A m \in Positions : chain[m].ledger \in Nat
          BY SMTT(30), HistoryType DEF TypeInv, TypeOK, Ledgers
        <4> QED
          BY <2>3, <4>1
      <3>2. PageEndsLedger(end[p])
        BY <2>1 DEF IndexerInv, TickInv
      <3>3. end[p] < j => chain[i].ledger < chain[j].ledger
        BY <2>3, <3>2 DEF PageEndsLedger
      <3> QED
        BY <2>2, <3>1, <3>3
    <2>5. j <= pos[p]
      BY <2>1, <2>4 DEF Positions, TypeInv, TypeOK
    <2> QED
      BY <2>1, <2>5 DEF IndexerInv, TickInv
  <1>3. Covered(cp[p]) /\ high[p] # 0
    BY DEF IndexerInv, TickInv, BeginWrite, TypeInv, TypeOK
  <1>4. TickInv(p)'
    BY <1>1, <1>2, <1>3 DEF TickInv, Covered, InScope, Positions, history, locals
  <1> QED
    BY <1>1, <1>4, StoresKept, LocalStep DEF history, stores

LEMMA WriteStep ==
    ASSUME TypeInv, IndexerInv, SafeConfig, NEW p \in Indexers,
           WriteRedis(p) \/ WritePg(p)
    PROVE  IndexerInv'
  <1>1. chain' = chain /\ UNCHANGED history
    BY DEF WriteRedis, WritePg, feedVars
  <1>2. high[p] # 0 /\ Covered(high[p])
    BY DEF IndexerInv, TickInv, WriteRedis, WritePg
  <1>3. CheckpointCovers'
    <2>1. redisCp' \in {redisCp, high[p]} /\ pgCp' \in {pgCp, high[p]}
      BY DEF WriteRedis, WritePg
    <2>2. Covered(redisCp) /\ Covered(pgCp)
      BY DEF IndexerInv, CheckpointCovers
    <2> QED
      BY <1>1, <1>2, <2>1, <2>2
         DEF CheckpointCovers, Covered, InScope, Positions, history
  <1>4. TickInv(p)' /\ OthersUnchanged(p)
    <2>1. CASE WriteRedis(p)
      <3>1. pc'[p] = "writePg" /\ UNCHANGED locals /\ OthersUnchanged(p)
        BY <2>1 DEF WriteRedis, locals, OthersUnchanged, TypeInv, TypeOK
      <3>2. Covered(cp[p])
        BY DEF IndexerInv, TickInv
      <3> QED
        BY <1>1, <1>2, <3>1, <3>2 DEF TickInv, Covered, InScope, Positions, history, locals
    <2>2. CASE WritePg(p)
      BY <2>2, <1>1, TickBoundary DEF WritePg
    <2> QED
      BY <2>1, <2>2
  <1>5. pgCp # 0 => pgCp' # 0
    BY <1>2 DEF WriteRedis, WritePg
  <1> QED
    BY <1>1, <1>3, <1>4, <1>5, LocalStep

(* Nothing of the indexer moves. *)
LEMMA OutsideStep ==
    ASSUME TypeInv, IndexerInv, chain' = chain, UNCHANGED history, UNCHANGED pgCp,
           redisCp' \in {redisCp, 0}, UNCHANGED pc, UNCHANGED locals
    PROVE  IndexerInv'
  <1>1. origin' = origin /\ delivered' = delivered
    BY DEF history
  <1>2. CheckpointCovers'
    <2>1. Covered(redisCp) /\ Covered(pgCp) /\ Covered(0)
      BY ZeroCovered DEF IndexerInv, CheckpointCovers, TypeInv
    <2> QED
      BY <1>1, <2>1 DEF CheckpointCovers, Covered, InScope, Positions
  <1>3. ASSUME NEW q \in Indexers PROVE TickInv(q)'
    BY <1>1, TickInvKept DEF IndexerInv, locals
  <1> QED
    BY <1>1, <1>2, <1>3, NothingNew DEF IndexerInv, ResumesInScope

LEMMA IndexerInvStep ==
    TypeInv /\ IndexerInv /\ SafeConfig /\ [Next]_vars => IndexerInv'
  <1> SUFFICES ASSUME TypeInv, IndexerInv, SafeConfig, [Next]_vars PROVE IndexerInv'
    OBVIOUS
  <1>1. CASE UNCHANGED vars
    BY <1>1, OutsideStep DEF vars, feedVars, stores
  <1>2. CASE ChainAdvances
    BY <1>2, OutsideStep DEF ChainAdvances, CloseLedger, stores
  <1>3. CASE EvictCheckpoint
    BY <1>3, OutsideStep DEF EvictCheckpoint, feedVars
  <1>4. ASSUME NEW p \in Indexers, ReadCheckpoint(p) PROVE IndexerInv'
    <2>1. CASE ReadRedisHit(p)
      BY <2>1, BoundaryStep DEF ReadRedisHit, feedVars
    <2>2. CASE ReadRedisMiss(p)
      BY <2>2, MoveStep DEF ReadRedisMiss, feedVars
    <2>3. CASE ReadPg(p)
      BY <2>3, BoundaryStep DEF ReadPg, IndexerInv, ResumesInScope, feedVars
    <2>4. CASE ReadTip(p)
      BY <2>4 DEF ReadTip, IndexerInv, TickInv
    <2> QED
      BY <1>4, <2>1, <2>2, <2>3, <2>4 DEF ReadCheckpoint
  <1>5. ASSUME NEW p \in Indexers, GetEvents(p) PROVE IndexerInv'
    <2>1. CASE FetchRefused(p)
      BY <2>1, BoundaryStep DEF FetchRefused, feedVars
    <2> QED
      BY <1>5, <2>1, FetchPageStep DEF GetEvents
  <1>6. ASSUME NEW p \in Indexers, ApplyEvent(p) PROVE IndexerInv'
    <2>1. CASE ForeignKeyViolation(p)
      BY <2>1, BoundaryStep DEF ForeignKeyViolation, feedVars
    <2>2. CASE MissPayout(p)
      BY <2>2, MoveStep DEF MissPayout, Due, feedVars
    <2>3. CASE RegisterDataset(p) \/ ChangeState(p) \/ IssueLicense(p)
               \/ FindPayout(p) \/ SkipUndecoded(p)
      <3>1. pc[p] = "apply" /\ pos[p] < end[p] /\ Applied(p) /\ chain' = chain
            /\ UNCHANGED stores
        BY <2>3 DEF RegisterDataset, ChangeState, IssueLicense, FindPayout,
                    SkipUndecoded, Due, feedVars
      <3> QED
        BY <3>1, DeliverStep
    <2>4. CASE CreatePayout(p)
      BY <2>4, DueType, DeliverStep DEF CreatePayout, feedVars
    <2> QED
      BY <1>6, <2>1, <2>2, <2>3, <2>4 DEF ApplyEvent
  <1>7. ASSUME NEW p \in Indexers, Finish(p) PROVE IndexerInv'
    <2>1. CASE FinishWithoutWrite(p)
      BY <2>1, BoundaryStep DEF FinishWithoutWrite, feedVars
    <2> QED
      BY <1>7, <2>1, BeginWriteStep, WriteStep DEF Finish
  <1>8. ASSUME NEW p \in Indexers, Failure(p) PROVE IndexerInv'
    <2>1. CASE RpcError(p) \/ ApplyError(p) \/ WritePgError(p) \/ Crash(p)
      BY <2>1, BoundaryStep
         DEF RpcError, ApplyError, WritePgError, Crash, feedVars
    <2>5. CASE ReadPgError(p)
      BY <2>5, BoundaryStep
         DEF ReadPgError, Fail, IndexerInv, ResumesInScope, feedVars
    <2>2. CASE ReadRedisError(p)
      BY <2>2, MoveStep DEF ReadRedisError, feedVars
    <2>3. CASE WriteRedisError(p)
      BY <2>3, MoveStep DEF WriteRedisError, feedVars
    <2>4. CASE Stop(p)
      BY <2>4, OutsideStep DEF Stop, feedVars, stores
    <2> QED
      BY <1>8, <2>1, <2>2, <2>3, <2>4, <2>5 DEF Failure
  <1> QED
    BY <1>1, <1>2, <1>3, <1>4, <1>5, <1>6, <1>7, <1>8 DEF Next, Step

THEOREM IndexerInvariant == SafeConfig => (Spec => []IndexerInv)
  <1>1. SafeConfig /\ Init => TypeInv /\ IndexerInv
    BY TypeInit, IndexerInvInit
  <1>2. SafeConfig /\ TypeInv /\ IndexerInv /\ [Next]_vars => (TypeInv /\ IndexerInv)'
    BY TypeStep, IndexerInvStep
  <1>3. ASSUME SafeConfig PROVE Spec => []IndexerInv
    <2>1. Init => TypeInv /\ IndexerInv
      BY <1>1, <1>3
    <2>2. TypeInv /\ IndexerInv /\ [Next]_vars => (TypeInv /\ IndexerInv)'
      BY <1>2, <1>3
    <2> QED
      BY <2>1, <2>2, PTL DEF Spec
  <1> QED
    BY <1>3

(***************************************************************************)
(* Where a tick without a checkpoint begins in scope and no page cuts a    *)
(* ledger in two, no stored checkpoint passes an event that was not        *)
(* applied: for any number of processes and any sequence of failures.      *)
(***************************************************************************)
THEOREM CheckpointSafe == SafeConfig => (Spec => []CheckpointCovers)
  <1>1. IndexerInv => CheckpointCovers
    BY DEF IndexerInv
  <1> QED
    BY <1>1, IndexerInvariant, PTL

(* Under the same conditions events are first applied in order. *)
THEOREM OrderedDelivery == SafeConfig => (Spec => []DeliveredInOrder)
  <1>1. IndexerInv => DeliveredInOrder
    BY DEF IndexerInv
  <1> QED
    BY <1>1, IndexerInvariant, PTL

-----------------------------------------------------------------------------
(* The gauge.                                                              *)

(* What is covered is covered up to any ledger below. *)
LEMMA CoveredBelow ==
    ASSUME TypeOK, NEW c \in Nat, NEW d \in Nat, d <= c, Covered(c)
    PROVE  Covered(d)
  <1>1. \A i \in Positions : chain[i].ledger \in Nat
    BY SMTT(30), HistoryType DEF TypeOK, Ledgers
  <1> QED
    BY <1>1 DEF Covered

LEMMA GaugeStep ==
    ASSUME TypeInv, IndexerInv, NEW p \in Indexers, SetsGauge(p)
    PROVE  Covered(latest[p] - lag'[p])
  <1>1. latest[p] \in Nat /\ high[p] \in Nat
    BY DEF TypeInv, TypeOK
  <1>2. lag'[p] = Behind(p) /\ Covered(high[p])
    <2>1. CASE FinishWithoutWrite(p)
      BY <2>1 DEF FinishWithoutWrite, IndexerInv, TickInv, TypeInv, TypeOK
    <2>2. CASE WritePg(p)
      BY <2>2 DEF WritePg, IndexerInv, TickInv, TypeInv, TypeOK
    <2>3. CASE WritePgError(p)
      BY <2>3 DEF WritePgError, IndexerInv, TickInv, TypeInv, TypeOK
    <2>4. CASE BeginWrite(p) \/ WriteRedis(p)
      BY <2>4 DEF BeginWrite, WriteRedis, SetsGauge, TypeInv, TypeOK
    <2> QED
      BY <2>1, <2>2, <2>3, <2>4 DEF Finish, SetsGauge
  <1>3. latest[p] - lag'[p] \in Nat /\ latest[p] - lag'[p] <= high[p]
    BY <1>1, <1>2 DEF Behind
  <1> QED
    BY <1>1, <1>2, <1>3, CoveredBelow DEF TypeInv

(* Whatever lag a tick reports, with or without its checkpoint saved, the  *)
(* events up to the tip it saw less that lag have been applied.            *)
THEOREM GaugeSound == SafeConfig => (Spec => GaugeNeverUnderstates)
  <1>1. ASSUME SafeConfig PROVE Spec => GaugeNeverUnderstates
    <2>1. TypeInv /\ IndexerInv /\ [Next]_vars =>
            [\A p \in Indexers : SetsGauge(p) => Covered(latest[p] - lag'[p])]_vars
      BY GaugeStep
    <2>2. Spec => []TypeInv
      BY TypeInit, TypeStep, PTL DEF Spec
    <2>3. Spec => []IndexerInv
      BY <1>1, IndexerInvariant
    <2> QED
      BY <2>1, <2>2, <2>3, PTL DEF Spec, GaugeNeverUnderstates
  <1> QED
    BY <1>1

-----------------------------------------------------------------------------
(* The indexer implements the feed.                                        *)

(* What a tick has read was visible, and it stores no ledger past the tip. *)
FeedTickInv(p) ==
    /\ pc[p] \in {"apply", "insert"} => \A i \in Positions : i <= end[p] => Visible(i)
    /\ pc[p] \in {"writeRedis", "writePg"} => high[p] <= tip

FeedInv == \A p \in Indexers : FeedTickInv(p)

LEMMA FeedInvKept ==
    ASSUME TypeOK, chain' = chain, tip \in Nat, tip' \in Nat, tip <= tip',
           NEW q \in Indexers,
           pc'[q] = pc[q], end'[q] = end[q], high'[q] = high[q], FeedTickInv(q)
    PROVE  FeedTickInv(q)'
  <1>1. \A i \in Positions : chain[i].ledger \in Nat
    BY SMTT(30), HistoryType DEF TypeOK, Ledgers
  <1>2. high[q] \in Nat
    BY DEF TypeOK
  <1> QED
    BY <1>1, <1>2 DEF FeedTickInv, Visible, Positions

(* A step of one tick, while the chain stands still. *)
LEMMA FeedLocalStep ==
    ASSUME TypeOK, FeedInv, chain' = chain, tip' = tip, NEW p \in Indexers,
           OthersUnchanged(p), FeedTickInv(p)'
    PROVE  FeedInv'
  <1> SUFFICES ASSUME NEW q \in Indexers PROVE FeedTickInv(q)'
    BY DEF FeedInv
  <1>1. tip \in Nat
    BY DEF TypeOK, Ledgers
  <1>2. CASE q = p
    BY <1>2
  <1>3. CASE q # p
    BY <1>1, <1>3, FeedInvKept DEF OthersUnchanged, FeedInv
  <1> QED
    BY <1>2, <1>3

(* A tick that is at no page and stores nothing. *)
LEMMA FeedIdleStep ==
    ASSUME TypeOK, FeedInv, chain' = chain, tip' = tip, NEW p \in Indexers,
           \/ EndTick(p)
           \/ ResumeWithoutCheckpoint(p)
           \/ \E c : ResumeAfter(p, c)
    PROVE  FeedInv'
  <1>1. pc'[p] \in {"idle", "fetch", "readTip"} /\ OthersUnchanged(p)
    BY DEF EndTick, ResumeWithoutCheckpoint, ResumeAfter, OthersUnchanged, TypeOK
  <1>2. FeedTickInv(p)'
    BY <1>1 DEF FeedTickInv
  <1> QED
    BY <1>1, <1>2, FeedLocalStep

(* A step to another await of the same page. *)
LEMMA FeedMoveStep ==
    ASSUME TypeOK, FeedInv, chain' = chain, tip' = tip, UNCHANGED locals,
           NEW p \in Indexers, NEW next, pc' = [pc EXCEPT ![p] = next],
           \/ next = "readPg"
           \/ next = "insert" /\ pc[p] = "apply"
           \/ next = "writePg" /\ pc[p] = "writeRedis"
    PROVE  FeedInv'
  <1>1. pc'[p] = next /\ OthersUnchanged(p)
    BY DEF locals, OthersUnchanged, TypeOK
  <1>2. FeedTickInv(p)
    BY DEF FeedInv
  <1>3. FeedTickInv(p)'
    BY <1>1, <1>2 DEF FeedTickInv, Visible, Positions, locals
  <1> QED
    BY <1>1, <1>3, FeedLocalStep

LEMMA FeedAppliedStep ==
    ASSUME TypeOK, FeedInv, chain' = chain, tip' = tip, NEW p \in Indexers,
           pc[p] \in {"apply", "insert"}, Applied(p)
    PROVE  FeedInv'
  <1>1. pc'[p] = "apply" /\ end'[p] = end[p] /\ OthersUnchanged(p)
    BY DEF Applied, OthersUnchanged, TypeOK
  <1>2. FeedTickInv(p)
    BY DEF FeedInv
  <1>3. FeedTickInv(p)'
    BY <1>1, <1>2 DEF FeedTickInv, Visible, Positions
  <1> QED
    BY <1>1, <1>3, FeedLocalStep

LEMMA FeedFetchStep ==
    ASSUME TypeOK, FeedInv, NEW p \in Indexers, FetchPage(p)
    PROVE  FeedInv'
  <1>1. PICK lo \in 0 .. Len(chain), hi \in 0 .. Len(chain) :
          /\ IsPage(lo, hi, start[p])
          /\ pos' = [pos EXCEPT ![p] = lo]
          /\ end' = [end EXCEPT ![p] = hi]
    BY DEF FetchPage
  <1>2. pc'[p] = "apply" /\ end'[p] = hi /\ OthersUnchanged(p)
    BY <1>1 DEF FetchPage, OthersUnchanged, TypeOK
  <1>3. chain' = chain /\ tip' = tip
    BY DEF FetchPage, feedVars
  <1>4. \A i \in Positions : i <= hi => Visible(i)
    <2> SUFFICES ASSUME NEW i \in Positions, i <= hi PROVE Visible(i)
      OBVIOUS
    <2>1. start[p] \in Nat /\ tip \in Nat /\ chain[i].ledger \in Nat /\ start[p] <= tip
      BY SMTT(30), HistoryType DEF TypeOK, Ledgers, FetchPage, Serves
    <2>2. CASE i <= lo
      BY <1>1, <2>1, <2>2 DEF IsPage, Visible
    <2>3. CASE ~(i <= lo)
      <3>1. i \in lo + 1 .. hi
        BY <2>3 DEF Positions
      <3> QED
        BY <1>1, <3>1 DEF IsPage
    <2> QED
      BY <2>2, <2>3
  <1>5. FeedTickInv(p)'
    BY <1>2, <1>3, <1>4 DEF FeedTickInv, Visible, Positions
  <1> QED
    BY <1>2, <1>3, <1>5, FeedLocalStep

LEMMA FeedBeginWriteStep ==
    ASSUME TypeInv, IndexerInv, FeedInv, NEW p \in Indexers, BeginWrite(p)
    PROVE  FeedInv'
  <1>1. /\ chain' = chain /\ tip' = tip /\ high' = high /\ OthersUnchanged(p)
        /\ pc'[p] \in {"writeRedis", "writePg"}
    BY DEF BeginWrite, feedVars, locals, OthersUnchanged, TypeInv, TypeOK
  <1>2. pc[p] = "apply" /\ pos[p] = end[p] /\ high[p] # cp[p]
    BY DEF BeginWrite, PageApplied, TypeInv, TypeOK
  <1>3. PICK i \in 1 .. pos[p] : high[p] = chain[i].ledger
    BY <1>2 DEF IndexerInv, TickInv
  <1>4. i \in Positions /\ i <= end[p]
    BY <1>2, HistoryType DEF TypeInv, TypeOK, Positions
  <1>5. high[p] <= tip
    BY <1>2, <1>3, <1>4 DEF FeedInv, FeedTickInv, Visible
  <1>6. FeedTickInv(p)'
    BY <1>1, <1>5 DEF FeedTickInv
  <1> QED
    BY <1>1, <1>6, FeedLocalStep DEF TypeInv

LEMMA FeedInvStep ==
    TypeInv /\ IndexerInv /\ FeedInv /\ [Next]_vars => FeedInv'
  <1> SUFFICES ASSUME TypeInv, IndexerInv, FeedInv, [Next]_vars PROVE FeedInv'
    OBVIOUS
  <1> USE DEF TypeInv
  <1>1. CASE UNCHANGED vars
    BY <1>1, FeedInvKept
       DEF vars, feedVars, locals, FeedInv, FeedTickInv, Visible, Positions
  <1>2. CASE ChainAdvances
    <2>1. tip \in Nat /\ tip' = tip + 1 /\ chain' = chain
      BY <1>2 DEF ChainAdvances, CloseLedger, TypeOK, Ledgers
    <2> QED
      BY <1>2, <2>1, FeedInvKept DEF ChainAdvances, locals, FeedInv
  <1>3. CASE EvictCheckpoint
    BY <1>3 DEF EvictCheckpoint, feedVars, locals, FeedInv, FeedTickInv, Visible, Positions
  <1>4. ASSUME NEW p \in Indexers, ReadCheckpoint(p) PROVE FeedInv'
    <2>1. CASE ReadRedisHit(p) \/ ReadPg(p)
      BY <2>1, FeedIdleStep DEF ReadRedisHit, ReadPg, feedVars
    <2>2. CASE ReadRedisMiss(p)
      BY <2>2, FeedMoveStep DEF ReadRedisMiss, feedVars
    <2>3. CASE ReadTip(p)
      BY <2>3 DEF ReadTip, IndexerInv, TickInv
    <2> QED
      BY <1>4, <2>1, <2>2, <2>3 DEF ReadCheckpoint
  <1>5. ASSUME NEW p \in Indexers, GetEvents(p) PROVE FeedInv'
    <2>1. CASE FetchRefused(p)
      BY <2>1, FeedIdleStep DEF FetchRefused, feedVars
    <2> QED
      BY <1>5, <2>1, FeedFetchStep DEF GetEvents
  <1>6. ASSUME NEW p \in Indexers, ApplyEvent(p) PROVE FeedInv'
    <2>1. CASE ForeignKeyViolation(p)
      BY <2>1, FeedIdleStep DEF ForeignKeyViolation, feedVars
    <2>2. CASE MissPayout(p)
      BY <2>2, FeedMoveStep DEF MissPayout, Due, feedVars
    <2>3. CASE RegisterDataset(p) \/ ChangeState(p) \/ IssueLicense(p)
               \/ FindPayout(p) \/ CreatePayout(p) \/ SkipUndecoded(p)
      BY <2>3, FeedAppliedStep
         DEF RegisterDataset, ChangeState, IssueLicense, FindPayout, CreatePayout,
             SkipUndecoded, Due, feedVars
    <2> QED
      BY <1>6, <2>1, <2>2, <2>3 DEF ApplyEvent
  <1>7. ASSUME NEW p \in Indexers, Finish(p) PROVE FeedInv'
    <2>1. CASE FinishWithoutWrite(p) \/ WritePg(p)
      BY <2>1, FeedIdleStep DEF FinishWithoutWrite, WritePg, feedVars
    <2>2. CASE WriteRedis(p)
      BY <2>2, FeedMoveStep DEF WriteRedis, feedVars
    <2> QED
      BY <1>7, <2>1, <2>2, FeedBeginWriteStep DEF Finish
  <1>8. ASSUME NEW p \in Indexers, Failure(p) PROVE FeedInv'
    <2>1. CASE ReadPgError(p) \/ RpcError(p) \/ ApplyError(p) \/ WritePgError(p)
               \/ Crash(p)
      BY <2>1, FeedIdleStep
         DEF ReadPgError, RpcError, ApplyError, WritePgError, Crash, feedVars
    <2>2. CASE ReadRedisError(p) \/ WriteRedisError(p)
      BY <2>2, FeedMoveStep DEF ReadRedisError, WriteRedisError, feedVars
    <2>3. CASE Stop(p)
      BY <2>3 DEF Stop, feedVars, locals, FeedInv, FeedTickInv, Visible, Positions
    <2> QED
      BY <1>8, <2>1, <2>2, <2>3 DEF Failure
  <1> QED
    BY <1>1, <1>2, <1>3, <1>4, <1>5, <1>6, <1>7, <1>8 DEF Next, Step

-----------------------------------------------------------------------------
(* The step simulation.                                                    *)

LEMMA FeedInitImplemented == SafeConfig /\ Init => Feed!Init
  <1> SUFFICES ASSUME SafeConfig, Init PROVE Feed!Init
    OBVIOUS
  <1>1. TypeOK /\ delivered = {}
    BY TypeInit DEF TypeInv, Init
  <1>2. Covered(pgCp)
    BY IndexerInvInit DEF IndexerInv, CheckpointCovers
  <1>3. Feed!Covered(pgCp)
    BY <1>2 DEF Feed!Covered, Feed!InScope, Feed!Positions, Covered, InScope, Positions,
                DeliveredInScope
  <1>4. Feed!FeedInit
    BY DEF Init, FeedInit, Feed!FeedInit
  <1> QED
    BY <1>1, <1>3, <1>4 DEF Feed!Init, DeliveredInScope, TypeOK

(* Applying an event delivers it, delivers it again, or is out of scope. *)
LEMMA AppliedDelivers ==
    ASSUME TypeInv, IndexerInv, FeedInv, UNCHANGED feedVars, UNCHANGED stores,
           NEW p \in Indexers, pc[p] \in {"apply", "insert"}, pos[p] < end[p], Applied(p)
    PROVE  [Feed!Next]_(Feed!vars)
  <1> DEFINE k == pos[p] + 1
  <1>1. k \in Positions /\ k <= end[p]
    <2>1. pos[p] \in Nat /\ end[p] \in Nat
      BY HistoryType DEF TypeInv, TypeOK
    <2> QED
      BY <2>1, DueEvent
  <1>2. delivered' = delivered \cup {k} /\ origin' = origin
    BY DEF Applied
  <1>3. \A i : InScope(i)' <=> InScope(i)
    BY <1>2 DEF InScope, feedVars
  <1>4. CASE ~InScope(k) \/ k \in delivered
    <2>1. DeliveredInScope' = DeliveredInScope
      BY <1>2, <1>3, <1>4 DEF DeliveredInScope
    <2> QED
      BY <1>2, <2>1 DEF Feed!vars, Feed!feedVars, feedVars, stores
  <1>5. CASE InScope(k) /\ k \notin delivered
    <2>1. DeliveredInScope' = DeliveredInScope \cup {k} /\ k \notin DeliveredInScope
      BY <1>2, <1>3, <1>5 DEF DeliveredInScope
    <2>2. Visible(k)
      BY <1>1 DEF FeedInv, FeedTickInv
    <2>3. \A j \in Positions : j < k /\ InScope(j) => j \in DeliveredInScope
      <3>1. \A j \in Positions : j < k => j <= pos[p]
        BY HistoryType DEF Positions, TypeInv, TypeOK
      <3> QED
        BY <3>1 DEF IndexerInv, TickInv, DeliveredInScope
    <2>4. Feed!Deliver(k)
      BY <1>2, <1>5, <2>1, <2>2, <2>3
         DEF Feed!Deliver, Feed!InScope, InScope, Feed!Visible, Visible, Feed!Positions,
             Positions, Feed!feedVars, feedVars, stores
    <2> QED
      BY <1>1, <2>4 DEF Feed!Next, Feed!Positions, Positions
  <1> QED
    BY <1>4, <1>5

LEMMA WriteCommits ==
    ASSUME TypeInv, IndexerInv, FeedInv, NEW p \in Indexers, WritePg(p)
    PROVE  Feed!Next
  <1>1. high[p] \in 0 .. tip /\ Covered(high[p])
    BY DEF WritePg, TypeInv, TypeOK, IndexerInv, TickInv, FeedInv, FeedTickInv
  <1>2. Feed!Covered(high[p])
    BY <1>1 DEF Feed!Covered, Feed!InScope, Feed!Positions, Covered, InScope, Positions,
                DeliveredInScope
  <1>3. DeliveredInScope' = DeliveredInScope
    BY DEF WritePg, DeliveredInScope, InScope, history, feedVars
  <1>4. Feed!Commit(high[p])
    BY <1>2, <1>3 DEF Feed!Commit, WritePg, Feed!feedVars, feedVars, history
  <1> QED
    BY <1>1, <1>4 DEF Feed!Next

LEMMA FeedStep ==
    TypeInv /\ IndexerInv /\ FeedInv /\ [Next]_vars => [Feed!Next]_(Feed!vars)
  <1> SUFFICES ASSUME TypeInv, IndexerInv, FeedInv, [Next]_vars
               PROVE  [Feed!Next]_(Feed!vars)
    OBVIOUS
  <1>1. ASSUME UNCHANGED feedVars, UNCHANGED history, UNCHANGED pgCp
        PROVE  UNCHANGED Feed!vars
    BY <1>1 DEF Feed!vars, Feed!feedVars, feedVars, history, DeliveredInScope, InScope
  <1>2. CASE UNCHANGED vars \/ EvictCheckpoint
    BY <1>1, <1>2 DEF vars, EvictCheckpoint, stores
  <1>3. CASE ChainAdvances
    <2>1. Feed!CloseLedger /\ UNCHANGED <<origin, DeliveredInScope, pgCp>>
      BY <1>3 DEF ChainAdvances, CloseLedger, Feed!CloseLedger, history, stores,
                  DeliveredInScope, InScope
    <2> QED
      BY <2>1 DEF Feed!Next, Feed!ChainAdvances
  <1>4. ASSUME NEW p \in Indexers, ReadCheckpoint(p) \/ GetEvents(p)
        PROVE  [Feed!Next]_(Feed!vars)
    <2>1. ~ReadTip(p)
      BY DEF ReadTip, IndexerInv, TickInv
    <2> QED
      BY <1>1, <1>4, <2>1
         DEF ReadCheckpoint, ReadRedisHit, ReadRedisMiss, ReadPg, GetEvents, FetchPage,
             FetchRefused, stores
  <1>5. ASSUME NEW p \in Indexers, ApplyEvent(p) PROVE [Feed!Next]_(Feed!vars)
    <2>1. CASE ForeignKeyViolation(p) \/ MissPayout(p)
      BY <1>1, <2>1 DEF ForeignKeyViolation, MissPayout, stores
    <2>2. CASE RegisterDataset(p) \/ ChangeState(p) \/ IssueLicense(p)
               \/ FindPayout(p) \/ SkipUndecoded(p)
      BY <2>2, AppliedDelivers
         DEF RegisterDataset, ChangeState, IssueLicense, FindPayout, SkipUndecoded, Due
    <2>3. CASE CreatePayout(p)
      BY <2>3, DueType, AppliedDelivers DEF CreatePayout
    <2> QED
      BY <1>5, <2>1, <2>2, <2>3 DEF ApplyEvent
  <1>6. ASSUME NEW p \in Indexers, Finish(p) PROVE [Feed!Next]_(Feed!vars)
    <2>1. CASE FinishWithoutWrite(p) \/ BeginWrite(p) \/ WriteRedis(p)
      BY <1>1, <2>1 DEF FinishWithoutWrite, BeginWrite, WriteRedis, stores
    <2> QED
      BY <1>6, <2>1, WriteCommits DEF Finish
  <1>7. ASSUME NEW p \in Indexers, Failure(p) PROVE [Feed!Next]_(Feed!vars)
    BY <1>1, <1>7
       DEF Failure, ReadRedisError, ReadPgError, RpcError, ApplyError, WriteRedisError,
           WritePgError, Stop, Crash, stores
  <1> QED
    BY <1>2, <1>3, <1>4, <1>5, <1>6, <1>7 DEF Next, Step

(***************************************************************************)
(* Under the same conditions the indexer, seen through its Postgres        *)
(* checkpoint, is an at-least-once feed of the events in scope.            *)
(***************************************************************************)
THEOREM FeedImplemented == SafeConfig => (Spec => ImplementsFeed)
  <1>1. ASSUME SafeConfig PROVE Spec => ImplementsFeed
    <2>1. Init => Feed!Init
      BY <1>1, FeedInitImplemented
    <2>2. Spec => []TypeInv
      BY TypeInit, TypeStep, PTL DEF Spec
    <2>3. Spec => []IndexerInv
      BY <1>1, IndexerInvariant
    <2>4. Init => FeedInv
      BY DEF Init, FeedInv, FeedTickInv
    <2>5. TypeInv /\ IndexerInv /\ FeedInv /\ [Next]_vars => FeedInv'
      BY FeedInvStep
    <2>6. TypeInv /\ IndexerInv /\ FeedInv /\ [Next]_vars => [Feed!Next]_(Feed!vars)
      BY FeedStep
    <2> QED
      BY <2>1, <2>2, <2>3, <2>4, <2>5, <2>6, PTL DEF Spec, ImplementsFeed, Feed!Spec
  <1> QED
    BY <1>1
=============================================================================
