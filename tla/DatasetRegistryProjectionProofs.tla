------------------ MODULE DatasetRegistryProjectionProofs ------------------
(***************************************************************************)
(* Theorems about the projection tables, for every history and any number  *)
(* of failures that make the indexer replay a part of it.                  *)
(***************************************************************************)
EXTENDS DatasetRegistryProjection, DatasetRegistryIndexerProofs

(***************************************************************************)
(* What replaying is harmless under.  One process begins with empty tables *)
(* at a start ledger and resumes from one checkpoint alone: a read of the  *)
(* Postgres row that fails, or a Redis key that comes and goes, makes a    *)
(* tick replay from further back than the next one, so that a replay that  *)
(* is cut short is not made good.  And no dataset changes its state before *)
(* the first registration that is indexed (updateMany of an absent row     *)
(* does nothing in the first pass, but not in the second).                 *)
(***************************************************************************)
StatesFollowRegistration ==
    \A c \in Chains : \A i \in 1 .. Len(c) :
        c[i].body.kind = "dataset_state_changed" /\ c[i].ledger >= StartLedger =>
            \E j \in 1 .. i - 1 :
                /\ c[j].body.kind = "dataset_registered" /\ c[j].body.id = c[i].body.id
                /\ c[j].ledger >= StartLedger

OneReplayer ==
    /\ \A p, q \in Indexers : p = q
    /\ FormerLives \subseteq {NoFormerLife}
    /\ StartLedger # 0
    /\ RedisConfigured = FALSE /\ "pg_get" \notin Faults
    /\ \A c \in Chains : IsAligned(c)
    /\ StatesFollowRegistration

-----------------------------------------------------------------------------
(* The invariant.                                                          *)

Applications(kind) == {i \in delivered : chain[i].body.kind = kind}
Registrations(d) == {i \in Applications("dataset_registered") : chain[i].body.id = d}
Changes(d) == {i \in Applications("dataset_state_changed") : chain[i].body.id = d}
Issues(l) == {i \in Applications("license_issued") : chain[i].body.id = l}
Payouts(d, l) ==
    {i \in Applications("royalty_distributed") : chain[i].body.datasetId = d /\ chain[i].ledger = l}

(* i is not before any event of S up to k. *)
NotBefore(i, S, k) == \A j \in S : j <= k => j <= i

(* A row has the values of events as late as those up to k, or later. *)
MetaReflects(d, k) ==
    \E i \in Registrations(d) :
        dataset[d].meta = chain[i].body.meta /\ NotBefore(i, Registrations(d), k)

StateReflects(d, k) ==
    \/ \E i \in Changes(d) :
        dataset[d].state = chain[i].body.state /\ NotBefore(i, Changes(d), k)
    \/ dataset[d].state = DefaultState /\ \A i \in Changes(d) : ~(i <= k)

TermsReflect(l, k) ==
    \E i \in Issues(l) :
        license[l].terms = chain[i].body.terms /\ NotBefore(i, Issues(l), k)

Reflects(k) ==
    /\ \A d \in Datasets : dataset[d] # NoRow => MetaReflects(d, k) /\ StateReflects(d, k)
    /\ \A l \in Licenses : license[l] # NoRow => TermsReflect(l, k)

(* What replays do not touch: which rows there are, and who made them. *)
RowsInv ==
    /\ \A d \in Datasets :
        IF Registrations(d) = {} THEN dataset[d] = NoRow /\ Changes(d) = {}
        ELSE /\ dataset[d] # NoRow
             /\ \E f \in Registrations(d) :
                    /\ \A i \in Registrations(d) : f <= i
                    /\ dataset[d].createdLedger = chain[f].ledger
    /\ \A l \in Licenses :
        IF Issues(l) = {} THEN license[l] = NoRow
        ELSE /\ license[l] # NoRow
             /\ \E f \in Issues(l) :
                    /\ \A i \in Issues(l) : f <= i
                    /\ license[l].datasetId = chain[f].body.datasetId
    /\ \A d \in Datasets, l \in Ledgers :
        payouts[<<d, l>>] = IF Payouts(d, l) = {} THEN 0 ELSE 1

(* The rows reflect all events up to a ledger. *)
ReflectsLedger(c) ==
    \A k \in 0 .. Len(chain) : (\A i \in 1 .. k : chain[i].ledger <= c) => Reflects(k)

(* What a tick may still apply is in scope and behind the checkpoint. *)
ReplayTickInv(p) ==
    /\ pc[p] = "fetch" =>
        /\ start[p] >= StartLedger /\ start[p] > pgCp
        /\ \A k \in 0 .. Len(chain) : (\A i \in 1 .. k : chain[i].ledger < start[p]) => Reflects(k)
    /\ pc[p] \in {"apply", "insert"} =>
        /\ \A i \in Positions : pos[p] < i => chain[i].ledger >= StartLedger /\ chain[i].ledger > pgCp
        /\ Reflects(pos[p])
    /\ pc[p] = "insert" => payouts[PayoutKey(p)] = 0
    /\ pc[p] \in {"writeRedis", "writePg"} => ReflectsLedger(high[p])
    /\ pc[p] \in {"apply", "insert", "writeRedis", "writePg"} =>
        high[p] = 0 \/ high[p] >= StartLedger
    /\ cp[p] = 0 \/ cp[p] >= StartLedger

ReplayInv ==
    /\ origin = StartLedger
    /\ \A i \in delivered : chain[i].ledger >= StartLedger
    /\ pgCp = 0 \/ pgCp >= StartLedger
    /\ RowsInv
    /\ ReflectsLedger(pgCp)
    /\ \A p \in Indexers : ReplayTickInv(p)

-----------------------------------------------------------------------------
(* What applying an event does to the rows.                                *)

(* A row that is as late as the events up to m is so up to the next one. *)
LEMMA NotBeforeKept ==
    ASSUME NEW e \in Nat, NEW k \in Nat, NEW m \in Nat, NEW i,
           \A j \in Nat : j <= k => j <= m \/ j = e,
           NEW S \in SUBSET Nat, e \notin S, NotBefore(i, S, m)
    PROVE  NotBefore(i, S, k)
  BY DEF NotBefore

(* The event that has just been applied is the latest there is. *)
LEMMA NotBeforeLast ==
    ASSUME NEW e \in Nat, NEW k \in Nat, NEW m \in Nat, m < e,
           \A j \in Nat : j <= k => j <= m \/ j = e,
           NEW S \in SUBSET Nat
    PROVE  NotBefore(e, S, k)
  BY DEF NotBefore

(* What applying event e does to the tables. *)
Is(e, kind) == chain[e].body.kind = kind

DatasetEffect(e) ==
    \A d \in Datasets :
        dataset'[d] =
            IF Is(e, "dataset_registered") /\ chain[e].body.id = d
            THEN UpsertDataset(dataset[d], chain[e].body, chain[e].ledger)
            ELSE IF Is(e, "dataset_state_changed") /\ chain[e].body.id = d
            THEN UpdateState(dataset[d], chain[e].body)
            ELSE dataset[d]

LicenseEffect(e) ==
    \A l \in Licenses :
        license'[l] = IF Is(e, "license_issued") /\ chain[e].body.id = l
                      THEN UpsertLicense(license[l], chain[e].body)
                      ELSE license[l]

PayoutsEffect(e) ==
    \A d \in Datasets, l \in Ledgers :
        payouts'[<<d, l>>] =
            IF Is(e, "royalty_distributed") /\ chain[e].body.datasetId = d
               /\ chain[e].ledger = l
            THEN 1 ELSE payouts[<<d, l>>]

Effect(e) ==
    /\ chain' = chain /\ delivered' = delivered \cup {e}
    /\ DatasetEffect(e) /\ LicenseEffect(e) /\ PayoutsEffect(e)

(* An event joins the events of its kind and id. *)
With(e, S, joins) == IF joins THEN S \cup {e} ELSE S

(* What the arithmetic of the lemmas below is about. *)
LEMMA PlainTypes ==
    ASSUME TypeInv
    PROVE  /\ Len(chain) \in Nat /\ StartLedger \in Nat /\ pgCp \in Nat
           /\ \A i \in Positions : i \in Nat /\ chain[i].ledger \in Nat
           /\ delivered \subseteq Positions
           /\ \A p \in Indexers : start[p] \in Nat /\ pos[p] \in Nat /\ pos[p] \in 0 .. Len(chain)
  <1>1. chain \in Chains /\ delivered \subseteq Positions
    BY DEF TypeInv, TypeOK
  <1>2. Len(chain) \in Nat /\ \A i \in Positions : chain[i].ledger \in Nat
    BY <1>1, HistoryType DEF Ledgers
  <1>3. \A i \in Positions : i \in Nat
    BY <1>2 DEF Positions
  <1>4. /\ StartLedger \in Nat /\ pgCp \in Nat
        /\ \A p \in Indexers : start[p] \in Nat /\ pos[p] \in 0 .. Len(chain)
    BY IndexerAssumption DEF TypeInv, TypeOK
  <1> QED
    BY <1>1, <1>2, <1>3, <1>4

LEMMA EventsGrow ==
    ASSUME NEW e, chain' = chain, delivered' = delivered \cup {e}
    PROVE  /\ \A d : Registrations(d)' = With(e, Registrations(d),
                Is(e, "dataset_registered") /\ chain[e].body.id = d)
           /\ \A d : Changes(d)' = With(e, Changes(d),
                Is(e, "dataset_state_changed") /\ chain[e].body.id = d)
           /\ \A l : Issues(l)' = With(e, Issues(l),
                Is(e, "license_issued") /\ chain[e].body.id = l)
           /\ \A d, l : Payouts(d, l)' = With(e, Payouts(d, l),
                /\ Is(e, "royalty_distributed")
                /\ chain[e].body.datasetId = d /\ chain[e].ledger = l)
  BY DEF Registrations, Changes, Issues, Payouts, Applications, Is, With

(* Every event that was applied is a position. *)
LEMMA EventsType ==
    ASSUME TypeInv
    PROVE  /\ \A d : Registrations(d) \in SUBSET Nat /\ Changes(d) \in SUBSET Nat
           /\ \A l : Issues(l) \in SUBSET Nat
  <1>1. delivered \subseteq Nat
    BY HistoryType DEF TypeInv, TypeOK, Positions
  <1> QED
    BY <1>1 DEF Registrations, Changes, Issues, Applications

(* The kinds are told apart. *)
LEMMA EventsApart ==
    /\ \A i, d : i \in Registrations(d) => Is(i, "dataset_registered") /\ chain[i].body.id = d
    /\ \A i, d : i \in Changes(d) => Is(i, "dataset_state_changed") /\ chain[i].body.id = d
    /\ \A i, l : i \in Issues(l) => Is(i, "license_issued") /\ chain[i].body.id = l
  BY DEF Registrations, Changes, Issues, Applications, Is

(* A written row is a row. *)
LEMMA RowsAreRows ==
    ASSUME TypeInv, NEW e \in Positions
    PROVE  /\ \A d \in Datasets : Is(e, "dataset_registered") =>
                /\ UpsertDataset(dataset[d], chain[e].body, chain[e].ledger) # NoRow
                /\ UpsertDataset(dataset[d], chain[e].body, chain[e].ledger).meta
                        = chain[e].body.meta
                /\ UpsertDataset(dataset[d], chain[e].body, chain[e].ledger).state
                        = IF dataset[d] = NoRow THEN DefaultState ELSE dataset[d].state
                /\ UpsertDataset(dataset[d], chain[e].body, chain[e].ledger).createdLedger
                        = IF dataset[d] = NoRow THEN chain[e].ledger
                                                ELSE dataset[d].createdLedger
           /\ \A d \in Datasets :
                Is(e, "dataset_state_changed") /\ dataset[d] # NoRow =>
                    /\ UpdateState(dataset[d], chain[e].body) # NoRow
                    /\ UpdateState(dataset[d], chain[e].body).state = chain[e].body.state
                    /\ UpdateState(dataset[d], chain[e].body).meta = dataset[d].meta
                    /\ UpdateState(dataset[d], chain[e].body).createdLedger
                            = dataset[d].createdLedger
           /\ \A l \in Licenses : Is(e, "license_issued") =>
                /\ UpsertLicense(license[l], chain[e].body) # NoRow
                /\ UpsertLicense(license[l], chain[e].body).terms = chain[e].body.terms
                /\ UpsertLicense(license[l], chain[e].body).datasetId
                        = IF license[l] = NoRow THEN chain[e].body.datasetId
                                                ELSE license[l].datasetId
  <1>1. /\ chain[e].body \in RegistryBodies /\ chain[e].ledger \in Ledgers
        /\ NoRow \notin DatasetRow \cup LicenseRow /\ DefaultState \in DatasetStates
    BY HistoryType, IndexerAssumption DEF TypeInv, TypeOK
  <1>2. ASSUME NEW d \in Datasets, Is(e, "dataset_registered")
        PROVE  LET row == UpsertDataset(dataset[d], chain[e].body, chain[e].ledger)
               IN  /\ row # NoRow /\ row.meta = chain[e].body.meta
                   /\ row.state = IF dataset[d] = NoRow THEN DefaultState
                                                        ELSE dataset[d].state
                   /\ row.createdLedger = IF dataset[d] = NoRow THEN chain[e].ledger
                                                                ELSE dataset[d].createdLedger
    <2>1. dataset[d] \in DatasetRow \cup {NoRow} /\ chain[e].body.meta \in Metas
      BY <1>1, <1>2, BodyType DEF TypeInv, TypeOK, Is
    <2> QED
      BY <1>1, <2>1 DEF UpsertDataset, DatasetRow
  <1>3. ASSUME NEW d \in Datasets, Is(e, "dataset_state_changed"), dataset[d] # NoRow
        PROVE  LET row == UpdateState(dataset[d], chain[e].body)
               IN  /\ row # NoRow /\ row.state = chain[e].body.state
                   /\ row.meta = dataset[d].meta
                   /\ row.createdLedger = dataset[d].createdLedger
    <2>1. dataset[d] \in DatasetRow /\ chain[e].body.state \in DatasetStates
      BY <1>1, <1>3, BodyType DEF TypeInv, TypeOK, Is
    <2> QED
      BY <1>1, <1>3, <2>1 DEF UpdateState, DatasetRow
  <1>4. ASSUME NEW l \in Licenses, Is(e, "license_issued")
        PROVE  LET row == UpsertLicense(license[l], chain[e].body)
               IN  /\ row # NoRow /\ row.terms = chain[e].body.terms
                   /\ row.datasetId = IF license[l] = NoRow THEN chain[e].body.datasetId
                                                            ELSE license[l].datasetId
    <2>1. /\ license[l] \in LicenseRow \cup {NoRow}
          /\ chain[e].body.terms \in Terms /\ chain[e].body.datasetId \in Datasets
      BY <1>1, <1>4, BodyType DEF TypeInv, TypeOK, Is
    <2> QED
      BY <1>1, <2>1 DEF UpsertLicense, LicenseRow
  <1> QED
    BY <1>2, <1>3, <1>4

-----------------------------------------------------------------------------
(* The rows still reflect, after one event, what they did, and that event. *)

LEMMA DatasetReflects ==
    ASSUME TypeInv, RowsInv, NEW e \in Positions, Effect(e),
           NEW k \in Nat, NEW m \in Nat, m < e,
           \A j \in Nat : j <= k => j <= m \/ j = e,
           NEW d \in Datasets, dataset'[d] # NoRow,
           dataset[d] # NoRow => MetaReflects(d, m) /\ StateReflects(d, m)
    PROVE  MetaReflects(d, k)' /\ StateReflects(d, k)'
  <1>0. e \in Nat
    BY HistoryType DEF TypeInv, TypeOK, Positions
  <1>1. /\ Registrations(d) \in SUBSET Nat /\ Changes(d) \in SUBSET Nat
        /\ chain' = chain /\ delivered' = delivered \cup {e} /\ DatasetEffect(e)
    BY EventsType DEF Effect
  <1>2. CASE Is(e, "dataset_registered") /\ chain[e].body.id = d
    <2>1. /\ Registrations(d)' = Registrations(d) \cup {e} /\ Changes(d)' = Changes(d)
          /\ e \notin Changes(d)
      BY <1>1, <1>2, EventsGrow, EventsApart DEF With, Is
    <2>2. /\ dataset'[d].meta = chain[e].body.meta
          /\ dataset'[d].state = IF dataset[d] = NoRow THEN DefaultState ELSE dataset[d].state
      <3>1. dataset'[d] = UpsertDataset(dataset[d], chain[e].body, chain[e].ledger)
        BY <1>1, <1>2 DEF DatasetEffect
      <3> QED
        BY <1>2, <3>1, RowsAreRows
    <2>3. NotBefore(e, Registrations(d) \cup {e}, k)
      <3>1. Registrations(d) \cup {e} \in SUBSET Nat
        BY <1>0, <1>1
      <3> QED
        BY <1>0, <3>1, NotBeforeLast
    <2>4. MetaReflects(d, k)'
      BY <1>1, <2>1, <2>2, <2>3 DEF MetaReflects, NotBefore
    <2>5. StateReflects(d, k)'
      <3>1. CASE dataset[d] = NoRow
        <4>1. Changes(d) = {}
          BY <3>1 DEF RowsInv
        <4> QED
          BY <2>1, <2>2, <3>1, <4>1 DEF StateReflects
      <3>2. CASE dataset[d] # NoRow
        <4>1. CASE \E i \in Changes(d) :
                dataset[d].state = chain[i].body.state /\ NotBefore(i, Changes(d), m)
          <5>1. PICK i \in Changes(d) :
                  dataset[d].state = chain[i].body.state /\ NotBefore(i, Changes(d), m)
            BY <4>1
          <5>2. NotBefore(i, Changes(d), k)
            BY <1>0, <1>1, <2>1, <5>1, NotBeforeKept
          <5> QED
            BY <1>1, <2>1, <2>2, <3>2, <5>1, <5>2 DEF StateReflects, NotBefore
        <4>2. CASE dataset[d].state = DefaultState /\ \A i \in Changes(d) : ~(i <= m)
          <5>1. \A i \in Changes(d) : ~(i <= k)
            BY <1>1, <2>1, <4>2
          <5> QED
            BY <2>1, <2>2, <3>2, <4>2, <5>1 DEF StateReflects
        <4> QED
          BY <3>2, <4>1, <4>2 DEF StateReflects
      <3> QED
        BY <3>1, <3>2
    <2> QED
      BY <2>4, <2>5
  <1>3. CASE Is(e, "dataset_state_changed") /\ chain[e].body.id = d
    <2>1. /\ Changes(d)' = Changes(d) \cup {e} /\ Registrations(d)' = Registrations(d)
          /\ e \notin Registrations(d)
      BY <1>1, <1>3, EventsGrow, EventsApart DEF With, Is
    <2>2. dataset'[d] = UpdateState(dataset[d], chain[e].body)
      BY <1>1, <1>3 DEF DatasetEffect, Is
    <2>3. dataset[d] # NoRow
      BY <2>2 DEF UpdateState
    <2>4. dataset'[d].state = chain[e].body.state /\ dataset'[d].meta = dataset[d].meta
      BY <1>3, <2>2, <2>3, RowsAreRows
    <2>5. NotBefore(e, Changes(d) \cup {e}, k)
      <3>1. Changes(d) \cup {e} \in SUBSET Nat
        BY <1>0, <1>1
      <3> QED
        BY <1>0, <3>1, NotBeforeLast
    <2>6. StateReflects(d, k)'
      BY <1>1, <2>1, <2>4, <2>5 DEF StateReflects, NotBefore
    <2>7. PICK i \in Registrations(d) :
            dataset[d].meta = chain[i].body.meta /\ NotBefore(i, Registrations(d), m)
      BY <2>3 DEF MetaReflects
    <2>8. NotBefore(i, Registrations(d), k)
      BY <1>0, <1>1, <2>1, <2>7, NotBeforeKept
    <2>9. MetaReflects(d, k)'
      BY <1>1, <2>1, <2>4, <2>7, <2>8 DEF MetaReflects, NotBefore
    <2> QED
      BY <2>6, <2>9
  <1>4. CASE /\ ~(Is(e, "dataset_registered") /\ chain[e].body.id = d)
             /\ ~(Is(e, "dataset_state_changed") /\ chain[e].body.id = d)
    <2>1. /\ Changes(d)' = Changes(d) /\ Registrations(d)' = Registrations(d)
          /\ e \notin Registrations(d) /\ e \notin Changes(d)
      BY <1>1, <1>4, EventsGrow, EventsApart DEF With
    <2>2. dataset'[d] = dataset[d]
      BY <1>1, <1>4 DEF DatasetEffect
    <2>3. PICK i \in Registrations(d) :
            dataset[d].meta = chain[i].body.meta /\ NotBefore(i, Registrations(d), m)
      BY <2>2 DEF MetaReflects
    <2>4. NotBefore(i, Registrations(d), k)
      BY <1>0, <1>1, <2>1, <2>3, NotBeforeKept
    <2>5. MetaReflects(d, k)'
      BY <1>1, <2>1, <2>2, <2>3, <2>4 DEF MetaReflects, NotBefore
    <2>6. CASE \E j \in Changes(d) :
            dataset[d].state = chain[j].body.state /\ NotBefore(j, Changes(d), m)
      <3>1. PICK j \in Changes(d) :
              dataset[d].state = chain[j].body.state /\ NotBefore(j, Changes(d), m)
        BY <2>6
      <3>2. NotBefore(j, Changes(d), k)
        BY <1>0, <1>1, <2>1, <3>1, NotBeforeKept
      <3>3. StateReflects(d, k)'
        BY <1>1, <2>1, <2>2, <3>1, <3>2 DEF StateReflects, NotBefore
      <3> QED
        BY <2>5, <3>3
    <2>7. CASE dataset[d].state = DefaultState /\ \A j \in Changes(d) : ~(j <= m)
      <3>1. \A j \in Changes(d) : ~(j <= k)
        BY <1>1, <2>1, <2>7
      <3>2. StateReflects(d, k)'
        BY <2>1, <2>2, <2>7, <3>1 DEF StateReflects
      <3> QED
        BY <2>5, <3>2
    <2>8. StateReflects(d, m)
      BY <2>2
    <2> QED
      BY <2>6, <2>7, <2>8 DEF StateReflects
  <1> QED
    BY <1>2, <1>3, <1>4

LEMMA LicenseReflects ==
    ASSUME TypeInv, NEW e \in Positions, Effect(e),
           NEW k \in Nat, NEW m \in Nat, m < e,
           \A j \in Nat : j <= k => j <= m \/ j = e,
           NEW l \in Licenses, license'[l] # NoRow,
           license[l] # NoRow => TermsReflect(l, m)
    PROVE  TermsReflect(l, k)'
  <1>0. e \in Nat
    BY HistoryType DEF TypeInv, TypeOK, Positions
  <1>1. /\ Issues(l) \in SUBSET Nat
        /\ chain' = chain /\ delivered' = delivered \cup {e} /\ LicenseEffect(e)
    BY EventsType DEF Effect
  <1>2. CASE Is(e, "license_issued") /\ chain[e].body.id = l
    <2>1. Issues(l)' = Issues(l) \cup {e}
      BY <1>1, <1>2, EventsGrow DEF With
    <2>2. license'[l].terms = chain[e].body.terms
      <3>1. license'[l] = UpsertLicense(license[l], chain[e].body)
        BY <1>1, <1>2 DEF LicenseEffect
      <3> QED
        BY <1>2, <3>1, RowsAreRows
    <2>3. NotBefore(e, Issues(l) \cup {e}, k)
      <3>1. Issues(l) \cup {e} \in SUBSET Nat
        BY <1>0, <1>1
      <3> QED
        BY <1>0, <3>1, NotBeforeLast
    <2> QED
      BY <1>1, <2>1, <2>2, <2>3 DEF TermsReflect, NotBefore
  <1>3. CASE ~(Is(e, "license_issued") /\ chain[e].body.id = l)
    <2>1. Issues(l)' = Issues(l) /\ e \notin Issues(l) /\ license'[l] = license[l]
      BY <1>1, <1>3, EventsGrow, EventsApart DEF With, LicenseEffect
    <2>2. PICK i \in Issues(l) :
            license[l].terms = chain[i].body.terms /\ NotBefore(i, Issues(l), m)
      BY <2>1 DEF TermsReflect
    <2>3. NotBefore(i, Issues(l), k)
      BY <1>0, <1>1, <2>1, <2>2, NotBeforeKept
    <2> QED
      BY <1>1, <2>1, <2>2, <2>3 DEF TermsReflect, NotBefore
  <1> QED
    BY <1>2, <1>3

LEMMA EventReflects ==
    ASSUME TypeInv, RowsInv, NEW e \in Positions, Effect(e),
           NEW k \in Nat, NEW m \in Nat, m < e,
           \A j \in Nat : j <= k => j <= m \/ j = e,
           Reflects(m)
    PROVE  Reflects(k)'
  <1>1. \A d \in Datasets : dataset'[d] # NoRow => MetaReflects(d, k)' /\ StateReflects(d, k)'
    BY DatasetReflects DEF Reflects
  <1>2. \A l \in Licenses : license'[l] # NoRow => TermsReflect(l, k)'
    BY LicenseReflects DEF Reflects
  <1> QED
    BY <1>1, <1>2 DEF Reflects

(* Rows that reflect what was applied up to m need not know of k. *)
LEMMA ReflectsMore ==
    ASSUME TypeInv, NEW m \in Nat, NEW k \in Nat, Reflects(m),
           \A j \in delivered : j <= k => j <= m
    PROVE  Reflects(k)
  <1>1. \A d : Registrations(d) \subseteq delivered /\ Changes(d) \subseteq delivered
    BY DEF Registrations, Changes, Applications
  <1>2. \A l : Issues(l) \subseteq delivered
    BY DEF Issues, Applications
  <1> QED
    BY <1>1, <1>2 DEF Reflects, MetaReflects, StateReflects, TermsReflect, NotBefore

-----------------------------------------------------------------------------
(* The first event of a row made it, and replays find it there.            *)

(* What is applied for the first time comes after all that was applied. *)
LEMMA FirstStaysFirst ==
    ASSUME TypeInv, DeliveredInOrder, NEW e \in Positions, InScope(e), NEW f \in delivered
    PROVE  e \in delivered \/ f <= e
  <1>1. e \in Nat /\ f \in Nat
    BY HistoryType DEF TypeInv, TypeOK, Positions
  <1> QED
    BY <1>1 DEF DeliveredInOrder

LEMMA DatasetRows ==
    ASSUME TypeInv, DeliveredInOrder, RowsInv, NEW e \in Positions, InScope(e), Effect(e),
           Is(e, "dataset_state_changed") => Registrations(chain[e].body.id) # {},
           NEW d \in Datasets
    PROVE  (IF Registrations(d) = {} THEN dataset[d] = NoRow /\ Changes(d) = {}
            ELSE /\ dataset[d] # NoRow
                 /\ \E f \in Registrations(d) :
                        /\ \A i \in Registrations(d) : f <= i
                        /\ dataset[d].createdLedger = chain[f].ledger)'
  <1>0. e \in Nat
    BY HistoryType DEF TypeInv, TypeOK, Positions
  <1>1. /\ Registrations(d) \in SUBSET Nat /\ Registrations(d) \subseteq delivered
        /\ chain' = chain /\ delivered' = delivered \cup {e} /\ DatasetEffect(e)
    BY EventsType DEF Effect, Registrations, Applications
  <1>2. CASE Is(e, "dataset_registered") /\ chain[e].body.id = d
    <2>1. Registrations(d)' = Registrations(d) \cup {e}
      BY <1>1, <1>2, EventsGrow DEF With
    <2>2. /\ dataset'[d] # NoRow
          /\ dataset'[d].createdLedger = IF dataset[d] = NoRow THEN chain[e].ledger
                                                             ELSE dataset[d].createdLedger
      <3>1. dataset'[d] = UpsertDataset(dataset[d], chain[e].body, chain[e].ledger)
        BY <1>1, <1>2 DEF DatasetEffect
      <3> QED
        BY <1>2, <3>1, RowsAreRows
    <2>3. CASE Registrations(d) = {}
      <3>1. dataset[d] = NoRow
        BY <2>3 DEF RowsInv
      <3> QED
        BY <1>0, <1>1, <2>1, <2>2, <2>3, <3>1
    <2>4. CASE Registrations(d) # {}
      <3>1. PICK f \in Registrations(d) :
              /\ \A i \in Registrations(d) : f <= i
              /\ dataset[d] # NoRow /\ dataset[d].createdLedger = chain[f].ledger
        BY <2>4 DEF RowsInv
      <3>2. f <= e
        <4>1. CASE e \in delivered
          <5>1. e \in Registrations(d)
            BY <1>2, <4>1 DEF Registrations, Applications, Is
          <5> QED
            BY <3>1, <5>1
        <4>2. CASE e \notin delivered
          BY <1>1, <4>2, FirstStaysFirst
        <4> QED
          BY <4>1, <4>2
      <3> QED
        BY <1>1, <2>1, <2>2, <3>1, <3>2
    <2> QED
      BY <2>3, <2>4
  <1>3. CASE ~(Is(e, "dataset_registered") /\ chain[e].body.id = d)
    <2>1. Registrations(d)' = Registrations(d)
      BY <1>1, <1>3, EventsGrow DEF With
    <2>2. CASE Registrations(d) = {}
      <3>1. ~(Is(e, "dataset_state_changed") /\ chain[e].body.id = d)
        BY <2>2
      <3>2. Changes(d)' = Changes(d) /\ dataset'[d] = dataset[d]
        BY <1>1, <1>3, <3>1, EventsGrow DEF With, DatasetEffect
      <3> QED
        BY <2>1, <2>2, <3>2 DEF RowsInv
    <2>3. CASE Registrations(d) # {}
      <3>1. PICK f \in Registrations(d) :
              /\ \A i \in Registrations(d) : f <= i
              /\ dataset[d] # NoRow /\ dataset[d].createdLedger = chain[f].ledger
        BY <2>3 DEF RowsInv
      <3>2. dataset'[d] # NoRow /\ dataset'[d].createdLedger = dataset[d].createdLedger
        <4>1. CASE Is(e, "dataset_state_changed") /\ chain[e].body.id = d
          <5>1. dataset'[d] = UpdateState(dataset[d], chain[e].body)
            BY <1>1, <1>3, <4>1 DEF DatasetEffect, Is
          <5> QED
            BY <3>1, <4>1, <5>1, RowsAreRows
        <4>2. CASE ~(Is(e, "dataset_state_changed") /\ chain[e].body.id = d)
          BY <1>1, <1>3, <3>1, <4>2 DEF DatasetEffect
        <4> QED
          BY <4>1, <4>2
      <3> QED
        BY <1>1, <2>1, <3>1, <3>2
    <2> QED
      BY <2>2, <2>3
  <1> QED
    BY <1>2, <1>3

LEMMA LicenseRows ==
    ASSUME TypeInv, DeliveredInOrder, RowsInv, NEW e \in Positions, InScope(e), Effect(e),
           NEW l \in Licenses
    PROVE  (IF Issues(l) = {} THEN license[l] = NoRow
            ELSE /\ license[l] # NoRow
                 /\ \E f \in Issues(l) :
                        /\ \A i \in Issues(l) : f <= i
                        /\ license[l].datasetId = chain[f].body.datasetId)'
  <1>0. e \in Nat
    BY HistoryType DEF TypeInv, TypeOK, Positions
  <1>1. /\ Issues(l) \in SUBSET Nat /\ Issues(l) \subseteq delivered
        /\ chain' = chain /\ delivered' = delivered \cup {e} /\ LicenseEffect(e)
    BY EventsType DEF Effect, Issues, Applications
  <1>2. CASE Is(e, "license_issued") /\ chain[e].body.id = l
    <2>1. Issues(l)' = Issues(l) \cup {e}
      BY <1>1, <1>2, EventsGrow DEF With
    <2>2. /\ license'[l] # NoRow
          /\ license'[l].datasetId = IF license[l] = NoRow THEN chain[e].body.datasetId
                                                         ELSE license[l].datasetId
      <3>1. license'[l] = UpsertLicense(license[l], chain[e].body)
        BY <1>1, <1>2 DEF LicenseEffect
      <3> QED
        BY <1>2, <3>1, RowsAreRows
    <2>3. CASE Issues(l) = {}
      <3>1. license[l] = NoRow
        BY <2>3 DEF RowsInv
      <3> QED
        BY <1>0, <1>1, <2>1, <2>2, <2>3, <3>1
    <2>4. CASE Issues(l) # {}
      <3>1. PICK f \in Issues(l) :
              /\ \A i \in Issues(l) : f <= i
              /\ license[l] # NoRow /\ license[l].datasetId = chain[f].body.datasetId
        BY <2>4 DEF RowsInv
      <3>2. f <= e
        <4>1. CASE e \in delivered
          <5>1. e \in Issues(l)
            BY <1>2, <4>1 DEF Issues, Applications, Is
          <5> QED
            BY <3>1, <5>1
        <4>2. CASE e \notin delivered
          BY <1>1, <4>2, FirstStaysFirst
        <4> QED
          BY <4>1, <4>2
      <3> QED
        BY <1>1, <2>1, <2>2, <3>1, <3>2
    <2> QED
      BY <2>3, <2>4
  <1>3. CASE ~(Is(e, "license_issued") /\ chain[e].body.id = l)
    <2>1. Issues(l)' = Issues(l) /\ license'[l] = license[l]
      BY <1>1, <1>3, EventsGrow DEF With, LicenseEffect
    <2>2. CASE Issues(l) = {}
      BY <2>1, <2>2 DEF RowsInv
    <2>3. CASE Issues(l) # {}
      <3>1. PICK f \in Issues(l) :
              /\ \A i \in Issues(l) : f <= i
              /\ license[l] # NoRow /\ license[l].datasetId = chain[f].body.datasetId
        BY <2>3 DEF RowsInv
      <3> QED
        BY <1>1, <2>1, <3>1
    <2> QED
      BY <2>2, <2>3
  <1> QED
    BY <1>2, <1>3

LEMMA RowsStep ==
    ASSUME TypeInv, DeliveredInOrder, RowsInv, NEW e \in Positions, InScope(e), Effect(e),
           Is(e, "dataset_state_changed") => Registrations(chain[e].body.id) # {}
    PROVE  RowsInv'
  <1>1. ASSUME NEW d \in Datasets, NEW l \in Ledgers
        PROVE  (payouts[<<d, l>>] = IF Payouts(d, l) = {} THEN 0 ELSE 1)'
    <2>1. Payouts(d, l)' = With(e, Payouts(d, l),
            /\ Is(e, "royalty_distributed")
            /\ chain[e].body.datasetId = d /\ chain[e].ledger = l)
      <3>1. chain' = chain /\ delivered' = delivered \cup {e}
        BY DEF Effect
      <3>2. \A dd, ll : Payouts(dd, ll)' = With(e, Payouts(dd, ll),
              /\ Is(e, "royalty_distributed")
              /\ chain[e].body.datasetId = dd /\ chain[e].ledger = ll)
        BY <3>1, EventsGrow
      <3> QED
        BY <3>2
    <2>2. payouts[<<d, l>>] = IF Payouts(d, l) = {} THEN 0 ELSE 1
      BY DEF RowsInv
    <2>3. payouts'[<<d, l>>] =
            IF Is(e, "royalty_distributed") /\ chain[e].body.datasetId = d
               /\ chain[e].ledger = l
            THEN 1 ELSE payouts[<<d, l>>]
      BY DEF Effect, PayoutsEffect
    <2> QED
      BY <2>1, <2>2, <2>3 DEF With
  <1>2. \A d \in Datasets :
          (IF Registrations(d) = {} THEN dataset[d] = NoRow /\ Changes(d) = {}
           ELSE /\ dataset[d] # NoRow
                /\ \E f \in Registrations(d) :
                       /\ \A i \in Registrations(d) : f <= i
                       /\ dataset[d].createdLedger = chain[f].ledger)'
    BY DatasetRows
  <1>3. \A l \in Licenses :
          (IF Issues(l) = {} THEN license[l] = NoRow
           ELSE /\ license[l] # NoRow
                /\ \E f \in Issues(l) :
                       /\ \A i \in Issues(l) : f <= i
                       /\ license[l].datasetId = chain[f].body.datasetId)'
    BY LicenseRows
  <1> QED
    BY <1>1, <1>2, <1>3 DEF RowsInv

-----------------------------------------------------------------------------
(* The steps of a tick that apply an event have its effect.                *)

Applies(p) ==
    RegisterDataset(p) \/ ChangeState(p) \/ IssueLicense(p) \/ FindPayout(p)
    \/ CreatePayout(p) \/ SkipUndecoded(p)

LEMMA AppliesEvent ==
    ASSUME TypeInv, NEW p \in Indexers, Applies(p)
    PROVE  /\ pc[p] \in {"apply", "insert"} /\ pos[p] < end[p]
           /\ pos[p] + 1 \in Positions /\ Applied(p)
           /\ chain' = chain /\ UNCHANGED stores
  <1>1. pc[p] \in {"apply", "insert"} /\ pos[p] < end[p]
    BY DEF Applies, RegisterDataset, ChangeState, IssueLicense, FindPayout, SkipUndecoded,
           CreatePayout, Due, TypeInv, AtEvent
  <1>2. Applied(p) /\ chain' = chain /\ UNCHANGED stores
    BY DEF Applies, RegisterDataset, ChangeState, IssueLicense, FindPayout, SkipUndecoded,
           CreatePayout, feedVars
  <1> QED
    BY <1>1, <1>2, DueEvent

LEMMA AppliesEffect ==
    ASSUME TypeInv, RowsInv, NEW p \in Indexers, ReplayTickInv(p), Applies(p),
           NEW e, e = pos[p] + 1
    PROVE  Effect(e)
  <1>1. /\ e \in Positions /\ chain' = chain /\ delivered' = delivered \cup {e}
        /\ Body(p) = chain[e].body /\ EventLedger(p) = chain[e].ledger
    BY AppliesEvent DEF Applied, Body, EventLedger
  <1>2. /\ dataset \in [Datasets -> DatasetRow \cup {NoRow}]
        /\ license \in [Licenses -> LicenseRow \cup {NoRow}]
        /\ payouts \in [Datasets \X Ledgers -> Nat]
        /\ chain[e].body \in RegistryBodies /\ chain[e].ledger \in Ledgers
    BY <1>1, HistoryType DEF TypeInv, TypeOK
  <1>3. CASE RegisterDataset(p)
    <2>1. Is(e, "dataset_registered") /\ license' = license /\ payouts' = payouts
      BY <1>1, <1>3 DEF RegisterDataset, Due, Is
    <2>2. dataset' = [dataset EXCEPT ![chain[e].body.id] =
                        UpsertDataset(@, chain[e].body, chain[e].ledger)]
      BY <1>1, <1>3 DEF RegisterDataset
    <2> QED
      BY <1>1, <1>2, <2>1, <2>2
         DEF Effect, DatasetEffect, LicenseEffect, PayoutsEffect, Is
  <1>4. CASE ChangeState(p)
    <2>1. Is(e, "dataset_state_changed") /\ license' = license /\ payouts' = payouts
      BY <1>1, <1>4 DEF ChangeState, Due, Is
    <2>2. dataset' = [dataset EXCEPT ![chain[e].body.id] = UpdateState(@, chain[e].body)]
      BY <1>1, <1>4 DEF ChangeState
    <2> QED
      BY <1>1, <1>2, <2>1, <2>2
         DEF Effect, DatasetEffect, LicenseEffect, PayoutsEffect, Is
  <1>5. CASE IssueLicense(p)
    <2>1. Is(e, "license_issued") /\ dataset' = dataset /\ payouts' = payouts
      BY <1>1, <1>5 DEF IssueLicense, Due, Is
    <2>2. license' = [license EXCEPT ![chain[e].body.id] = UpsertLicense(@, chain[e].body)]
      BY <1>1, <1>5 DEF IssueLicense
    <2> QED
      BY <1>1, <1>2, <2>1, <2>2
         DEF Effect, DatasetEffect, LicenseEffect, PayoutsEffect, Is
  <1>6. CASE FindPayout(p) \/ CreatePayout(p)
    <2>1. /\ Is(e, "royalty_distributed") /\ dataset' = dataset /\ license' = license
      BY <1>1, <1>6 DEF FindPayout, CreatePayout, Due, Is, TypeInv, AtEvent, tables
    <2>2. chain[e].body.datasetId \in Datasets
      BY <1>2, <2>1, BodyType DEF Is
    <2> DEFINE key == <<chain[e].body.datasetId, chain[e].ledger>>
    <2>3. key \in Datasets \X Ledgers /\ key = PayoutKey(p)
      BY <1>1, <1>2, <2>2 DEF PayoutKey
    <2>4. payouts'[key] = 1 /\ \A k \in Datasets \X Ledgers : k # key => payouts'[k] = payouts[k]
      <3>1. CASE FindPayout(p)
        <4>1. payouts' = payouts /\ payouts[key] > 0
          BY <2>3, <3>1 DEF FindPayout, PayoutExists, tables
        <4>2. payouts[key] \in {0, 1}
          BY <1>2, <2>2 DEF RowsInv
        <4> QED
          BY <4>1, <4>2
      <3>2. CASE CreatePayout(p)
        <4>1. payouts[key] = 0 /\ payouts' = [payouts EXCEPT ![key] = @ + 1]
          BY <2>3, <3>2 DEF CreatePayout, ReplayTickInv
        <4> HIDE DEF key
        <4> QED
          BY <1>2, <2>3, <4>1
      <3> QED
        BY <1>6, <3>1, <3>2
    <2>5. PayoutsEffect(e)
      BY <2>1, <2>4 DEF PayoutsEffect
    <2> QED
      BY <1>1, <2>1, <2>5 DEF Effect, DatasetEffect, LicenseEffect, Is
  <1>7. CASE SkipUndecoded(p)
    <2>1. Is(e, "other") /\ dataset' = dataset /\ license' = license /\ payouts' = payouts
      BY <1>1, <1>7 DEF SkipUndecoded, Due, Is, tables
    <2> QED
      BY <1>1, <2>1 DEF Effect, DatasetEffect, LicenseEffect, PayoutsEffect, Is
  <1> QED
    BY <1>3, <1>4, <1>5, <1>6, <1>7 DEF Applies

(* A dataset has been registered when an indexed event changes its state. *)
LEMMA RegisteredBefore ==
    ASSUME TypeInv, OneReplayer, ReplayInv, NEW e \in Positions, chain[e].ledger >= StartLedger,
           Is(e, "dataset_state_changed"),
           \A i \in Positions : i < e /\ InScope(i) => i \in delivered
    PROVE  \E j \in Registrations(chain[e].body.id) : j < e
  <1>1. Len(chain) \in Nat /\ chain \in Chains /\ e \in 1 .. Len(chain)
    BY HistoryType DEF TypeInv, TypeOK, Positions
  <1>2. PICK j \in 1 .. e - 1 :
          /\ chain[j].body.kind = "dataset_registered"
          /\ chain[j].body.id = chain[e].body.id
          /\ chain[j].ledger >= StartLedger
    BY <1>1 DEF OneReplayer, StatesFollowRegistration, Is
  <1>3. j \in Positions /\ j < e
    BY <1>1, <1>2 DEF Positions
  <1>4. InScope(j)
    BY <1>2 DEF InScope, ReplayInv, OneReplayer
  <1>5. j \in delivered
    BY <1>3, <1>4
  <1> QED
    BY <1>2, <1>3, <1>5 DEF Registrations, Applications

LEMMA AppliesStep ==
    ASSUME TypeInv, IndexerInv, OneReplayer, ReplayInv, NEW p \in Indexers, Applies(p)
    PROVE  ReplayInv'
  <1>0. /\ pos[p] \in Nat /\ Len(chain) \in Nat /\ pgCp \in Nat /\ StartLedger \in Nat
        /\ \A i \in Positions : chain[i].ledger \in Nat
    BY HistoryType, IndexerAssumption DEF TypeInv, TypeOK, Ledgers
  <1>e. PICK e \in Nat : e = pos[p] + 1
    BY <1>0
  <1>a. /\ pc[p] \in {"apply", "insert"} /\ pos[p] < end[p] /\ e \in Positions
        /\ chain' = chain /\ pgCp' = pgCp /\ Applied(p)
    BY <1>e, AppliesEvent DEF stores
  <1>1. /\ pc[p] \in {"apply", "insert"} /\ pos[p] < end[p] /\ e \in Positions
        /\ chain' = chain /\ pgCp' = pgCp
        /\ pos[p] \in Nat /\ Len(chain) \in Nat /\ pos[p] < e
        /\ pgCp \in Nat /\ StartLedger \in Nat
        /\ \A i \in Positions : chain[i].ledger \in Nat
    BY <1>0, <1>e, <1>a
  <1>2. /\ delivered' = delivered \cup {e} /\ origin' = origin
        /\ pc'[p] = "apply" /\ pos'[p] = e /\ cp'[p] = cp[p]
        /\ high'[p] \in {high[p], chain[e].ledger}
    BY <1>e, <1>a DEF Applied, TypeInv, TypeOK, EventLedger
  <1>3. ReplayTickInv(p) /\ RowsInv /\ Effect(e)
    BY <1>e, AppliesEffect DEF ReplayInv
  <1>4. /\ chain[e].ledger >= StartLedger /\ chain[e].ledger > pgCp
        /\ Reflects(pos[p])
        /\ \A i \in Positions : pos[p] < i =>
                chain[i].ledger >= StartLedger /\ chain[i].ledger > pgCp
    BY <1>1, <1>3 DEF ReplayTickInv
  <1>5. InScope(e)
    BY <1>4 DEF InScope, ReplayInv, OneReplayer
  <1>6. RowsInv'
    <2>1. \A i \in Positions : i < e /\ InScope(i) => i \in delivered
      BY <1>1, <1>e DEF IndexerInv, TickInv, Positions
    <2>2. Is(e, "dataset_state_changed") => Registrations(chain[e].body.id) # {}
      BY <1>1, <1>4, <2>1, RegisteredBefore
    <2> QED
      BY <1>1, <1>3, <1>5, <2>2, RowsStep DEF IndexerInv
  <1>7. ASSUME NEW k \in 0 .. Len(chain), \A i \in 1 .. k : chain[i].ledger <= pgCp
        PROVE  Reflects(k)'
    <2>1. k \in Nat /\ Reflects(k)
      BY <1>7 DEF ReplayInv, ReflectsLedger
    <2>2. ~(e <= k)
      <3>1. chain[e].ledger \in Nat
        BY <1>1
      <3>2. e <= k => e \in 1 .. k
        BY <1>1, <2>1
      <3> QED
        BY <1>1, <1>4, <1>7, <3>1, <3>2
    <2>3. k < e
      BY <1>1, <2>1, <2>2
    <2> QED
      BY <1>1, <1>3, <2>1, <2>3, EventReflects
  <1>8. ReflectsLedger(pgCp)'
    BY <1>1, <1>7 DEF ReflectsLedger
  <1>9. Reflects(e)'
    <2>1. \A j \in Nat : j <= e => j <= pos[p] \/ j = e
      BY <1>1, <1>e
    <2> QED
      BY <1>1, <1>3, <1>4, <2>1, EventReflects
  <1>10. ReplayTickInv(p)'
    <2>1. \A i \in Positions' : pos'[p] < i => chain'[i].ledger >= StartLedger /\ chain'[i].ledger > pgCp'
      BY <1>1, <1>2, <1>4 DEF Positions
    <2>2. Reflects(pos[p])'
      BY <1>2, <1>9
    <2>3. high'[p] = 0 \/ high'[p] >= StartLedger
      BY <1>1, <1>2, <1>3, <1>4 DEF ReplayTickInv
    <2>4. cp'[p] = 0 \/ cp'[p] >= StartLedger
      BY <1>2, <1>3 DEF ReplayTickInv
    <2> QED
      BY <1>2, <2>1, <2>2, <2>3, <2>4 DEF ReplayTickInv
  <1>11. \A i \in delivered' : chain'[i].ledger >= StartLedger
    BY <1>1, <1>2, <1>4 DEF ReplayInv
  <1>12. \A q \in Indexers : ReplayTickInv(q)'
    <2>1. \A q \in Indexers : q = p
      BY DEF OneReplayer
    <2> QED
      BY <1>10, <2>1
  <1> QED
    BY <1>1, <1>2, <1>6, <1>8, <1>11, <1>12 DEF ReplayInv

-----------------------------------------------------------------------------
(* The other steps leave the tables alone.                                 *)

QuietStep == chain' = chain /\ UNCHANGED tables /\ UNCHANGED history

LEMMA ReflectsKept ==
    ASSUME QuietStep, NEW k, Reflects(k)
    PROVE  Reflects(k)'
  BY DEF QuietStep, tables, history, Reflects, MetaReflects, StateReflects, TermsReflect,
         NotBefore, Registrations, Changes, Issues, Applications

LEMMA RowsKept == RowsInv /\ QuietStep => RowsInv'
  BY DEF QuietStep, tables, history, RowsInv, Registrations, Changes, Issues, Payouts,
         Applications

(* A step of the one tick keeps the invariant if it keeps the tick's part. *)
LEMMA QuietKept ==
    ASSUME OneReplayer, ReplayInv, QuietStep, NEW p \in Indexers, ReplayTickInv(p)',
           pgCp' # pgCp => pgCp' >= StartLedger /\ ReflectsLedger(pgCp')
    PROVE  ReplayInv'
  <1>1. ASSUME NEW c, ReflectsLedger(c) PROVE ReflectsLedger(c)'
    BY <1>1, ReflectsKept DEF ReflectsLedger, QuietStep
  <1>2. PICK c : c = pgCp'
    OBVIOUS
  <1>3. ReflectsLedger(c) /\ (c = 0 \/ c >= StartLedger)
    BY <1>2 DEF ReplayInv
  <1>4. ReflectsLedger(pgCp)'
    BY <1>1, <1>2, <1>3
  <1>5. \A q \in Indexers : ReplayTickInv(q)'
    <2>1. \A q \in Indexers : q = p
      BY DEF OneReplayer
    <2> QED
      BY <2>1
  <1>6. RowsInv'
    BY RowsKept DEF ReplayInv
  <1> QED
    BY <1>2, <1>3, <1>4, <1>5, <1>6 DEF ReplayInv, QuietStep, history

(* The end of a tick, and its moves from await to await. *)
LEMMA ReplayEndTick ==
    ASSUME TypeInv, NEW p \in Indexers, EndTick(p)
    PROVE  ReplayTickInv(p)'
  BY DEF EndTick, TypeInv, TypeOK, ReplayTickInv

Moves(p) ==
    /\ UNCHANGED locals
    /\ \/ pc'[p] = pc[p] \/ pc'[p] \in {"idle", "readPg", "readTip"}
       \/ pc[p] = "writeRedis" /\ pc'[p] = "writePg"

LEMMA ReplayMove ==
    ASSUME TypeInv, ReplayInv, QuietStep, pgCp' = pgCp, NEW p \in Indexers, Moves(p)
    PROVE  ReplayTickInv(p)'
  <1>1. ReplayTickInv(p)
    BY DEF ReplayInv
  <1>2. /\ chain' = chain /\ cp' = cp /\ start' = start /\ pos' = pos /\ high' = high
        /\ payouts' = payouts /\ delivered' = delivered
    BY DEF QuietStep, Moves, locals, tables, history
  <1>0. \/ pc'[p] = pc[p] \/ pc'[p] \in {"idle", "readPg", "readTip"}
        \/ pc[p] = "writeRedis" /\ pc'[p] = "writePg"
    BY DEF Moves
  <1>3. PICK m : m = pos[p]
    OBVIOUS
  <1>4. PICK h : h = high[p]
    OBVIOUS
  <1>5. pc'[p] \in {"apply", "insert"} => Reflects(pos[p])'
    <2>1. pc'[p] \in {"apply", "insert"} => Reflects(m)
      BY <1>0, <1>1, <1>3 DEF ReplayTickInv
    <2>2. pc'[p] \in {"apply", "insert"} => Reflects(m)'
      BY <2>1, ReflectsKept
    <2> QED
      BY <1>2, <1>3, <2>2
  <1>6. pc'[p] \in {"writeRedis", "writePg"} => ReflectsLedger(high[p])'
    <2>1. pc'[p] \in {"writeRedis", "writePg"} => ReflectsLedger(h)
      BY <1>0, <1>1, <1>4 DEF ReplayTickInv
    <2>2. pc'[p] \in {"writeRedis", "writePg"} => ReflectsLedger(h)'
      BY <1>2, <2>1, ReflectsKept DEF ReflectsLedger
    <2> QED
      BY <1>2, <1>4, <2>2
  <1>7. pc'[p] = "fetch" =>
          /\ start[p] >= StartLedger /\ start[p] > pgCp
          /\ \A k \in 0 .. Len(chain) :
                (\A i \in 1 .. k : chain[i].ledger < start[p]) => Reflects(k)'
    BY <1>0, <1>1, ReflectsKept DEF ReplayTickInv
  <1>8. pc'[p] = "insert" => payouts'[PayoutKey(p)'] = 0
    BY <1>0, <1>1, <1>2 DEF ReplayTickInv, PayoutKey, Body, EventLedger
  <1> QED
    BY <1>0, <1>1, <1>2, <1>5, <1>6, <1>7, <1>8 DEF ReplayTickInv, Positions

(* A tick starts where the rows reflect all that is behind it. *)
LEMMA ReplayReadPg ==
    ASSUME TypeInv, OneReplayer, ReplayInv, NEW p \in Indexers, ReadPg(p)
    PROVE  ReplayInv'
  <1>1. QuietStep /\ pgCp' = pgCp /\ chain' = chain
    BY DEF ReadPg, QuietStep, feedVars, stores
  <1>2. /\ pgCp \in Nat /\ StartLedger \in Nat /\ StartLedger # 0
        /\ \A i \in Positions : chain[i].ledger \in Nat
        /\ Len(chain) \in Nat /\ delivered \subseteq Positions
    BY PlainTypes DEF OneReplayer
  <1>3. /\ pc'[p] = "fetch"
        /\ start'[p] = IF pgCp # 0 THEN pgCp + 1 ELSE StartLedger
        /\ cp'[p] = IF pgCp # 0 THEN pgCp ELSE cp[p]
    BY <1>2 DEF ReadPg, ResumeAfter, ResumeWithoutCheckpoint, FirstLedger, TypeInv, TypeOK
  <1>4. (pgCp = 0 \/ pgCp >= StartLedger) /\ (cp[p] = 0 \/ cp[p] >= StartLedger)
    BY DEF ReplayInv, ReplayTickInv
  <1>5. PICK s : s = start'[p]
    OBVIOUS
  <1>6. ASSUME NEW k \in 0 .. Len(chain), \A i \in 1 .. k : chain[i].ledger < s
        PROVE  Reflects(k)'
    <2>1. CASE pgCp # 0
      <3>1. \A i \in 1 .. k : chain[i].ledger <= pgCp
        BY <1>2, <1>3, <1>5, <1>6, <2>1 DEF Positions
      <3> QED
        BY <1>1, <3>1, ReflectsKept DEF ReplayInv, ReflectsLedger
    <2>2. CASE pgCp = 0
      <3>1. Reflects(0)
        BY <1>2 DEF ReplayInv, ReflectsLedger
      <3>2. ASSUME NEW j \in delivered PROVE ~(j <= k)
        <4>1. j \in Positions /\ chain[j].ledger \in Nat /\ chain[j].ledger >= StartLedger
          BY <1>2 DEF ReplayInv
        <4>2. j <= k => j \in 1 .. k
          BY <1>2, <4>1 DEF Positions
        <4> QED
          BY <1>2, <1>3, <1>5, <1>6, <2>2, <4>1, <4>2
      <3>3. Reflects(k)
        BY <3>1, <3>2, ReflectsMore
      <3> QED
        BY <1>1, <3>3, ReflectsKept
    <2> QED
      BY <2>1, <2>2
  <1>7. start'[p] >= StartLedger /\ start'[p] > pgCp
    BY <1>2, <1>3, <1>4
  <1>8. ReplayTickInv(p)'
    BY <1>1, <1>3, <1>4, <1>5, <1>6, <1>7 DEF ReplayTickInv
  <1> QED
    BY <1>1, <1>8, QuietKept

(* A page begins where the request does. *)
LEMMA ReplayFetchPage ==
    ASSUME TypeInv, OneReplayer, ReplayInv, NEW p \in Indexers, FetchPage(p)
    PROVE  ReplayInv'
  <1>1. QuietStep /\ pgCp' = pgCp /\ chain' = chain
    BY DEF FetchPage, QuietStep, feedVars, stores
  <1>2. PICK lo \in 0 .. Len(chain), hi \in 0 .. Len(chain) :
          IsPage(lo, hi, start[p]) /\ pos' = [pos EXCEPT ![p] = lo]
    BY DEF FetchPage
  <1>3. /\ pc[p] = "fetch" /\ pc'[p] = "apply" /\ pos'[p] = lo /\ high'[p] = cp[p]
        /\ cp'[p] = cp[p]
    BY <1>2 DEF FetchPage, InitialHighest, TypeInv, TypeOK
  <1>4. /\ start[p] \in Nat /\ pgCp \in Nat /\ StartLedger \in Nat /\ Len(chain) \in Nat
        /\ \A i \in Positions : chain[i].ledger \in Nat
    BY PlainTypes
  <1>5. /\ start[p] >= StartLedger /\ start[p] > pgCp
        /\ (\A i \in 1 .. lo : chain[i].ledger < start[p]) => Reflects(lo)
        /\ cp[p] = 0 \/ cp[p] >= StartLedger
    BY <1>3 DEF ReplayInv, ReplayTickInv
  <1>6. \A i \in Positions : i <= lo <=> chain[i].ledger < start[p]
    BY <1>2 DEF IsPage
  <1>7. Reflects(lo)'
    <2>1. \A i \in 1 .. lo : chain[i].ledger < start[p]
      BY <1>4, <1>6 DEF Positions
    <2> QED
      BY <1>1, <1>5, <2>1, ReflectsKept
  <1>8. Reflects(pos[p])'
    BY <1>3, <1>7
  <1>9. ASSUME NEW i \in Positions, lo < i
        PROVE  chain[i].ledger >= StartLedger /\ chain[i].ledger > pgCp
    <2>1. i \in Nat /\ lo \in Nat /\ chain[i].ledger \in Nat
      BY <1>4 DEF Positions
    <2>2. ~(chain[i].ledger < start[p])
      BY <1>6, <1>9, <2>1
    <2> QED
      BY <1>4, <1>5, <2>1, <2>2
  <1>10. ReplayTickInv(p)'
    BY <1>1, <1>3, <1>5, <1>8, <1>9 DEF ReplayTickInv, Positions
  <1> QED
    BY <1>1, <1>10, QuietKept

(* A page that ends a ledger has brought the rows up to that ledger. *)
LEMMA ReplayBeginWrite ==
    ASSUME TypeInv, IndexerInv, OneReplayer, ReplayInv, NEW p \in Indexers, BeginWrite(p)
    PROVE  ReplayInv'
  <1>1. QuietStep /\ pgCp' = pgCp /\ chain' = chain /\ UNCHANGED locals
    BY DEF BeginWrite, QuietStep, feedVars, stores
  <1>2. /\ pc[p] = "apply" /\ pos[p] = end[p] /\ high[p] # cp[p]
        /\ pc'[p] \in {"writeRedis", "writePg"}
    BY DEF BeginWrite, PageApplied, TypeInv, TypeOK
  <1>3. /\ pos[p] \in 0 .. Len(chain) /\ Len(chain) \in Nat /\ pos[p] \in Nat
        /\ \A i \in Positions : chain[i].ledger \in Nat /\ i \in Nat
        /\ delivered \subseteq Positions
    BY PlainTypes
  <1>4. PICK i \in 1 .. pos[p] : high[p] = chain[i].ledger
    BY <1>2 DEF IndexerInv, TickInv
  <1>5. ASSUME NEW k \in 0 .. Len(chain), \A j \in 1 .. k : chain[j].ledger <= high[p]
        PROVE  Reflects(k)
    <2>1. ASSUME NEW j \in delivered, j <= k PROVE j <= pos[p]
      <3>1. j \in Positions /\ j \in 1 .. k /\ i \in Positions /\ i <= end[p]
        BY <1>2, <1>3, <2>1 DEF Positions
      <3>2. PageEndsLedger(end[p])
        BY <1>2 DEF IndexerInv, TickInv
      <3>3. end[p] < j => chain[i].ledger < chain[j].ledger
        BY <3>1, <3>2 DEF PageEndsLedger
      <3>4. chain[j].ledger <= chain[i].ledger
        BY <1>4, <1>5, <3>1
      <3>5. j \in Nat /\ chain[i].ledger \in Nat /\ chain[j].ledger \in Nat
        BY <1>3, <3>1
      <3> QED
        BY <1>2, <1>3, <3>3, <3>4, <3>5
    <2>2. Reflects(pos[p])
      BY <1>2 DEF ReplayInv, ReplayTickInv
    <2>3. k \in Nat
      BY <1>3
    <2> QED
      BY <1>3, <2>1, <2>2, <2>3, ReflectsMore
  <1>6. PICK h : h = high[p]
    OBVIOUS
  <1>7. ReflectsLedger(h)'
    BY <1>1, <1>5, <1>6, ReflectsKept DEF ReflectsLedger
  <1>8. ReflectsLedger(high[p])' /\ high'[p] = high[p] /\ cp'[p] = cp[p]
    BY <1>1, <1>6, <1>7 DEF locals
  <1>9. ReplayTickInv(p)'
    BY <1>2, <1>8 DEF ReplayInv, ReplayTickInv
  <1> QED
    BY <1>1, <1>9, QuietKept

LEMMA ReplayMissPayout ==
    ASSUME TypeInv, OneReplayer, ReplayInv, NEW p \in Indexers, MissPayout(p)
    PROVE  ReplayInv'
  <1>1. /\ QuietStep /\ pgCp' = pgCp /\ chain' = chain /\ UNCHANGED locals
        /\ pc[p] = "apply" /\ pc'[p] = "insert" /\ pos[p] < end[p]
        /\ chain[pos[p] + 1].body.kind = "royalty_distributed"
    BY DEF MissPayout, Due, QuietStep, feedVars, stores, TypeInv, TypeOK
  <1>2. payouts[PayoutKey(p)] = 0
    <2>1. PayoutKey(p) \in Datasets \X Ledgers
      BY <1>1, DueEvent, BodyType DEF PayoutKey, Body
    <2> QED
      BY <2>1 DEF MissPayout, PayoutExists, TypeInv, TypeOK
  <1>3. payouts'[PayoutKey(p)'] = 0
    BY <1>1, <1>2 DEF QuietStep, tables, locals, PayoutKey, Body, EventLedger
  <1>4. PICK m : m = pos[p]
    OBVIOUS
  <1>5. Reflects(m)'
    BY <1>1, <1>4, ReflectsKept DEF ReplayInv, ReplayTickInv
  <1>6. Reflects(pos[p])'
    BY <1>1, <1>4, <1>5 DEF locals
  <1>7. ReplayTickInv(p)'
    BY <1>1, <1>3, <1>6 DEF ReplayInv, ReplayTickInv, Positions, locals
  <1> QED
    BY <1>1, <1>7, QuietKept

(* The checkpoint is saved: no later tick replays behind it. *)
LEMMA ReplayWritePg ==
    ASSUME TypeInv, IndexerInv, OneReplayer, ReplayInv, NEW p \in Indexers, WritePg(p)
    PROVE  ReplayInv'
  <1>1. QuietStep /\ pgCp' = high[p] /\ EndTick(p) /\ pc[p] = "writePg"
    BY DEF WritePg, QuietStep, feedVars
  <1>2. high[p] # 0 /\ high[p] >= StartLedger /\ ReflectsLedger(high[p])
    BY <1>1 DEF IndexerInv, TickInv, ReplayInv, ReplayTickInv
  <1> QED
    BY <1>1, <1>2, ReplayEndTick, QuietKept

-----------------------------------------------------------------------------
(* The invariant.                                                          *)

LEMMA OneReplayerIsSafe == OneReplayer => SafeConfig
  BY DEF OneReplayer, SafeConfig, NoFormerLife

LEMMA ReplayInit == OneReplayer /\ Init => ReplayInv
  <1> SUFFICES ASSUME OneReplayer, Init PROVE ReplayInv
    OBVIOUS
  <1>1. /\ pgCp = 0 /\ dataset = [d \in Datasets |-> NoRow]
        /\ license = [l \in Licenses |-> NoRow]
        /\ payouts = [k \in Datasets \X Ledgers |-> 0]
    BY DEF Init, OneReplayer, NoFormerLife
  <1>2. origin = StartLedger /\ delivered = {}
    BY <1>1 DEF Init
  <1>3. \A k : Reflects(k)
    BY <1>1 DEF Reflects
  <1>4. RowsInv
    <2>1. /\ \A d : Registrations(d) = {} /\ Changes(d) = {}
          /\ \A l : Issues(l) = {}
          /\ \A d, l : Payouts(d, l) = {}
      BY <1>2 DEF Registrations, Changes, Issues, Payouts, Applications
    <2> QED
      BY <1>1, <2>1 DEF RowsInv
  <1>5. \A p \in Indexers : ReplayTickInv(p)
    BY DEF Init, ReplayTickInv
  <1> QED
    BY <1>1, <1>2, <1>3, <1>4, <1>5 DEF ReplayInv, ReflectsLedger

(* A step that only ends the tick, or moves it to another await. *)
LEMMA ReplayQuietStep ==
    ASSUME TypeInv, OneReplayer, ReplayInv, QuietStep, pgCp' = pgCp, NEW p \in Indexers,
           EndTick(p) \/ Moves(p)
    PROVE  ReplayInv'
  <1>1. ReplayTickInv(p)'
    BY ReplayEndTick, ReplayMove
  <1> QED
    BY <1>1, QuietKept

LEMMA ReplayStep ==
    TypeInv /\ IndexerInv /\ OneReplayer /\ ReplayInv /\ [Next]_vars => ReplayInv'
  <1> SUFFICES ASSUME TypeInv, IndexerInv, OneReplayer, ReplayInv, [Next]_vars
               PROVE  ReplayInv'
    OBVIOUS
  <1> USE DEF QuietStep
  <1>1. CASE UNCHANGED pc /\ UNCHANGED locals /\ QuietStep /\ pgCp' = pgCp
    <2>1. CASE Indexers = {}
      <3>1. RowsInv'
        BY <1>1, RowsKept DEF ReplayInv
      <3>2. PICK c : c = pgCp
        OBVIOUS
      <3>3. ReflectsLedger(c)'
        BY <1>1, <3>2, ReflectsKept DEF ReplayInv, ReflectsLedger
      <3>4. ReflectsLedger(pgCp)'
        BY <1>1, <3>2, <3>3
      <3> QED
        BY <1>1, <2>1, <3>1, <3>4 DEF ReplayInv, history
    <2>2. CASE Indexers # {}
      BY <1>1, <2>2, ReplayQuietStep DEF Moves
    <2> QED
      BY <2>1, <2>2
  <1>2. CASE UNCHANGED vars \/ ChainAdvances \/ EvictCheckpoint
    BY <1>1, <1>2 DEF vars, ChainAdvances, CloseLedger, EvictCheckpoint, feedVars, stores
  <1>3. ASSUME NEW p \in Indexers, ReadCheckpoint(p) PROVE ReplayInv'
    <2>1. CASE ReadRedisHit(p) \/ ReadRedisMiss(p)
      BY <2>1 DEF ReadRedisHit, ReadRedisMiss, OneReplayer
    <2>2. CASE ReadPg(p)
      BY <2>2, ReplayReadPg
    <2>3. CASE ReadTip(p)
      BY <2>3 DEF ReadTip, IndexerInv, TickInv
    <2> QED
      BY <1>3, <2>1, <2>2, <2>3 DEF ReadCheckpoint
  <1>4. ASSUME NEW p \in Indexers, GetEvents(p) PROVE ReplayInv'
    <2>1. CASE FetchRefused(p)
      BY <2>1, ReplayQuietStep DEF FetchRefused, feedVars, stores
    <2> QED
      BY <1>4, <2>1, ReplayFetchPage DEF GetEvents
  <1>5. ASSUME NEW p \in Indexers, ApplyEvent(p) PROVE ReplayInv'
    <2>1. CASE ForeignKeyViolation(p)
      BY <2>1, ReplayQuietStep DEF ForeignKeyViolation, feedVars, stores
    <2>2. CASE MissPayout(p)
      BY <2>2, ReplayMissPayout
    <2>3. CASE Applies(p)
      BY <2>3, AppliesStep
    <2> QED
      BY <1>5, <2>1, <2>2, <2>3 DEF ApplyEvent, Applies
  <1>6. ASSUME NEW p \in Indexers, Finish(p) PROVE ReplayInv'
    <2>1. CASE FinishWithoutWrite(p)
      BY <2>1, ReplayQuietStep DEF FinishWithoutWrite, feedVars, stores
    <2>2. CASE WriteRedis(p)
      BY <2>2, ReplayQuietStep DEF WriteRedis, Moves, feedVars, TypeInv, TypeOK
    <2> QED
      BY <1>6, <2>1, <2>2, ReplayBeginWrite, ReplayWritePg DEF Finish
  <1>7. ASSUME NEW p \in Indexers, Failure(p) PROVE ReplayInv'
    <2>1. CASE RpcError(p) \/ ApplyError(p) \/ WritePgError(p) \/ Crash(p)
      BY <2>1, ReplayQuietStep
         DEF RpcError, ApplyError, WritePgError, Crash, feedVars, stores
    <2>2. CASE ReadRedisError(p) \/ ReadPgError(p)
      BY <2>2 DEF ReadRedisError, ReadPgError, Fail, OneReplayer
    <2>3. CASE WriteRedisError(p)
      BY <2>3, ReplayQuietStep DEF WriteRedisError, Moves, feedVars, stores, TypeInv, TypeOK
    <2>4. CASE Stop(p)
      BY <1>1, <2>4 DEF Stop, feedVars, stores
    <2> QED
      BY <1>7, <2>1, <2>2, <2>3, <2>4 DEF Failure
  <1> QED
    BY <1>2, <1>3, <1>4, <1>5, <1>6, <1>7 DEF Next, Step

-----------------------------------------------------------------------------
(* The tables when a replay has caught up.                                 *)

LEMMA Extremes ==
    ASSUME NEW S \in SUBSET Nat, NEW i \in S
    PROVE  /\ (\A j \in S : j <= i) => Max(S) = i
           /\ (\A j \in S : i <= j) => Min(S) = i
  <1>1. ASSUME \A j \in S : j <= i PROVE Max(S) = i
    <2>1. \A x \in S : (\A y \in S : x >= y) <=> x = i
      BY <1>1
    <2> QED
      BY <2>1 DEF Max
  <1>2. ASSUME \A j \in S : i <= j PROVE Min(S) = i
    <2>1. \A x \in S : (\A y \in S : x <= y) <=> x = i
      BY <1>2
    <2> QED
      BY <2>1 DEF Min
  <1> QED
    BY <1>1, <1>2

LEMMA CaughtUp ==
    ASSUME TypeInv, IndexerInv, OneReplayer, ReplayInv, NEW p \in Indexers,
           pc[p] = "apply", \A i \in delivered : i <= pos[p]
    PROVE  TablesAreAfter(pos[p])
  <1> DEFINE k == pos[p]
  <1>1. /\ k \in Nat /\ k <= Len(chain) /\ Len(chain) \in Nat /\ StartLedger # 0
        /\ origin = StartLedger /\ chain \in Chains
        /\ \A i \in delivered : i \in Positions /\ chain[i].ledger >= StartLedger
        /\ Reflects(k) /\ RowsInv
    BY HistoryType DEF TypeInv, TypeOK, OneReplayer, ReplayInv, ReplayTickInv
  <1>2. \A i \in Positions : InScope(i) <=> chain[i].ledger >= StartLedger
    BY <1>1 DEF InScope
  <1>3. \A i : i \in delivered <=> i \in 1 .. k /\ InScope(i)
    <2>1. \A i \in Positions : i <= k /\ InScope(i) => i \in delivered
      BY DEF IndexerInv, TickInv
    <2> QED
      BY <1>1, <1>2, <2>1 DEF Positions
  <1>4. \A kind : EventsUpTo(k, kind) = Applications(kind)
    BY <1>3 DEF EventsUpTo, Applications
  <1> HIDE DEF k
  <1>5. ASSUME NEW d \in Datasets PROVE dataset[d] = DatasetAfter(d, k)
    <2> DEFINE R == Registrations(d)
               S == Changes(d)
    <2>1. /\ R \in SUBSET Nat /\ S \in SUBSET Nat
          /\ R \subseteq delivered /\ S \subseteq delivered
          /\ \A i \in delivered : i <= k
      BY EventsType, <1>1, <1>3 DEF Registrations, Changes, Applications
    <2>2. DatasetAfter(d, k) =
            LET T == {i \in S : i > Min(R)}
            IN  IF R = {} THEN NoRow
                ELSE [meta |-> chain[Max(R)].body.meta,
                      state |-> IF T = {} THEN DefaultState ELSE chain[Max(T)].body.state,
                      createdLedger |-> chain[Min(R)].ledger]
      <3>1. {i \in EventsUpTo(k, "dataset_registered") : chain[i].body.id = d} = R
        BY <1>4 DEF Registrations
      <3>2. {i \in EventsUpTo(k, "dataset_state_changed") :
                chain[i].body.id = d /\ i > Min(R)} = {i \in S : i > Min(R)}
        BY <1>4 DEF Changes
      <3> HIDE DEF R, S
      <3> QED
        BY <3>1, <3>2 DEF DatasetAfter
    <2>3. CASE R = {}
      BY <1>1, <2>2, <2>3 DEF RowsInv
    <2>4. CASE R # {}
      <3>1. dataset[d] # NoRow /\ dataset[d] \in DatasetRow
        BY <1>1, <2>4 DEF RowsInv, TypeInv, TypeOK
      <3>2. PICK f \in R : (\A i \in R : f <= i) /\ dataset[d].createdLedger = chain[f].ledger
        BY <1>1, <2>4 DEF RowsInv
      <3>3. Min(R) = f
        BY <2>1, <3>2, Extremes
      <3>4. PICK i \in R : dataset[d].meta = chain[i].body.meta /\ NotBefore(i, R, k)
        BY <1>1, <3>1 DEF Reflects, MetaReflects
      <3>5. Max(R) = i
        BY <2>1, <3>4, Extremes DEF NotBefore
      <3>6. {j \in S : j > f} = S
        <4> SUFFICES ASSUME NEW j \in S PROVE f < j
          BY <2>1
        <4>1. /\ j \in Positions /\ chain[j].ledger >= StartLedger /\ j \in Nat
              /\ Is(j, "dataset_state_changed") /\ chain[j].body.id = d
          BY <1>1, <2>1, EventsApart
        <4>2. \A n \in Positions : n < j /\ InScope(n) => n \in delivered
          BY <1>3, <2>1, <4>1 DEF IndexerInv, DeliveredInOrder
        <4>3. PICK n \in R : n < j
          BY <4>1, <4>2, RegisteredBefore
        <4> QED
          BY <2>1, <3>2, <4>1, <4>3
      <3>7. dataset[d].state = IF S = {} THEN DefaultState ELSE chain[Max(S)].body.state
        <4>1. CASE \E j \in S : dataset[d].state = chain[j].body.state /\ NotBefore(j, S, k)
          <5>1. PICK j \in S : dataset[d].state = chain[j].body.state /\ NotBefore(j, S, k)
            BY <4>1
          <5>2. Max(S) = j
            BY <2>1, <5>1, Extremes DEF NotBefore
          <5> QED
            BY <5>1, <5>2
        <4>2. CASE dataset[d].state = DefaultState /\ \A j \in S : ~(j <= k)
          <5>1. S = {}
            BY <2>1, <4>2
          <5> QED
            BY <4>2, <5>1
        <4> QED
          BY <1>1, <3>1, <4>1, <4>2 DEF Reflects, StateReflects
      <3> HIDE DEF R, S
      <3> QED
        BY <2>2, <2>4, <3>1, <3>2, <3>3, <3>4, <3>5, <3>6, <3>7 DEF DatasetRow
    <2> QED
      BY <2>3, <2>4
  <1>6. ASSUME NEW l \in Licenses PROVE license[l] = LicenseAfter(l, k)
    <2> DEFINE L == Issues(l)
    <2>1. L \in SUBSET Nat /\ L \subseteq delivered /\ \A i \in delivered : i <= k
      BY EventsType, <1>1, <1>3 DEF Issues, Applications
    <2>2. LicenseAfter(l, k) = IF L = {} THEN NoRow
                               ELSE [datasetId |-> chain[Min(L)].body.datasetId,
                                     terms |-> chain[Max(L)].body.terms]
      <3>1. {i \in EventsUpTo(k, "license_issued") : chain[i].body.id = l} = L
        BY <1>4 DEF Issues
      <3> HIDE DEF L
      <3> QED
        BY <3>1 DEF LicenseAfter
    <2>3. CASE L = {}
      BY <1>1, <2>2, <2>3 DEF RowsInv
    <2>4. CASE L # {}
      <3>1. license[l] # NoRow /\ license[l] \in LicenseRow
        BY <1>1, <2>4 DEF RowsInv, TypeInv, TypeOK
      <3>2. PICK f \in L :
              (\A i \in L : f <= i) /\ license[l].datasetId = chain[f].body.datasetId
        BY <1>1, <2>4 DEF RowsInv
      <3>3. Min(L) = f
        BY <2>1, <3>2, Extremes
      <3>4. PICK i \in L : license[l].terms = chain[i].body.terms /\ NotBefore(i, L, k)
        BY <1>1, <3>1 DEF Reflects, TermsReflect
      <3>5. Max(L) = i
        BY <2>1, <3>4, Extremes DEF NotBefore
      <3> HIDE DEF L
      <3> QED
        BY <2>2, <2>4, <3>1, <3>2, <3>3, <3>4, <3>5 DEF LicenseRow
    <2> QED
      BY <2>3, <2>4
  <1>7. ASSUME NEW d \in Datasets, NEW l \in Ledgers
        PROVE  payouts[<<d, l>>] = PayoutsAfter(d, l, k)
    <2>1. payouts[<<d, l>>] = IF Payouts(d, l) = {} THEN 0 ELSE 1
      BY <1>1 DEF RowsInv
    <2>2. Payouts(d, l) = {} <=> ~\E i \in EventsUpTo(k, "royalty_distributed") :
                                    chain[i].body.datasetId = d /\ chain[i].ledger = l
      BY <1>4 DEF Payouts
    <2> QED
      BY <2>1, <2>2 DEF PayoutsAfter
  <1> QED
    BY <1>5, <1>6, <1>7 DEF TablesAreAfter, k

(***************************************************************************)
(* Replaying a part of the history, however often failures make one        *)
(* process do it, leaves the tables one clean pass would have left: once   *)
(* the replay has reached the last event ever applied.                     *)
(***************************************************************************)
THEOREM ReplaysConverge == OneReplayer => (Spec => []ReplayConverges)
  <1>1. ASSUME OneReplayer PROVE Spec => []ReplayConverges
    <2>1. Init => TypeInv /\ IndexerInv /\ ReplayInv
      BY <1>1, TypeInit, IndexerInvInit, OneReplayerIsSafe, ReplayInit
    <2>2. TypeInv /\ IndexerInv /\ ReplayInv /\ [Next]_vars
            => (TypeInv /\ IndexerInv /\ ReplayInv)'
      BY <1>1, TypeStep, IndexerInvStep, OneReplayerIsSafe, ReplayStep
    <2>3. TypeInv /\ IndexerInv /\ ReplayInv => ReplayConverges
      BY <1>1, CaughtUp DEF ReplayConverges
    <2> QED
      BY <2>1, <2>2, <2>3, PTL DEF Spec
  <1> QED
    BY <1>1
=============================================================================
