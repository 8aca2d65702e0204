---------------------- MODULE DatasetRegistryProjection ----------------------
(***************************************************************************)
(* What the projection tables should hold: the rows that the events in     *)
(* scope, up to a position of the history and each applied once, in order, *)
(* would leave (prisma/schema.prisma: "the chain is the source of truth    *)
(* and this table is a queryable projection of it").  Stated by the first  *)
(* and the last event that bear on a row rather than by replaying.         *)
(***************************************************************************)
EXTENDS DatasetRegistryIndexer, FiniteSetsExt

EventsUpTo(k, kind) ==
    {i \in 1 .. k : InScope(i) /\ chain[i].body.kind = kind}

DatasetAfter(d, k) ==
    LET R == {i \in EventsUpTo(k, "dataset_registered") : chain[i].body.id = d}
        S == {i \in EventsUpTo(k, "dataset_state_changed") :
                chain[i].body.id = d /\ i > Min(R)}
    IN  IF R = {} THEN NoRow
        ELSE [meta |-> chain[Max(R)].body.meta,
              state |-> IF S = {} THEN DefaultState ELSE chain[Max(S)].body.state,
              createdLedger |-> chain[Min(R)].ledger]

LicenseAfter(l, k) ==
    LET L == {i \in EventsUpTo(k, "license_issued") : chain[i].body.id = l}
    IN  IF L = {} THEN NoRow
        ELSE [datasetId |-> chain[Min(L)].body.datasetId,
              terms |-> chain[Max(L)].body.terms]

PayoutsAfter(d, l, k) ==
    IF \E i \in EventsUpTo(k, "royalty_distributed") :
        chain[i].body.datasetId = d /\ chain[i].ledger = l
    THEN 1 ELSE 0

TablesAreAfter(k) ==
    /\ \A d \in Datasets : dataset[d] = DatasetAfter(d, k)
    /\ \A l \in Licenses : license[l] = LicenseAfter(l, k)
    /\ \A d \in Datasets, l \in Ledgers : payouts[<<d, l>>] = PayoutsAfter(d, l, k)

(***************************************************************************)
(* Replaying is harmless: when a tick has again reached the last event     *)
(* that was ever applied, the tables are exactly what one clean pass over  *)
(* the history would have left (applyEvent).                               *)
(***************************************************************************)
ReplayConverges ==
    \A p \in Indexers :
        pc[p] = "apply" /\ pos[p] \in delivered /\ (\A i \in delivered : i <= pos[p])
            => TablesAreAfter(pos[p])

(***************************************************************************)
(* Once the chain and the failures are over, the tables come to mirror the *)
(* chain and stay so (tick and applyEvent together).                       *)
(***************************************************************************)
EventuallyMirrors ==
    <>[]TablesAreAfter(Cardinality({i \in Positions : Visible(i)}))
=============================================================================
