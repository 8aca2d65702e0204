-------------------------------- MODULE Seed --------------------------------
(***************************************************************************)
(* prisma/seed.ts: five datasets with their contributors, licences and     *)
(* payouts, written query by query without a transaction.  A run may fail  *)
(* at any of its queries and be started again, on tables that an earlier   *)
(* version of the seed filled, and beside another run.                     *)
(***************************************************************************)
EXTENDS Naturals, Sequences, FiniteSets, SequencesExt

CONSTANTS
    Seeders, \* the processes that run the seed
    MaxRuns  \* bound: how many runs are started

VARIABLES
    tables,  \* each row that the seed upserts: absent, or as which seed left it
    payouts, \* the payout rows of each dataset; their ids are generated
    seeder,  \* each process: its dataset (0: no run), its next query of that
             \* dataset, and whether it ran alone
    runs     \* how many runs were started

seedVars == <<tables, payouts, seeder, runs>>

ASSUME SeedAssumption == MaxRuns \in Nat

-----------------------------------------------------------------------------
(* The data: ids, and for a payout its ledger.                             *)

DATASETS == <<
    [id |-> "yor", contributors |-> <<"A", "B">>, licenses |-> <<"yor-1", "yor-2">>,
     payouts |-> <<51900000>>],
    [id |-> "swa", contributors |-> <<"B">>, licenses |-> <<"swa-1">>,
     payouts |-> <<51950000>>],
    [id |-> "hau", contributors |-> <<"C", "D">>, licenses |-> <<"hau-1">>,
     payouts |-> <<>>],
    [id |-> "amh", contributors |-> <<"D">>, licenses |-> <<>>, payouts |-> <<>>],
    [id |-> "zul", contributors |-> <<"A", "B", "C">>, licenses |-> <<"zul-1", "zul-2">>,
     payouts |-> <<51800000, 51990000>>]>>

DatasetIds == {DATASETS[i].id : i \in DOMAIN DATASETS}

(* The rows of one iteration of main's loop, and its queries.              *)
DatasetRows(d) ==
    <<<<"dataset", d.id>>>>
    \o [i \in DOMAIN d.contributors |-> <<"contributor", d.id, d.contributors[i]>>]
    \o [i \in DOMAIN d.licenses |-> <<"license", d.licenses[i]>>]

Upserts(d) == [i \in DOMAIN DatasetRows(d) |-> [op |-> "upsert", row |-> DatasetRows(d)[i]]]

Queries(d) ==
    Upserts(d) \o <<[op |-> "deleteMany", id |-> d.id]>>
    \o [i \in DOMAIN d.payouts |-> [op |-> "create", id |-> d.id, ledger |-> d.payouts[i]]]

Rows == UNION {ToSet(DatasetRows(DATASETS[i])) : i \in DOMAIN DATASETS}

NoRun == [dataset |-> 0, query |-> 1, alone |-> FALSE]

(* Before: empty tables, or those of an earlier version of the seed.       *)
SeedInit ==
    /\ \/ tables = [r \in Rows |-> "absent"] /\ payouts = [d \in DatasetIds |-> <<>>]
       \/ tables = [r \in Rows |-> "old"] /\ payouts = [d \in DatasetIds |-> <<51000000>>]
    /\ seeder = [s \in Seeders |-> NoRun]
    /\ runs = 0

-----------------------------------------------------------------------------
Running(s) == seeder[s].dataset \in DOMAIN DATASETS

NextQuery(s) == Queries(DATASETS[seeder[s].dataset])[seeder[s].query]

Begin(s) ==
    /\ ~Running(s) /\ runs < MaxRuns
    /\ runs' = runs + 1
    /\ LET others == {o \in Seeders \ {s} : Running(o)}
       IN  seeder' = [o \in Seeders |->
               IF o = s THEN [dataset |-> 1, query |-> 1, alone |-> others = {}]
               ELSE [seeder[o] EXCEPT !.alone = @ /\ o \notin others]]
    /\ UNCHANGED <<tables, payouts>>

(* Faulty variant: one query more than a dataset has. *)
Overrun(at) ==
    IF at.query <= Len(Queries(DATASETS[at.dataset]))
    THEN [at EXCEPT !.query = @ + 1]
    ELSE [at EXCEPT !.dataset = @ + 1, !.query = 1]

(* The loop goes on to the next dataset after the last query of this one.  *)
After(at) ==
    IF at.query < Len(Queries(DATASETS[at.dataset]))
    THEN [at EXCEPT !.query = @ + 1]
    ELSE [at EXCEPT !.dataset = @ + 1, !.query = 1]

Advance(s) == seeder' = [seeder EXCEPT ![s] = After(@)]

(* Faulty variant: an update that changes nothing. *)
CreateOnly(row) == [tables EXCEPT ![row] = IF @ = "absent" THEN "seeded" ELSE @]

Upserted(row) == [tables EXCEPT ![row] = "seeded"]

Upsert(s) ==
    /\ Running(s) /\ NextQuery(s).op = "upsert"
    /\ tables' = Upserted(NextQuery(s).row)
    /\ Advance(s)
    /\ UNCHANGED <<payouts, runs>>

Cleared(id) == [payouts EXCEPT ![id] = <<>>]

DeleteMany(s) ==
    /\ Running(s) /\ NextQuery(s).op = "deleteMany"
    /\ payouts' = Cleared(NextQuery(s).id)
    /\ Advance(s)
    /\ UNCHANGED <<tables, runs>>

Create(s) ==
    /\ Running(s) /\ NextQuery(s).op = "create"
    /\ payouts' = [payouts EXCEPT ![NextQuery(s).id] = Append(@, NextQuery(s).ledger)]
    /\ Advance(s)
    /\ UNCHANGED <<tables, runs>>

(* A query rejects, or the process dies: the run ends where it is. *)
Interrupted(s) ==
    /\ Running(s)
    /\ seeder' = [seeder EXCEPT ![s] = NoRun]
    /\ UNCHANGED <<tables, payouts, runs>>

SeedNext ==
    \E s \in Seeders : Begin(s) \/ Upsert(s) \/ DeleteMany(s) \/ Create(s) \/ Interrupted(s)

SeedSpec == SeedInit /\ [][SeedNext]_seedVars

-----------------------------------------------------------------------------
(* Every variable has its type; a run is at a query its dataset has.       *)
SeedTypeOK ==
    /\ tables \in [Rows -> {"absent", "old", "seeded"}]
    /\ payouts \in [DatasetIds -> Seq(Nat)]
    /\ seeder \in [Seeders -> [dataset : 0 .. Len(DATASETS) + 1, query : Nat, alone : BOOLEAN]]
    /\ \A s \in Seeders :
        Running(s) => seeder[s].query \in DOMAIN Queries(DATASETS[seeder[s].dataset])
    /\ runs \in 0 .. MaxRuns

Seeded ==
    /\ \A r \in Rows : tables[r] = "seeded"
    /\ \A i \in DOMAIN DATASETS : payouts[DATASETS[i].id] = DATASETS[i].payouts

(***************************************************************************)
(* Whatever earlier runs left, failed or overlapping ones included, a run  *)
(* that goes through with no other beside it leaves exactly the seed's     *)
(* rows ("idempotent", prisma/seed.ts:9).                                  *)
(***************************************************************************)
SeedConverges ==
    [][\A s \in Seeders :
        Running(s) /\ seeder'[s].dataset = Len(DATASETS) + 1 /\ seeder'[s].alone
        => Seeded']_seedVars
=============================================================================
