-------------------------- MODULE MCDatasetRegistry --------------------------
(***************************************************************************)
(* Small instances of the DatasetRegistry indexer: two datasets at most,   *)
(* one licence, histories of up to five events over four ledgers, pages of *)
(* two events.                                                             *)
(***************************************************************************)
EXTENDS DatasetRegistryProjection, TLC

CONSTANTS p1, p2, d1, l1, m1, m2, active, archived, t1, t2

OneIndexer == {p1}
TwoIndexers == {p1, p2}
Symmetry == Permutations(TwoIndexers)
MCDatasets == {d1}
MCLicenses == {l1}
MCMetas == {m1, m2}
MCStates == {active, archived}
MCTerms == {t1, t2}

Registered(l, m) ==
    [ledger |-> l, body |-> [kind |-> "dataset_registered", id |-> d1, meta |-> m]]
StateChanged(l, s) ==
    [ledger |-> l, body |-> [kind |-> "dataset_state_changed", id |-> d1, state |-> s]]
Licensed(l, t) ==
    [ledger |-> l, body |-> [kind |-> "license_issued", id |-> l1,
                             datasetId |-> d1, terms |-> t]]
Distributed(l) ==
    [ledger |-> l, body |-> [kind |-> "royalty_distributed", datasetId |-> d1]]
Unknown(l) == [ledger |-> l, body |-> [kind |-> "other"]]

(* A dataset's life, with an update and a second state change. *)
DatasetLife == <<Registered(1, m1), Registered(2, m2), StateChanged(3, archived),
                 StateChanged(4, active)>>
(* A licence that is renewed, and a distribution beside it. *)
LicenseLife == <<Registered(1, m1), Licensed(2, t1), Distributed(3),
                 Licensed(4, t2)>>
(* Ledgers of two events, each a full page; a gap; an unknown event. *)
Bursts == <<Registered(1, m1), StateChanged(1, archived), Distributed(2),
            Unknown(2), Distributed(4)>>
(* The registration is older than the ledger indexing began from. *)
LateStart == <<Registered(1, m1), Licensed(3, t1), Registered(4, m2)>>
(* Nothing in the ledger of the first poll. *)
QuietStart == <<Registered(2, m1), StateChanged(3, archived)>>

(* A registration that does not decode, and what refers to its dataset. *)
OrphanLicense == <<Unknown(1), Licensed(2, t1)>>
OrphanPayout == <<Unknown(1), Distributed(2), StateChanged(3, archived)>>

(* No process has run against this database before. *)
First == {NoFormerLife}

WellFormed == {DatasetLife, LicenseLife, Bursts}
WithOrphans == WellFormed \cup {OrphanLicense, OrphanPayout}
Late == {LateStart}
SilentStart == {QuietStart}
(* Nothing here needs a row that a first run may have begun too late for. *)
Independent == {DatasetLife, QuietStart}

ASSUME AlignedHistories == \A c \in WithOrphans \cup Independent : IsAligned(c)
=============================================================================
