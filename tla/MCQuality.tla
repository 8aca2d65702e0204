------------------------------ MODULE MCQuality ------------------------------
(***************************************************************************)
(* Small instances of the QualityOracle indexer: one dataset, two curators *)
(* at most, histories of up to five events over four ledgers.              *)
(***************************************************************************)
EXTENDS QualityIndexer

CONSTANTS d1, c1, c2, any

MCDatasets == {d1}
MCCurators == {c1, c2}
MCScores == {40, 90}

Attested(l, c, s) ==
    [ledger |-> l, body |-> [kind |-> "attested", datasetId |-> d1, curator |-> c,
                             score |-> s]]
Slashed(l, c) == [ledger |-> l, body |-> [kind |-> "slashed", curator |-> c]]
Curator(l, c) == [ledger |-> l, body |-> [kind |-> "curator", curator |-> c]]
Unknown(l) == [ledger |-> l, body |-> [kind |-> "other"]]

(* Two curators attest, and the first one changes its mind. *)
Scoring == <<Curator(2, c1), Attested(2, c1, 40), Attested(3, c2, 90),
             Attested(4, c1, 90)>>
(* A curator registers, is slashed, and registers again; another is slashed *)
(* without a registration.                                                  *)
Slashing == <<Curator(2, c1), Slashed(3, c1), Unknown(3), Curator(4, c1),
              Slashed(4, c2)>>
WellFormed == {Scoring, Slashing}
Selections == {Selection(events) : events \in WellFormed}

(* What processEvents sends, and filters that match what the oracle emits. *)
Sent == {SentFilter}
Matching == {<<"oracle", any, any>>, <<"oracle", any, any, any>>}
=============================================================================
