---------------------------- MODULE MCCommissions ----------------------------
(***************************************************************************)
(* Small instances of the commission indexer: two commissions at most,     *)
(* histories of up to four events, pages of two events.                    *)
(***************************************************************************)
EXTENDS CommissionIndexer

CONSTANTS i1, i2, q1, q2, r1, r2, s1

MCIds == {i1, i2}
OnePoll == {q1}
TwoPolls == {q1, q2}  \* overlapping polls; see the README
MCRequests == {r1, r2}
MCSockets == {s1}
NoClients == {}

Event(l, k, id) == [ledger |-> l, body |-> [kind |-> k, id |-> id]]
Unknown(l) == [ledger |-> l, body |-> [kind |-> "other"]]

(* Two commissions in one ledger, one of them fulfilled on chain later. *)
Posting == <<Event(1, "posted", i1), Event(2, "posted", i2), Unknown(2),
             Event(3, "fulfilled", i1)>>

(* A commission cancelled on chain, perhaps after a request fulfilled it. *)
Cancelling == <<Event(1, "posted", i1), Event(2, "cancelled", i1)>>

Histories == {Posting, Cancelling}
=============================================================================
