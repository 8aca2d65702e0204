----------------------------- MODULE MCServices -----------------------------
(***************************************************************************)
(* Services for TLC.  The list: one client that walks it on pages of one,  *)
(* and one that asks for single pages under the same keys; three datasets, *)
(* so that one can be inserted before the cursor of a walk, behind it or   *)
(* between its pages while another page is still to come.  Sign-in: two    *)
(* workers, addresses, challenges and verify calls, so that the calls race *)
(* on one challenge, or the owner's call with another's; the clock runs    *)
(* past the expiry.  The seed: two processes with three runs.  The backup: *)
(* two hosts with three runs over a retention time shorter than the        *)
(* behaviour.                                                              *)
(***************************************************************************)
EXTENDS Services

CONSTANTS r1, r2, w1, w2, a1, a2, n1, n2, v1, v2, p1, p2, h1, h2

MCReaders == {r1, r2}
MCWalkers == {r1}
MCWorkers == {w1, w2}
MCAddresses == {a1, a2}
MCNonces == {n1, n2}
MCVerifies == {v1, v2}
MCSeeders == {p1, p2}
MCJobs == {h1, h2}

(* No action or property tells a challenge or a verify call from another.  *)
Symmetry == Permutations(MCNonces) \cup Permutations(MCVerifies)
=============================================================================
