----------------------------- MODULE MCApiServer -----------------------------
(***************************************************************************)
(* ApiServer for TLC: one call, of a kind with the fewest checks or with   *)
(* the most, and two submissions of it, which may overlap or follow each   *)
(* other.  Other calls of the account are OtherTransaction.                *)
(***************************************************************************)
EXTENDS ApiServer, TLC

CONSTANTS a1, c1, s1, s2

MCAccounts == {a1}
MCCalls == {c1}
MCSubmits == {s1, s2}
MCWanted == c1 :> {"post_commission", "attest_quality"}
=============================================================================
