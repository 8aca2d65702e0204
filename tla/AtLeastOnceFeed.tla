-------------------------- MODULE AtLeastOnceFeed --------------------------
(***************************************************************************)
(* What an event indexer promises, whatever its loop looks like: from the  *)
(* ledger it subscribed at, events are delivered in order, each at least   *)
(* once, and a stored checkpoint only names a ledger all of whose events   *)
(* have been delivered.  Redelivery is not a step here: it delivers        *)
(* nothing that was not delivered before.                                  *)
(***************************************************************************)
EXTENDS SorobanFeed

VARIABLES
    origin,      \* the ledger the subscription begins at; 0 before that
    delivered,   \* positions of chain delivered at least once
    checkpoint   \* the stored checkpoint; 0 when there is none

vars == <<feedVars, origin, delivered, checkpoint>>

InScope(i) == origin # 0 /\ chain[i].ledger >= origin

Covered(c) ==
    \A i \in Positions : InScope(i) /\ chain[i].ledger <= c => i \in delivered

Init ==
    /\ FeedInit
    /\ origin \in Nat
    /\ delivered = {}
    /\ checkpoint \in Nat
    /\ Covered(checkpoint)

(* A first run without a configured start begins at the tip. *)
Subscribe ==
    /\ origin = 0
    /\ origin' = tip
    /\ UNCHANGED <<feedVars, delivered, checkpoint>>

Deliver(i) ==
    /\ InScope(i)
    /\ Visible(i)
    /\ i \notin delivered
    /\ \A j \in Positions : j < i /\ InScope(j) => j \in delivered
    /\ delivered' = delivered \cup {i}
    /\ UNCHANGED <<feedVars, origin, checkpoint>>

(* The checkpoint may move back; it may never pass an undelivered event. *)
Commit(c) ==
    /\ Covered(c)
    /\ checkpoint' = c
    /\ UNCHANGED <<feedVars, origin, delivered>>

ChainAdvances == CloseLedger /\ UNCHANGED <<origin, delivered, checkpoint>>

Next ==
    \/ ChainAdvances
    \/ Subscribe
    \/ \E i \in Positions : Deliver(i)
    \/ \E c \in 0 .. tip : Commit(c)

Spec == Init /\ [][Next]_vars
=============================================================================
