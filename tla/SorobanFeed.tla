---------------------------- MODULE SorobanFeed ----------------------------
(***************************************************************************)
(* The chain as the indexers see it: the events one contract emits, and    *)
(* the Soroban RPC that serves them through getEvents and getLatestLedger. *)
(* The RPC is outside the repository; what is modelled is what the callers *)
(* rely on.  Events come oldest first, a page holds at most Limit of them, *)
(* only closed ledgers are visible, and a start ledger that is older than  *)
(* the retention window or not yet closed is refused with an error.        *)
(***************************************************************************)
EXTENDS Naturals, Sequences

CONSTANTS
    Chains,     \* the event histories considered; one is chosen initially
    Bodies,     \* what an event may carry, as its decoder returns it
    Limit,      \* the "limit" of a getEvents request
    Retention,  \* how many of the latest ledgers the RPC still serves
    MaxEvents,  \* bound: the longest history considered
    MaxLedger   \* bound: the tip stops here

VARIABLES
    chain,      \* the whole history of the contract, past and future
    tip         \* the latest closed ledger

feedVars == <<chain, tip>>

Ledgers == 1 .. MaxLedger

(* An event history lists events in the order of their ledgers. *)
IsFeed(c) ==
    /\ c \in Seq([ledger : Ledgers, body : Bodies])
    /\ \A i, j \in 1 .. Len(c) : i <= j => c[i].ledger <= c[j].ledger

ASSUME FeedAssumption ==
    /\ Limit \in Nat \ {0}
    /\ Retention \in Nat \ {0}
    /\ MaxLedger \in Nat \ {0}
    /\ MaxEvents \in Nat
    /\ \A c \in Chains : IsFeed(c) /\ Len(c) <= MaxEvents

-----------------------------------------------------------------------------

Positions == 1 .. Len(chain)

Visible(i) == chain[i].ledger <= tip

(* getEvents accepts a start ledger it has closed and still retains. *)
Serves(start) == start <= tip /\ tip < start + Retention

(***************************************************************************)
(* The page (lo, hi] is the answer to a request from ledger start: it      *)
(* begins with the first event at or after start, and ends at the tip or   *)
(* after Limit events, wherever in a ledger that falls.                    *)
(***************************************************************************)
IsPage(lo, hi, start) ==
    /\ lo <= hi
    /\ hi <= lo + Limit
    /\ \A i \in Positions :
        /\ i <= lo <=> chain[i].ledger < start
        /\ i \in lo + 1 .. hi => Visible(i)
    /\ \/ hi = lo + Limit
       \/ \A i \in Positions : i > hi => ~Visible(i)

(***************************************************************************)
(* A history whose ledgers no full page cuts in two: wherever a page       *)
(* starts, if it ends after Limit events then the ledger ends there too.   *)
(***************************************************************************)
IsAligned(c) ==
    \A lo \in 0 .. Len(c) :
        lo + Limit < Len(c) /\ (lo = 0 \/ c[lo].ledger < c[lo + 1].ledger)
            => c[lo + Limit].ledger < c[lo + Limit + 1].ledger

-----------------------------------------------------------------------------

FeedInit ==
    /\ chain \in Chains
    /\ tip = 1

(* The network closes a ledger, and the events in it become visible. *)
CloseLedger ==
    /\ tip < MaxLedger
    /\ tip' = tip + 1
    /\ UNCHANGED chain
=============================================================================
