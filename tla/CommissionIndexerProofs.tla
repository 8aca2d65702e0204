---------------------- MODULE CommissionIndexerProofs ----------------------
(***************************************************************************)
(* Theorems about the commission indexer, its fulfil route, its WebSocket  *)
(* channel and the walk of its list, for every history of events.          *)
(***************************************************************************)
EXTENDS CommissionIndexer, FiniteSetTheorems, SequenceTheorems,
        WellFoundedInduction, TLAPS

(***************************************************************************)
(* At most one poll is in flight: what the 5 s interval gives as long as   *)
(* the RPC answers within it.  Two polls that overlap may apply their      *)
(* pages in either order; what is proved without this holds even then.     *)
(***************************************************************************)
PollsNeverOverlap == \A p, q \in Polls : p = q

-----------------------------------------------------------------------------
(* Invariants, however polls overlap.                                      *)

(* A row was created by an event of its commission. *)
CreatedInv ==
    \A id \in Stored :
        \E i \in EventsOf(id, 0, Len(chain)) : chain[i].ledger = store[id].createdLedger

(* What was in the map when a client came is still there. *)
ToldInv ==
    /\ ToldOnce
    /\ \A s \in Sockets : socket[s] = "open" => known[s] \subseteq Stored

(* How many rows come before this one in the list. *)
Rank(id) == Cardinality({j \in Stored : Before(j, id)})

(* A row the walk still owes is behind the pages it has seen. *)
WalkInv ==
    /\ walk.page = 0 => walk.owed = {}
    /\ \A id \in walk.owed :
        /\ id \in Stored
        /\ id \notin walk.listed => Rank(id) >= walk.page * PageSize

CommissionInv == TypeOK /\ CreatedInv /\ ToldInv /\ WalkInv

-----------------------------------------------------------------------------
(* Invariants as long as polls do not overlap.                             *)

(* A poll was sent with the cursor that its answer will replace. *)
OrderInv ==
    /\ \A q \in Polls :
        /\ poll[q].at \in {"tip", "ledgerPage"} => cursor = Unset
        /\ poll[q].at = "cursorPage" => cursor # Unset /\ poll[q].lo = cursor
        /\ poll[q].at = "answered" =>
            poll[q].lo <= poll[q].hi /\ (cursor = Unset \/ poll[q].lo = cursor)
    /\ \A id \in Ids :
        /\ cursor = Unset => store[id] = NoRow
        /\ store[id] = NoRow => fulfilments[id] = 0

(* The events of a commission that leave it unfulfilled. *)
Reopenings(id) ==
    {i \in EventsOf(id, 0, cursor) : chain[i].body.kind # "fulfilled"}

(* A row is of the last event up to the cursor, or fulfilled ahead of it. *)
RowsInv ==
    \A id \in Stored :
        /\ EventsOf(id, 0, cursor) # {}
        /\ \/ store[id].state = StateOnChain(id)
           \/ store[id].state = "fulfilled" /\ fulfilments[id] > 0
        /\ fulfilments[id] + (IF store[id].state # "fulfilled" THEN 1 ELSE 0)
            <= Cardinality(Reopenings(id))

SerialInv == CommissionInv /\ OrderInv /\ RowsInv

-----------------------------------------------------------------------------
(* Sets of positions have a first and a last element.                      *)

LEMMA LeastOf ==
    ASSUME NEW S \in SUBSET Nat, S # {}
    PROVE  \E m \in S : \A n \in S : m <= n
  <1> DEFINE R == OpToRel(<, Nat)
  <1>1. IsWellFoundedOn(R, Nat)
    BY NatLessThanWellFounded
  <1>2. PICK m \in S : \A n \in S : ~(<<n, m>> \in R)
    <2> HIDE DEF R
    <2> QED
      BY <1>1, WFMin
  <1>3. \A n \in S : ~(n < m)
    BY <1>2 DEF OpToRel
  <1> QED
    BY <1>3

LEMMA MinOf ==
    ASSUME NEW S \in SUBSET Nat, S # {}
    PROVE  Min(S) \in S /\ \A i \in S : Min(S) <= i
  BY LeastOf DEF Min

LEMMA MaxOf ==
    ASSUME NEW n \in Nat, NEW S \in SUBSET (0 .. n), S # {}
    PROVE  Max(S) \in S /\ \A i \in S : i <= Max(S)
  <1> DEFINE T == {n - i : i \in S}
  <1>1. T \in SUBSET Nat /\ T # {}
    <2>1. \A i \in S : n - i \in Nat
      OBVIOUS
    <2> QED
      BY <2>1
  <1>2. PICK m \in T : \A k \in T : m <= k
    <2> HIDE DEF T
    <2> QED
      BY <1>1, LeastOf
  <1>3. n - m \in S /\ \A i \in S : i <= n - m
    BY <1>2
  <1>4. \E x \in S : \A y \in S : x >= y
    BY <1>3
  <1> QED
    BY <1>4 DEF Max

-----------------------------------------------------------------------------
(* The history: its events are typed and ordered by ledger.                *)

LEMMA HistoryType ==
    ASSUME chain \in Chains
    PROVE  /\ Len(chain) \in Nat /\ Len(chain) <= MaxEvents /\ MaxEvents \in Nat
           /\ \A i \in Positions :
                chain[i].ledger \in Ledgers /\ chain[i].body \in CommissionBodies
           /\ \A i, j \in Positions : i <= j => chain[i].ledger <= chain[j].ledger
  <1>1. IsFeed(chain) /\ Len(chain) <= MaxEvents /\ MaxEvents \in Nat
    BY FeedAssumption
  <1> DEFINE Event == [ledger : Ledgers, body : Bodies]
  <1>2. chain \in Seq(Event)
    BY <1>1 DEF IsFeed
  <1>3. ASSUME NEW i \in Positions PROVE chain[i] \in Event
    <2> HIDE DEF Event
    <2> QED
      BY <1>2, ElementOfSeq DEF Positions
  <1> QED
    BY <1>1, <1>2, <1>3, CommissionAssumption DEF IsFeed, Positions

(* The events of a commission are positions of the history. *)
LEMMA EventsType ==
    ASSUME chain \in Chains, NEW id \in Ids, NEW lo \in Nat, NEW hi \in 0 .. Len(chain)
    PROVE  /\ EventsOf(id, lo, hi) \subseteq Positions
           /\ EventsOf(id, lo, hi) \in SUBSET (0 .. Len(chain))
           /\ IsFiniteSet(EventsOf(id, lo, hi))
           /\ \A i \in EventsOf(id, lo, hi) : chain[i].ledger \in Ledgers
           /\ \A i : i \in EventsOf(id, lo, hi) <=>
                /\ i \in Positions /\ lo < i /\ i <= hi
                /\ chain[i].body.kind # "other" /\ chain[i].body.id = id
  <1>1. Len(chain) \in Nat
    BY HistoryType
  <1>2. /\ EventsOf(id, lo, hi) \in SUBSET (0 .. Len(chain))
        /\ EventsOf(id, lo, hi) \subseteq Positions
    BY <1>1 DEF EventsOf, Positions
  <1>3. IsFiniteSet(EventsOf(id, lo, hi))
    <2>1. IsFiniteSet(0 .. Len(chain))
      BY <1>1, FS_Interval
    <2> QED
      BY <1>2, <2>1, FS_Subset
  <1> QED
    BY <1>1, <1>2, <1>3, HistoryType DEF EventsOf, Positions

LEMMA StateType ==
    ASSUME chain \in Chains, NEW id \in Ids, NEW lo \in Nat, NEW hi \in 0 .. Len(chain),
           NEW i \in EventsOf(id, lo, hi)
    PROVE  StateOf(chain[i].body.kind) \in States
  BY EventsType, HistoryType DEF StateOf, CommissionBodies, Kinds, States

(* A page leaves a row as it was or makes it anew from its events. *)
LEMMA RowAfterType ==
    ASSUME chain \in Chains, store \in [Ids -> Row \cup {NoRow}],
           NEW id \in Ids, NEW lo \in Nat, NEW hi \in 0 .. Len(chain)
    PROVE  /\ RowAfter(id, lo, hi) \in Row \cup {NoRow}
           /\ EventsOf(id, lo, hi) = {} => RowAfter(id, lo, hi) = store[id]
           /\ store[id] # NoRow => /\ RowAfter(id, lo, hi) # NoRow
                                   /\ RowAfter(id, lo, hi).createdLedger = store[id].createdLedger
           /\ EventsOf(id, lo, hi) # {} =>
                LET E == EventsOf(id, lo, hi)
                IN  /\ RowAfter(id, lo, hi) \in Row
                    /\ RowAfter(id, lo, hi) # NoRow
                    /\ RowAfter(id, lo, hi).state = StateOf(chain[Max(E)].body.kind)
                    /\ RowAfter(id, lo, hi).updatedLedger = chain[Max(E)].ledger
                    /\ store[id] = NoRow =>
                        RowAfter(id, lo, hi).createdLedger = chain[Min(E)].ledger
  <1> DEFINE E == EventsOf(id, lo, hi)
  <1>1. CASE E = {}
    BY <1>1 DEF RowAfter
  <1>2. CASE E # {}
    <2>1. Max(E) \in E /\ Min(E) \in E
      <3>1. Len(chain) \in Nat /\ E \in SUBSET (0 .. Len(chain)) /\ E \in SUBSET Nat
        BY EventsType, HistoryType
      <3> HIDE DEF E
      <3> QED
        BY <1>2, <3>1, MaxOf, MinOf
    <2> DEFINE st == StateOf(chain[Max(E)].body.kind)
               new == chain[Max(E)].ledger
               old == IF store[id] = NoRow THEN chain[Min(E)].ledger ELSE store[id].createdLedger
    <2>2. st \in States
      BY <2>1, StateType
    <2>3. new \in Ledgers /\ old \in Ledgers
      BY <2>1, EventsType DEF Row
    <2>4. RowAfter(id, lo, hi) = [state |-> st, createdLedger |-> old, updatedLedger |-> new]
      BY <1>2 DEF RowAfter
    <2> HIDE DEF E, st, new, old
    <2>5. RowAfter(id, lo, hi) \in Row
      BY <2>2, <2>3, <2>4 DEF Row
    <2>6. NoRow \notin Row
      BY CommissionAssumption
    <2> QED
      BY <1>2, <2>4, <2>5, <2>6 DEF E, st, new, old
  <1> QED
    BY <1>1, <1>2


-----------------------------------------------------------------------------
(* What the steps that change the map do to it.                            *)

LEMMA PageApplied ==
    ASSUME TypeOK, NEW q \in Polls, ReceivePage(q)
    PROVE  /\ poll[q].at = "answered"
           /\ poll[q].lo \in 0 .. Len(chain) /\ poll[q].lo \in Nat
           /\ poll[q].hi \in 0 .. Len(chain) /\ poll[q].hi \in Nat
           /\ chain \in Chains /\ chain' = chain
           /\ store \in [Ids -> Row \cup {NoRow}]
           /\ store' \in [Ids -> Row \cup {NoRow}]
           /\ \A id \in Ids : store'[id] = RowAfter(id, poll[q].lo, poll[q].hi)
           /\ cursor' = poll[q].hi
  <1>1. /\ chain \in Chains /\ store \in [Ids -> Row \cup {NoRow}]
        /\ poll[q].lo \in 0 .. Len(chain) /\ poll[q].hi \in 0 .. Len(chain)
    BY DEF TypeOK, Flight
  <1>2. Len(chain) \in Nat
    BY <1>1, HistoryType
  <1>3. \A id \in Ids : RowAfter(id, poll[q].lo, poll[q].hi) \in Row \cup {NoRow}
    BY <1>1, <1>2, RowAfterType
  <1>4. /\ store' = [id \in Ids |-> RowAfter(id, poll[q].lo, poll[q].hi)]
        /\ poll[q].at = "answered" /\ chain' = chain /\ cursor' = poll[q].hi
    BY DEF ReceivePage, Upsert, CursorAfter, feedVars
  <1> QED
    BY <1>1, <1>2, <1>3, <1>4

LEMMA FulfilApplied ==
    ASSUME TypeOK, NEW r \in Requests, NEW id \in Ids, Fulfil(r, id)
    PROVE  /\ chain' = chain /\ cursor' = cursor /\ poll' = poll
           /\ store[id] \in Row /\ store[id] # NoRow /\ store[id].state # "fulfilled"
           /\ store'[id] \in Row /\ store'[id] # NoRow /\ store'[id].state = "fulfilled"
           /\ store'[id].createdLedger = store[id].createdLedger
           /\ store'[id].updatedLedger = store[id].updatedLedger
           /\ fulfilments'[id] = fulfilments[id] + 1
           /\ \A j \in Ids \ {id} :
                store'[j] = store[j] /\ fulfilments'[j] = fulfilments[j]
           /\ store' \in [Ids -> Row \cup {NoRow}]
  <1>1. /\ store[id] \in Row /\ store[id] # NoRow /\ store[id].state # "fulfilled"
        /\ store' = [store EXCEPT ![id].state = "fulfilled"]
        /\ fulfilments' = [fulfilments EXCEPT ![id] = @ + 1]
        /\ chain' = chain /\ cursor' = cursor /\ poll' = poll
    BY DEF TypeOK, Fulfil, Fulfillable, Upsert, feedVars
  <1> DEFINE row == [store[id] EXCEPT !.state = "fulfilled"]
  <1>2. /\ row \in Row /\ row.state = "fulfilled"
        /\ row.createdLedger = store[id].createdLedger
        /\ row.updatedLedger = store[id].updatedLedger
    BY <1>1 DEF Row, States
  <1>3. store' = [store EXCEPT ![id] = row]
    BY <1>1
  <1> HIDE DEF row
  <1>4. NoRow \notin Row
    BY CommissionAssumption
  <1> QED
    BY ZenonT(60), <1>1, <1>2, <1>3, <1>4 DEF TypeOK

(* Only a restart takes a commission out of the map or moves it in it.     *)
LEMMA RowsStay ==
    ASSUME TypeOK, [Next]_vars, ~Restart
    PROVE  /\ chain' = chain
           /\ \A id \in Stored :
                id \in Stored' /\ store'[id].createdLedger = store[id].createdLedger
  <1>1. ASSUME NEW q \in Polls, ReceivePage(q)
        PROVE  \A id \in Stored :
                id \in Stored' /\ store'[id].createdLedger = store[id].createdLedger
    BY <1>1, PageApplied, RowAfterType DEF Stored
  <1>2. ASSUME NEW r \in Requests, NEW id \in Ids, Fulfil(r, id)
        PROVE  \A j \in Stored :
                j \in Stored' /\ store'[j].createdLedger = store[j].createdLedger
    BY <1>2, FulfilApplied DEF Stored
  <1>3. chain' = chain
    BY DEF Next, PollStep, vars, feedVars, ChainAdvances, CloseLedger, ListPage, StartPoll,
       GetLatestLedger, AnswerLedgerPage, AnswerCursorPage, ReceivePage, PollFails,
       EmailDone, Fulfil, FulfilRejected, Connect, StartClose, Closed
  <1>4. \/ store' = store
        \/ \E q \in Polls : ReceivePage(q)
        \/ \E r \in Requests, id \in Ids : Fulfil(r, id)
    BY DEF Next, PollStep, vars, pollVars, ChainAdvances, ListPage, StartPoll,
       GetLatestLedger, AnswerLedgerPage, AnswerCursorPage, PollFails,
       EmailDone, FulfilRejected, Connect, StartClose, Closed
  <1> QED
    BY <1>1, <1>2, <1>3, <1>4 DEF Stored

(* A row's place in the list is that of its first event in its ledger. *)
LEMMA FirstEventType ==
    ASSUME TypeOK, CreatedInv, NEW id \in Stored
    PROVE  FirstEvent(id) \in Nat /\ store[id].createdLedger \in Nat
  <1>1. Len(chain) \in Nat /\ chain \in Chains /\ id \in Ids
    BY HistoryType DEF TypeOK, Stored
  <1> DEFINE D == {i \in EventsOf(id, 0, Len(chain)) : chain[i].ledger = store[id].createdLedger}
  <1>2. D # {}
    BY DEF CreatedInv
  <1>3. D \in SUBSET Nat
    <2>1. EventsOf(id, 0, Len(chain)) \in SUBSET (0 .. Len(chain))
      BY <1>1, EventsType
    <2> QED
      BY <1>1, <2>1
  <1>4. Min(D) \in Nat
    <2> HIDE DEF D
    <2> QED
      BY <1>2, <1>3, MinOf
  <1>5. store[id].createdLedger \in Nat
    BY <1>2, <1>1, EventsType, HistoryType, FeedAssumption DEF Ledgers
  <1> QED
    BY <1>4, <1>5 DEF FirstEvent

(* Sets of commissions can be counted. *)
LEMMA Counted ==
    ASSUME NEW A \in SUBSET Ids, NEW B \in SUBSET A
    PROVE  /\ IsFiniteSet(A) /\ Cardinality(A) \in Nat
           /\ Cardinality(B) \in Nat /\ Cardinality(B) <= Cardinality(A)
           /\ Cardinality(B) = Cardinality(A) => B = A
  <1>1. IsFiniteSet(A)
    BY CommissionAssumption, FS_Subset
  <1> QED
    BY <1>1, FS_Subset, FS_CardinalityType

LEMMA RankType ==
    ASSUME TypeOK, CreatedInv, NEW id \in Stored
    PROVE  /\ Rank(id) \in Nat /\ Cardinality(Stored) \in Nat
           /\ Rank(id) < Cardinality(Stored)
  <1> DEFINE B == {j \in Stored : Before(j, id)}
  <1>1. ~Before(id, id)
    BY FirstEventType DEF Before
  <1>2. Stored \in SUBSET Ids /\ B \in SUBSET Stored /\ B # Stored
    BY <1>1 DEF Stored
  <1> HIDE DEF B
  <1>3. /\ Cardinality(B) \in Nat /\ Cardinality(Stored) \in Nat
        /\ Cardinality(B) <= Cardinality(Stored) /\ Cardinality(B) # Cardinality(Stored)
    BY <1>2, Counted
  <1>4. Cardinality(B) < Cardinality(Stored)
    BY <1>3
  <1> QED
    BY <1>3, <1>4 DEF Rank, B

(* New commissions only push rows back. *)
LEMMA RankGrows ==
    ASSUME TypeOK, chain' = chain,
           \A j \in Stored :
                j \in Stored' /\ store'[j].createdLedger = store[j].createdLedger,
           NEW id \in Stored
    PROVE  Rank(id) <= Rank(id)' /\ Rank(id) \in Nat /\ Rank(id)' \in Nat
  <1> DEFINE B == {j \in Stored : Before(j, id)}
             C == {j \in Stored' : Before(j, id)'}
  <1>1. \A j \in Stored : FirstEvent(j)' = FirstEvent(j)
    BY DEF FirstEvent, EventsOf
  <1>2. \A j \in Stored : Before(j, id)' <=> Before(j, id)
    BY <1>1 DEF Before
  <1>3. B \in SUBSET C
    BY <1>2
  <1>4. C \in SUBSET Ids
    BY DEF Stored
  <1>5. Rank(id)' = Cardinality(C)
    BY DEF Rank
  <1> HIDE DEF B, C
  <1>6. Cardinality(B) <= Cardinality(C) /\ Cardinality(B) \in Nat /\ Cardinality(C) \in Nat
    BY <1>3, <1>4, Counted
  <1> QED
    BY <1>5, <1>6 DEF Rank, B

(* A page of the list holds the rows of its ranks. *)
LEMMA ListedWithin ==
    ASSUME NEW n \in Nat, NEW x \in Stored
    PROVE  x \in ListCommissions(n) <=> Rank(x) \in (n - 1) * PageSize .. n * PageSize - 1
  BY DEF ListCommissions, Rank

(***************************************************************************)
(* After a page, what a walk still owes lies behind it; after the last one *)
(* nothing does.                                                           *)
(***************************************************************************)
LEMMA PageWalked ==
    ASSUME TypeOK, CreatedInv, WalkInv, NEW id,
           IF walk.page = 0 THEN id \in Stored ELSE id \in walk.owed,
           id \notin walk.listed \cup ListCommissions(walk.page + 1)
    PROVE  /\ id \in Stored
           /\ Rank(id) >= (walk.page + 1) * PageSize
           /\ (walk.page + 1) * PageSize < Cardinality(Stored)
  <1> DEFINE p == walk.page
  <1>1. id \in Stored
    BY DEF WalkInv
  <1>2. p \in Nat /\ PageSize \in Nat \ {0}
    BY CommissionAssumption DEF TypeOK
  <1>3. p * PageSize \in Nat /\ (p + 1) * PageSize = p * PageSize + PageSize
    BY <1>2
  <1>4. Rank(id) >= p * PageSize
    <2>1. CASE p = 0
      BY <1>1, <1>2, <2>1, RankType
    <2>2. CASE p # 0
      BY <2>2 DEF WalkInv
    <2> QED
      BY <2>1, <2>2
  <1>5. Rank(id) \in Nat /\ Rank(id) < Cardinality(Stored) /\ Cardinality(Stored) \in Nat
    BY <1>1, RankType
  <1>6. Rank(id) \notin p * PageSize .. (p + 1) * PageSize - 1
    <2>1. p + 1 - 1 = p
      BY <1>2
    <2>2. id \notin ListCommissions(p + 1)
      OBVIOUS
    <2> HIDE DEF p
    <2>3. Rank(id) \notin (p + 1 - 1) * PageSize .. (p + 1) * PageSize - 1
      BY <1>1, <1>2, <2>2, ListedWithin
    <2> QED
      BY <2>1, <2>3
  <1> HIDE DEF p
  <1>7. Rank(id) >= (p + 1) * PageSize /\ (p + 1) * PageSize < Cardinality(Stored)
    <2> DEFINE m == p * PageSize  n == (p + 1) * PageSize
    <2>1. m \in Nat /\ n = m + PageSize /\ n \in Nat
      BY <1>2, <1>3
    <2>2. Rank(id) \notin m .. n - 1 /\ Rank(id) >= m
      BY <1>4, <1>6
    <2> HIDE DEF m, n
    <2>3. Rank(id) >= n /\ n < Cardinality(Stored)
      BY <2>1, <2>2, <1>5
    <2> QED
      BY <2>3 DEF n
  <1> QED
    BY <1>1, <1>7 DEF p

(* A page that goes on after an event ends at an event of the history. *)
LEMMA CursorPageType ==
    ASSUME TypeOK, NEW q \in Polls, AnswerCursorPage(q)
    PROVE  \E hi \in 0 .. Len(chain) :
                /\ poll[q].lo <= hi
                /\ poll' = [poll EXCEPT ![q] = [@ EXCEPT !.at = "answered", !.hi = hi]]
  <1> DEFINE lo == poll[q].lo
             rest == {i \in Positions : i > lo /\ Visible(i)}
             n == IF Cardinality(rest) > Limit THEN Limit ELSE Cardinality(rest)
  <1>1. Len(chain) \in Nat /\ lo \in 0 .. Len(chain) /\ Limit \in Nat
    BY HistoryType, FeedAssumption DEF TypeOK, Flight
  <1>2. poll' = [poll EXCEPT ![q] = [@ EXCEPT !.at = "answered", !.hi = lo + n]]
    BY DEF AnswerCursorPage, TypeOK
  <1>3. rest \in SUBSET (lo + 1 .. Len(chain))
    BY <1>1 DEF Positions
  <1>4. /\ IsFiniteSet(lo + 1 .. Len(chain))
        /\ Cardinality(lo + 1 .. Len(chain)) = Len(chain) - lo
    <2>1. lo + 1 \in Int /\ Len(chain) \in Int
      BY <1>1
    <2> HIDE DEF lo
    <2>2. IsFiniteSet(lo + 1 .. Len(chain))
          /\ Cardinality(lo + 1 .. Len(chain))
                = IF lo + 1 > Len(chain) THEN 0 ELSE Len(chain) - (lo + 1) + 1
      BY <2>1, FS_Interval
    <2> QED
      BY <1>1, <2>2
  <1>5. Cardinality(rest) \in Nat /\ Cardinality(rest) <= Len(chain) - lo
    <2> HIDE DEF rest, lo
    <2> QED
      BY <1>3, <1>4, FS_Subset, FS_CardinalityType
  <1>6. n \in Nat /\ n <= Len(chain) - lo
    BY <1>1, <1>5
  <1> HIDE DEF n, lo
  <1>7. lo + n \in 0 .. Len(chain) /\ lo <= lo + n
    BY <1>1, <1>6
  <1> QED
    BY <1>2, <1>7 DEF lo

(* Types. *)
LEMMA TypeStep ==
    ASSUME TypeOK, [Next]_vars
    PROVE  TypeOK'
<1> USE FeedAssumption, HistoryType, CommissionAssumption
<1>0. CASE UNCHANGED vars
  BY <1>0 DEF vars, feedVars, pollVars, clientVars, TypeOK, Flight
<1>1. CASE ChainAdvances
  <2>1. tip' \in Ledgers
    BY <1>1, FeedAssumption DEF ChainAdvances, CloseLedger, Ledgers, TypeOK
  <2> QED
    BY <1>1, <2>1 DEF ChainAdvances, CloseLedger, pollVars, clientVars, TypeOK, Flight
<1>2. CASE Restart
  BY <1>2 DEF Restart, Idle, NoWalk, feedVars, pollVars, clientVars, TypeOK, Flight
<1>3. CASE ListPage
  <2>1. NoWalk \in [page : Nat, owed : SUBSET Ids, listed : SUBSET Ids]
    BY DEF NoWalk
  <2>2. Stored \in SUBSET Ids /\ ListCommissions(walk.page + 1) \in SUBSET Ids
    BY DEF Stored, ListCommissions
  <2>3. walk' \in [page : Nat, owed : SUBSET Ids, listed : SUBSET Ids]
    BY <1>3, <2>1, <2>2 DEF ListPage, TypeOK
  <2> QED
    BY <1>3, <2>3 DEF ListPage, feedVars, pollVars, clientVars, TypeOK, Flight
<1>4. ASSUME NEW q \in Polls, StartPoll(q) PROVE TypeOK'
  <2>1. cursor # Unset => cursor \in 0 .. Len(chain)
    BY DEF TypeOK
  <2>2. Idle \in Flight
    BY FeedAssumption, HistoryType DEF Idle, Flight, TypeOK
  <2>3. /\ [Idle EXCEPT !.at = "tip"] \in Flight
        /\ cursor # Unset => [Idle EXCEPT !.at = "cursorPage", !.lo = cursor] \in Flight
    BY <2>1, <2>2 DEF Flight
  <2>4. poll' \in [Polls -> Flight]
    BY <1>4, <2>3 DEF StartPoll, TypeOK
  <2>5. Flight' = Flight
    BY <1>4 DEF StartPoll, Flight, feedVars
  <2> QED
    BY <1>4, <2>4, <2>5 DEF StartPoll, TypeOK, feedVars, pollVars, clientVars
<1>5. ASSUME NEW q \in Polls, GetLatestLedger(q) PROVE TypeOK'
  <2> DEFINE start == IF tip > Window THEN tip - Window ELSE 1
  <2>1. start \in 0 .. MaxLedger
    BY FeedAssumption, CommissionAssumption DEF TypeOK, Ledgers
  <2>2. /\ poll[q] \in Flight
        /\ poll' = [poll EXCEPT ![q] = [@ EXCEPT !.at = "ledgerPage", !.from = start]]
    BY <1>5 DEF GetLatestLedger, TypeOK
  <2> HIDE DEF start
  <2>3. \A f \in Flight : [f EXCEPT !.at = "ledgerPage", !.from = start] \in Flight
    BY <2>1 DEF Flight
  <2>4. poll' \in [Polls -> Flight]
    BY <2>2, <2>3 DEF TypeOK
  <2>5. Flight' = Flight
    BY <1>5 DEF GetLatestLedger, Flight, feedVars
  <2> QED
    BY <1>5, <2>4, <2>5 DEF GetLatestLedger, TypeOK, feedVars, pollVars, clientVars
<1>6. ASSUME NEW q \in Polls, AnswerLedgerPage(q) PROVE TypeOK'
  <2>1. PICK lo \in 0 .. Len(chain), hi \in 0 .. Len(chain) :
            poll' = [poll EXCEPT ![q].at = "answered", ![q].lo = lo, ![q].hi = hi]
    BY <1>6 DEF AnswerLedgerPage
  <2>2. /\ poll[q] \in Flight
        /\ poll' = [poll EXCEPT ![q] = [@ EXCEPT !.at = "answered", !.lo = lo, !.hi = hi]]
    BY <2>1 DEF TypeOK
  <2>3. \A f \in Flight : [f EXCEPT !.at = "answered", !.lo = lo, !.hi = hi] \in Flight
    BY DEF Flight
  <2>4. poll' \in [Polls -> Flight]
    BY <2>2, <2>3 DEF TypeOK
  <2>5. Flight' = Flight
    BY <1>6 DEF AnswerLedgerPage, Flight, feedVars
  <2> QED
    BY <1>6, <2>4, <2>5 DEF AnswerLedgerPage, TypeOK, feedVars, pollVars, clientVars
<1>7. ASSUME NEW q \in Polls, AnswerCursorPage(q) PROVE TypeOK'
  <2>1. PICK hi \in 0 .. Len(chain) :
            poll' = [poll EXCEPT ![q] = [@ EXCEPT !.at = "answered", !.hi = hi]]
    BY <1>7, CursorPageType DEF TypeOK
  <2>3. \A f \in Flight : [f EXCEPT !.at = "answered", !.hi = hi] \in Flight
    BY DEF Flight
  <2>4. poll' \in [Polls -> Flight]
    BY <2>1, <2>3 DEF TypeOK
  <2>5. Flight' = Flight
    BY <1>7 DEF AnswerCursorPage, Flight, feedVars
  <2> QED
    BY <1>7, <2>4, <2>5 DEF AnswerCursorPage, TypeOK, feedVars, pollVars, clientVars
<1>8. ASSUME NEW q \in Polls, ReceivePage(q) PROVE TypeOK'
  <2>1. store' \in [Ids -> Row \cup {NoRow}] /\ cursor' \in 0 .. Len(chain) \cup {Unset}
    BY <1>8, PageApplied
  <2>2. Idle \in Flight
    BY FeedAssumption, HistoryType DEF Idle, Flight, TypeOK
  <2>3. poll' \in [Polls -> Flight] /\ Flight' = Flight
    BY <1>8, <2>2 DEF ReceivePage, TypeOK, Flight, feedVars
  <2>4. received' \in [Sockets -> [Ids -> Nat]]
    BY <1>8 DEF ReceivePage, Upsert, Broadcast, TypeOK
  <2> QED
    BY <1>8, <2>1, <2>3, <2>4 DEF ReceivePage, TypeOK, feedVars, Unset
<1>9. ASSUME NEW q \in Polls, PollFails(q) PROVE TypeOK'
  BY <1>9 DEF PollFails, Idle, feedVars, pollVars, clientVars, TypeOK, Flight
<1>10. ASSUME NEW r \in Requests, EmailDone(r) PROVE TypeOK'
  BY <1>10 DEF EmailDone, feedVars, pollVars, clientVars, TypeOK, Flight
<1>11. ASSUME NEW r \in Requests, NEW id \in Ids, Fulfil(r, id) PROVE TypeOK'
  <2>1. store' \in [Ids -> Row \cup {NoRow}]
    BY <1>11, FulfilApplied
  <2>4. received' \in [Sockets -> [Ids -> Nat]]
    BY SMTT(30), <1>11 DEF Fulfil, Upsert, Broadcast, TypeOK
  <2>5. /\ chain' = chain /\ tip' = tip /\ cursor' = cursor /\ poll' = poll
        /\ socket' = socket /\ failures' = failures /\ restarts' = restarts
        /\ known' = known /\ walk' = walk
    BY <1>11 DEF Fulfil, feedVars
  <2>6. request' \in [Requests -> {"new", "emailing", "done"}] /\ fulfilments' \in [Ids -> Nat]
    BY <1>11 DEF Fulfil, TypeOK
  <2> QED
    BY <2>1, <2>4, <2>5, <2>6 DEF TypeOK, Unset, Flight
<1>12. ASSUME NEW r \in Requests, NEW id \in Ids, FulfilRejected(r, id) PROVE TypeOK'
  BY <1>12 DEF FulfilRejected, feedVars, pollVars, clientVars, TypeOK, Flight
<1>13. ASSUME NEW s \in Sockets, Connect(s) PROVE TypeOK'
  BY <1>13 DEF Connect, feedVars, pollVars, clientVars, TypeOK, Flight
<1>14. ASSUME NEW s \in Sockets, StartClose(s) PROVE TypeOK'
  BY <1>14 DEF StartClose, feedVars, pollVars, clientVars, TypeOK, Flight
<1>15. ASSUME NEW s \in Sockets, Closed(s) PROVE TypeOK'
  BY <1>15 DEF Closed, feedVars, pollVars, clientVars, TypeOK, Flight
<1> QED
  BY <1>0, <1>1, <1>2, <1>3, <1>4, <1>5, <1>6, <1>7, <1>8, <1>9, <1>10, <1>11, <1>12, <1>13,
     <1>14, <1>15
  DEF Next, PollStep

(* Rows stem from events. *)
LEMMA CreatedStep ==
    ASSUME TypeOK, CreatedInv, [Next]_vars
    PROVE  CreatedInv'
<1>0. CASE UNCHANGED vars
  BY <1>0 DEF vars, feedVars, pollVars, clientVars, CreatedInv, Stored, EventsOf
<1>1. CASE ChainAdvances
  BY <1>1
  DEF ChainAdvances, CloseLedger, feedVars, pollVars, clientVars, CreatedInv, Stored, EventsOf
<1>2. CASE Restart
  BY <1>2
  DEF Restart, Idle, NoWalk, feedVars, pollVars, clientVars, CreatedInv, Stored, EventsOf
<1>3. CASE ListPage
  BY <1>3 DEF ListPage, NoWalk, feedVars, pollVars, clientVars, CreatedInv, Stored, EventsOf
<1>4. ASSUME NEW q \in Polls, StartPoll(q) PROVE CreatedInv'
  BY <1>4 DEF StartPoll, Idle, feedVars, pollVars, clientVars, CreatedInv, Stored, EventsOf
<1>5. ASSUME NEW q \in Polls, GetLatestLedger(q) PROVE CreatedInv'
  BY <1>5 DEF GetLatestLedger, feedVars, pollVars, clientVars, CreatedInv, Stored, EventsOf
<1>6. ASSUME NEW q \in Polls, AnswerLedgerPage(q) PROVE CreatedInv'
  BY <1>6
  DEF AnswerLedgerPage, IsPage, feedVars, pollVars, clientVars, CreatedInv, Stored, EventsOf
<1>7. ASSUME NEW q \in Polls, AnswerCursorPage(q) PROVE CreatedInv'
  BY <1>7 DEF AnswerCursorPage, feedVars, pollVars, clientVars, CreatedInv, Stored, EventsOf
<1>8. ASSUME NEW q \in Polls, ReceivePage(q) PROVE CreatedInv'
  <2> DEFINE lo == poll[q].lo  hi == poll[q].hi
  <2>1. /\ lo \in Nat /\ hi \in 0 .. Len(chain) /\ Len(chain) \in Nat
        /\ chain \in Chains /\ chain' = chain /\ store \in [Ids -> Row \cup {NoRow}]
        /\ \A id \in Ids : store'[id] = RowAfter(id, lo, hi)
    BY <1>8, PageApplied, HistoryType
  <2> HIDE DEF lo, hi
  <2> SUFFICES ASSUME NEW id \in Ids, store'[id] # NoRow
               PROVE  \E i \in EventsOf(id, 0, Len(chain)) :
                        chain[i].ledger = store'[id].createdLedger
    BY <2>1 DEF CreatedInv, Stored, EventsOf
  <2>2. CASE store[id] # NoRow
    BY <2>1, <2>2, RowAfterType DEF CreatedInv, Stored
  <2>3. CASE store[id] = NoRow
    <3> DEFINE E == EventsOf(id, lo, hi)
    <3>0. store'[id] = RowAfter(id, lo, hi)
      BY <2>1
    <3>1. E # {} /\ store'[id].createdLedger = chain[Min(E)].ledger
      BY <2>3, <3>0 DEF RowAfter
    <3>2. E \in SUBSET Nat /\ E \subseteq EventsOf(id, 0, Len(chain))
      <4>1. E \in SUBSET (0 .. Len(chain))
        BY <2>1, EventsType
      <4>2. ASSUME NEW i \in E PROVE i \in EventsOf(id, 0, Len(chain))
        <5>1. /\ i \in Positions /\ i <= Len(chain) /\ 0 < i
              /\ chain[i].body.kind # "other" /\ chain[i].body.id = id
          BY <2>1, EventsType DEF Positions
        <5>2. 0 \in Nat /\ Len(chain) \in 0 .. Len(chain)
          BY <2>1
        <5> QED
          BY <2>1, <5>1, <5>2, EventsType
      <4> QED
        BY <2>1, <4>1, <4>2
    <3>3. Min(E) \in E
      <4> HIDE DEF E
      <4> QED
        BY <3>1, <3>2, MinOf
    <3> QED
      BY <3>1, <3>2, <3>3
  <2> QED
    BY <2>2, <2>3
<1>9. ASSUME NEW q \in Polls, PollFails(q) PROVE CreatedInv'
  BY <1>9 DEF PollFails, Idle, feedVars, pollVars, clientVars, CreatedInv, Stored, EventsOf
<1>10. ASSUME NEW r \in Requests, EmailDone(r) PROVE CreatedInv'
  BY <1>10 DEF EmailDone, feedVars, pollVars, clientVars, CreatedInv, Stored, EventsOf
<1>11. ASSUME NEW r \in Requests, NEW id \in Ids, Fulfil(r, id) PROVE CreatedInv'
  BY <1>11
  DEF Fulfil, Upsert, Broadcast, Fulfillable, feedVars, pollVars, clientVars, CreatedInv,
      Stored, EventsOf
<1>12. ASSUME NEW r \in Requests, NEW id \in Ids, FulfilRejected(r, id) PROVE CreatedInv'
  BY <1>12 DEF FulfilRejected, feedVars, pollVars, clientVars, CreatedInv, Stored, EventsOf
<1>13. ASSUME NEW s \in Sockets, Connect(s) PROVE CreatedInv'
  BY <1>13 DEF Connect, feedVars, pollVars, clientVars, CreatedInv, Stored, EventsOf
<1>14. ASSUME NEW s \in Sockets, StartClose(s) PROVE CreatedInv'
  BY <1>14 DEF StartClose, feedVars, pollVars, clientVars, CreatedInv, Stored, EventsOf
<1>15. ASSUME NEW s \in Sockets, Closed(s) PROVE CreatedInv'
  BY <1>15 DEF Closed, feedVars, pollVars, clientVars, CreatedInv, Stored, EventsOf
<1> QED
  BY <1>0, <1>1, <1>2, <1>3, <1>4, <1>5, <1>6, <1>7, <1>8, <1>9, <1>10, <1>11, <1>12, <1>13,
     <1>14, <1>15
  DEF Next, PollStep

(* Clients are told once. *)
LEMMA ToldStep ==
    ASSUME TypeOK, ToldInv, [Next]_vars
    PROVE  ToldInv'
<1>0. CASE UNCHANGED vars
  BY <1>0 DEF vars, feedVars, pollVars, clientVars, TypeOK, ToldInv, ToldOnce, Stored
<1>1. CASE ChainAdvances
  BY <1>1
  DEF ChainAdvances, CloseLedger, feedVars, pollVars, clientVars, TypeOK, ToldInv, ToldOnce,
      Stored
<1>2. CASE Restart
  BY <1>2
  DEF Restart, Idle, NoWalk, feedVars, pollVars, clientVars, TypeOK, ToldInv, ToldOnce, Stored
<1>3. CASE ListPage
  BY <1>3
  DEF ListPage, NoWalk, feedVars, pollVars, clientVars, TypeOK, ToldInv, ToldOnce, Stored
<1>4. ASSUME NEW q \in Polls, StartPoll(q) PROVE ToldInv'
  BY <1>4 DEF StartPoll, Idle, feedVars, pollVars, clientVars, TypeOK, ToldInv, ToldOnce, Stored
<1>5. ASSUME NEW q \in Polls, GetLatestLedger(q) PROVE ToldInv'
  BY <1>5 DEF GetLatestLedger, feedVars, pollVars, clientVars, TypeOK, ToldInv, ToldOnce, Stored
<1>6. ASSUME NEW q \in Polls, AnswerLedgerPage(q) PROVE ToldInv'
  BY <1>6
  DEF AnswerLedgerPage, IsPage, feedVars, pollVars, clientVars, TypeOK, ToldInv, ToldOnce,
      Stored
<1>7. ASSUME NEW q \in Polls, AnswerCursorPage(q) PROVE ToldInv'
  BY <1>7
  DEF AnswerCursorPage, feedVars, pollVars, clientVars, TypeOK, ToldInv, ToldOnce, Stored
<1>8. ASSUME NEW q \in Polls, ReceivePage(q) PROVE ToldInv'
  <2>1. /\ \A id \in Ids : store[id] # NoRow => store'[id] # NoRow
        /\ \A s \in Sockets, id \in Ids :
            received'[s][id] = received[s][id]
                + (IF socket[s] = "open" /\ store[id] = NoRow /\ store'[id] # NoRow THEN 1 ELSE 0)
    <3>1. \A id \in Ids : store[id] # NoRow => store'[id] # NoRow
      BY <1>8, PageApplied, RowAfterType
    <3> QED
      BY <1>8, <3>1 DEF ReceivePage, Upsert, Broadcast
  <2>2. socket' = socket /\ known' = known
    BY <1>8 DEF ReceivePage
  <2> QED
    BY <2>1, <2>2 DEF TypeOK, ToldInv, ToldOnce, Stored
<1>9. ASSUME NEW q \in Polls, PollFails(q) PROVE ToldInv'
  BY <1>9 DEF PollFails, Idle, feedVars, pollVars, clientVars, TypeOK, ToldInv, ToldOnce, Stored
<1>10. ASSUME NEW r \in Requests, EmailDone(r) PROVE ToldInv'
  BY <1>10 DEF EmailDone, feedVars, pollVars, clientVars, TypeOK, ToldInv, ToldOnce, Stored
<1>11. ASSUME NEW r \in Requests, NEW id \in Ids, Fulfil(r, id) PROVE ToldInv'
  <2>1. /\ \A j \in Ids : store[j] # NoRow <=> store'[j] # NoRow
        /\ \A s \in Sockets, j \in Ids :
            received'[s][j] = received[s][j]
                + (IF socket[s] = "open" /\ store[j] = NoRow /\ store'[j] # NoRow THEN 1 ELSE 0)
    <3>1. \A j \in Ids : store[j] # NoRow <=> store'[j] # NoRow
      BY <1>11, FulfilApplied
    <3> QED
      BY <1>11, <3>1 DEF Fulfil, Upsert, Broadcast
  <2>2. socket' = socket /\ known' = known
    BY <1>11 DEF Fulfil
  <2> QED
    BY <2>1, <2>2 DEF TypeOK, ToldInv, ToldOnce, Stored
<1>12. ASSUME NEW r \in Requests, NEW id \in Ids, FulfilRejected(r, id) PROVE ToldInv'
  BY <1>12 DEF FulfilRejected, feedVars, pollVars, clientVars, TypeOK, ToldInv, ToldOnce, Stored
<1>13. ASSUME NEW s \in Sockets, Connect(s) PROVE ToldInv'
  BY <1>13 DEF Connect, feedVars, pollVars, clientVars, TypeOK, ToldInv, ToldOnce, Stored
<1>14. ASSUME NEW s \in Sockets, StartClose(s) PROVE ToldInv'
  BY <1>14 DEF StartClose, feedVars, pollVars, clientVars, TypeOK, ToldInv, ToldOnce, Stored
<1>15. ASSUME NEW s \in Sockets, Closed(s) PROVE ToldInv'
  BY <1>15 DEF Closed, feedVars, pollVars, clientVars, TypeOK, ToldInv, ToldOnce, Stored
<1> QED
  BY <1>0, <1>1, <1>2, <1>3, <1>4, <1>5, <1>6, <1>7, <1>8, <1>9, <1>10, <1>11, <1>12, <1>13,
     <1>14, <1>15
  DEF Next, PollStep

(* Polls carry the cursor. *)
LEMMA OrderStep ==
    ASSUME PollsNeverOverlap, TypeOK, OrderInv, [Next]_vars
    PROVE  OrderInv'
<1>0. CASE UNCHANGED vars
  BY <1>0 DEF vars, feedVars, pollVars, clientVars, PollsNeverOverlap, TypeOK, OrderInv, Flight
<1>1. CASE ChainAdvances
  BY <1>1
  DEF ChainAdvances, CloseLedger, feedVars, pollVars, clientVars, PollsNeverOverlap, TypeOK,
      OrderInv, Flight
<1>2. CASE Restart
  BY <1>2
  DEF Restart, Idle, NoWalk, feedVars, pollVars, clientVars, PollsNeverOverlap, TypeOK,
      OrderInv, Flight
<1>3. CASE ListPage
  BY <1>3
  DEF ListPage, NoWalk, feedVars, pollVars, clientVars, PollsNeverOverlap, TypeOK, OrderInv,
      Flight
<1>4. ASSUME NEW q \in Polls, StartPoll(q) PROVE OrderInv'
  BY <1>4
  DEF StartPoll, Idle, feedVars, pollVars, clientVars, PollsNeverOverlap, TypeOK, OrderInv,
      Flight
<1>5. ASSUME NEW q \in Polls, GetLatestLedger(q) PROVE OrderInv'
  BY <1>5
  DEF GetLatestLedger, feedVars, pollVars, clientVars, PollsNeverOverlap, TypeOK, OrderInv,
      Flight
<1>6. ASSUME NEW q \in Polls, AnswerLedgerPage(q) PROVE OrderInv'
  BY <1>6
  DEF AnswerLedgerPage, IsPage, feedVars, pollVars, clientVars, PollsNeverOverlap, TypeOK,
      OrderInv, Flight
<1>7. ASSUME NEW q \in Polls, AnswerCursorPage(q) PROVE OrderInv'
  <2>1. PICK hi \in 0 .. Len(chain) :
            /\ poll[q].lo <= hi
            /\ poll' = [poll EXCEPT ![q] = [@ EXCEPT !.at = "answered", !.hi = hi]]
    BY <1>7, CursorPageType
  <2>2. /\ poll[q].at = "cursorPage" /\ poll[q] \in Flight /\ poll \in [Polls -> Flight]
        /\ UNCHANGED <<cursor, store, fulfilments>>
    BY <1>7 DEF AnswerCursorPage, TypeOK
  <2>3. \A f \in Flight : /\ [f EXCEPT !.at = "answered", !.hi = hi].at = "answered"
                          /\ [f EXCEPT !.at = "answered", !.hi = hi].lo = f.lo
                          /\ [f EXCEPT !.at = "answered", !.hi = hi].hi = hi
    BY DEF Flight
  <2>4. poll'[q].at = "answered" /\ poll'[q].lo = cursor /\ poll'[q].lo <= poll'[q].hi
    BY <2>1, <2>2, <2>3 DEF OrderInv
  <2>5. \A p \in Polls : p = q
    BY DEF PollsNeverOverlap
  <2> QED
    BY <2>2, <2>4, <2>5 DEF OrderInv
<1>8. ASSUME NEW q \in Polls, ReceivePage(q) PROVE OrderInv'
  <2>1. /\ \A id \in Ids : store[id] # NoRow => store'[id] # NoRow
        /\ cursor' \in 0 .. Len(chain)
    BY <1>8, PageApplied, RowAfterType
  <2>2. Len(chain) \in Nat /\ Len(chain) < Unset
    BY HistoryType DEF TypeOK, Unset
  <2>3. cursor' # Unset /\ fulfilments' = fulfilments
    BY <1>8, <2>1, <2>2 DEF ReceivePage
  <2>4. \A p \in Polls : poll'[p].at = "idle"
    BY <1>8 DEF ReceivePage, PollsNeverOverlap, TypeOK, Idle
  <2> QED
    BY <2>1, <2>3, <2>4 DEF OrderInv
<1>9. ASSUME NEW q \in Polls, PollFails(q) PROVE OrderInv'
  BY <1>9
  DEF PollFails, Idle, feedVars, pollVars, clientVars, PollsNeverOverlap, TypeOK, OrderInv,
      Flight
<1>10. ASSUME NEW r \in Requests, EmailDone(r) PROVE OrderInv'
  BY <1>10
  DEF EmailDone, feedVars, pollVars, clientVars, PollsNeverOverlap, TypeOK, OrderInv, Flight
<1>11. ASSUME NEW r \in Requests, NEW id \in Ids, Fulfil(r, id) PROVE OrderInv'
  <2> QED
    BY <1>11, FulfilApplied DEF OrderInv
<1>12. ASSUME NEW r \in Requests, NEW id \in Ids, FulfilRejected(r, id) PROVE OrderInv'
  BY <1>12
  DEF FulfilRejected, feedVars, pollVars, clientVars, PollsNeverOverlap, TypeOK, OrderInv,
      Flight
<1>13. ASSUME NEW s \in Sockets, Connect(s) PROVE OrderInv'
  BY <1>13
  DEF Connect, feedVars, pollVars, clientVars, PollsNeverOverlap, TypeOK, OrderInv, Flight
<1>14. ASSUME NEW s \in Sockets, StartClose(s) PROVE OrderInv'
  BY <1>14
  DEF StartClose, feedVars, pollVars, clientVars, PollsNeverOverlap, TypeOK, OrderInv, Flight
<1>15. ASSUME NEW s \in Sockets, Closed(s) PROVE OrderInv'
  BY <1>15
  DEF Closed, feedVars, pollVars, clientVars, PollsNeverOverlap, TypeOK, OrderInv, Flight
<1> QED
  BY <1>0, <1>1, <1>2, <1>3, <1>4, <1>5, <1>6, <1>7, <1>8, <1>9, <1>10, <1>11, <1>12, <1>13,
     <1>14, <1>15
  DEF Next, PollStep

(* What a walk owes stays ahead of it. *)
LEMMA WalkStep ==
    ASSUME TypeOK, CreatedInv, WalkInv, [Next]_vars
    PROVE  WalkInv'
  <1>1. CASE Restart
    BY <1>1 DEF Restart, NoWalk, WalkInv
  <1>2. CASE ListPage
    <2>1. CASE walk' = NoWalk
      BY <2>1 DEF NoWalk, WalkInv
    <2>2. CASE walk' # NoWalk
      <3>1. /\ walk'.page = walk.page + 1
            /\ walk'.owed = IF walk.page = 0 THEN Stored ELSE walk.owed
            /\ walk'.listed = walk.listed \cup ListCommissions(walk.page + 1)
            /\ walk.page \in Nat
        BY <1>2, <2>2 DEF ListPage, TypeOK
      <3>2. /\ Stored' = Stored
            /\ \A id : Rank(id)' = Rank(id)
        BY <1>2 DEF ListPage, Stored, Rank, Before, FirstEvent, EventsOf, feedVars, pollVars
      <3>3. ASSUME NEW id \in walk'.owed
            PROVE  /\ id \in Stored
                   /\ id \notin walk'.listed => Rank(id) >= walk'.page * PageSize
        <4>1. id \in Stored
          BY <3>1, <3>3 DEF WalkInv
        <4>2. IF walk.page = 0 THEN id \in Stored ELSE id \in walk.owed
          BY <3>1, <3>3
        <4> QED
          BY <3>1, <4>1, <4>2, PageWalked
      <3> QED
        BY <3>1, <3>2, <3>3 DEF WalkInv
    <2> QED
      BY <2>1, <2>2
  <1>3. CASE ~Restart /\ ~ListPage
    <2>1. walk' = walk
      BY <1>3
      DEF Next, vars, feedVars, pollVars, clientVars, PollStep, ChainAdvances, ListPage,
          Restart, StartPoll,
       GetLatestLedger, AnswerLedgerPage, AnswerCursorPage, ReceivePage, PollFails,
       EmailDone, Fulfil, FulfilRejected, Connect, StartClose, Closed
    <2>2. /\ chain' = chain
          /\ \A j \in Stored :
                j \in Stored' /\ store'[j].createdLedger = store[j].createdLedger
      BY <1>3, RowsStay
    <2>3. \A id \in Stored : Rank(id) <= Rank(id)' /\ Rank(id) \in Nat /\ Rank(id)' \in Nat
      BY <2>2, RankGrows
    <2>4. walk.page * PageSize \in Nat
      BY CommissionAssumption DEF TypeOK
    <2> DEFINE m == walk.page * PageSize
    <2>5. ASSUME NEW id \in walk.owed
          PROVE  /\ id \in Stored'
                 /\ id \notin walk.listed => Rank(id)' >= m
      <3>1. id \in Stored /\ (id \notin walk.listed => Rank(id) >= m)
        BY <2>5 DEF WalkInv
      <3> HIDE DEF m
      <3>2. m \in Nat
        BY <2>4 DEF m
      <3>3. id \in Stored' /\ Rank(id) <= Rank(id)' /\ Rank(id) \in Nat /\ Rank(id)' \in Nat
        BY <2>2, <2>3, <3>1
      <3> QED
        BY <3>1, <3>2, <3>3
    <2> QED
      BY <2>1, <2>5 DEF WalkInv
  <1> QED
    BY <1>1, <1>2, <1>3

(* A page that continues at lo ends the events up to hi. *)
LEMMA EventsExtend ==
    ASSUME chain \in Chains, NEW id \in Ids,
           NEW lo \in 0 .. Len(chain), NEW hi \in 0 .. Len(chain), lo <= hi
    PROVE  /\ EventsOf(id, 0, hi) = EventsOf(id, 0, lo) \cup EventsOf(id, lo, hi)
           /\ EventsOf(id, lo, hi) # {} =>
                LET last == Max(EventsOf(id, lo, hi))
                IN  /\ last \in EventsOf(id, lo, hi)
                    /\ EventsOf(id, 0, hi) # {}
                    /\ Max(EventsOf(id, 0, hi)) = last
  <1> DEFINE P == EventsOf(id, 0, lo)
             E == EventsOf(id, lo, hi)
             N == EventsOf(id, 0, hi)
  <1>1. Len(chain) \in Nat /\ lo \in Nat /\ hi \in Nat
    BY HistoryType
  <1>2. N = P \cup E
    BY <1>1, EventsType
  <1>3. /\ P \in SUBSET (0 .. Len(chain)) /\ E \in SUBSET (0 .. Len(chain))
        /\ N \in SUBSET (0 .. Len(chain))
    BY <1>1, EventsType
  <1>4. \A i \in P : i <= lo
    BY <1>1, EventsType
  <1>5. \A i \in E : lo < i
    BY <1>1, EventsType
  <1> HIDE DEF P, E, N
  <1>6. ASSUME E # {}
        PROVE  Max(E) \in E /\ N # {} /\ Max(N) = Max(E)
    <2>1. Max(E) \in E /\ \A i \in E : i <= Max(E)
      BY <1>1, <1>3, <1>6, MaxOf
    <2>2. N # {}
      BY <1>2, <1>6
    <2>3. Max(N) \in N /\ \A i \in N : i <= Max(N)
      BY <1>1, <1>3, <2>2, MaxOf
    <2>4. Max(N) = Max(E)
      <3>1. Max(E) <= Max(N) /\ Max(N) \in Nat /\ Max(E) \in Nat /\ lo < Max(E)
        <4>1. Max(N) \in 0 .. Len(chain) /\ Max(E) \in 0 .. Len(chain)
          BY <1>3, <2>1, <2>3
        <4>2. Max(E) \in N
          BY <1>2, <2>1
        <4> QED
          BY <1>1, <1>5, <2>1, <2>3, <4>1, <4>2
      <3>2. Max(N) \in E
        BY <1>1, <1>2, <1>4, <2>3, <3>1
      <3> QED
        BY <2>1, <3>1, <3>2
    <2> QED
      BY <2>1, <2>2, <2>4
  <1> QED
    BY <1>2, <1>6 DEF P, E, N

(* A page keeps the rows in step with the chain. *)
LEMMA PageKeepsRows ==
    ASSUME TypeOK, OrderInv, RowsInv, NEW q \in Polls, ReceivePage(q)
    PROVE  RowsInv'
  <1> DEFINE lo == poll[q].lo  hi == poll[q].hi
  <1>1. /\ lo \in 0 .. Len(chain) /\ lo \in Nat /\ hi \in 0 .. Len(chain) /\ Len(chain) \in Nat
        /\ chain \in Chains /\ chain' = chain /\ store \in [Ids -> Row \cup {NoRow}]
        /\ \A id \in Ids : store'[id] = RowAfter(id, lo, hi)
        /\ cursor' = hi /\ fulfilments' = fulfilments /\ fulfilments \in [Ids -> Nat]
        /\ lo <= hi /\ (cursor = Unset \/ lo = cursor)
    BY PageApplied, HistoryType DEF OrderInv, ReceivePage, TypeOK
  <1> HIDE DEF lo, hi
  <1>2. \A id \in Ids : EventsOf(id, 0, cursor)' = EventsOf(id, 0, hi)
    BY <1>1 DEF EventsOf
  <1>3. ASSUME NEW id \in Ids, store'[id] # NoRow
        PROVE  /\ EventsOf(id, 0, hi) # {}
               /\ \/ store'[id].state = StateOf(chain[Max(EventsOf(id, 0, hi))].body.kind)
                  \/ store'[id].state = "fulfilled" /\ fulfilments[id] > 0
               /\ fulfilments[id] + (IF store'[id].state # "fulfilled" THEN 1 ELSE 0)
                    <= Cardinality({i \in EventsOf(id, 0, hi) : chain[i].body.kind # "fulfilled"})
    <2> DEFINE P == EventsOf(id, 0, lo)
               E == EventsOf(id, lo, hi)
               N == EventsOf(id, 0, hi)
               Open(S) == {i \in S : chain[i].body.kind # "fulfilled"}
    <2>1. CASE E = {}
      <3>1. store'[id] = store[id] /\ store[id] # NoRow
        BY <1>1, <1>3, <2>1, RowAfterType
      <3>2. cursor = lo /\ id \in Stored
        BY <1>1, <3>1 DEF OrderInv, Stored
      <3>3. N = P
        BY ZenonT(60), <1>1, <2>1, EventsExtend
      <3>4. store[id] \in Row
        BY <1>1, <3>1
      <3> QED
        BY <3>1, <3>2, <3>3, <3>4 DEF RowsInv, StateOnChain, Reopenings
    <2>2. CASE E # {}
      <3> DEFINE last == Max(E)
      <3>1. /\ last \in E /\ N # {} /\ Max(N) = last /\ N = P \cup E
        BY <1>1, <2>2, EventsExtend
      <3>2. /\ store'[id].state = StateOf(chain[last].body.kind)
            /\ store'[id] \in Row
        BY <1>1, <2>2, RowAfterType
      <3>3. /\ \A i \in P : i <= lo
            /\ \A i \in E : lo < i
            /\ IsFiniteSet(P) /\ IsFiniteSet(N)
        BY <1>1, EventsType
      <3>4. last \in N /\ last \notin P
        BY <1>1, <3>1, <3>3, EventsType
      <3>5. /\ Open(P) \in SUBSET Open(N) /\ IsFiniteSet(Open(N)) /\ IsFiniteSet(Open(P))
        <4>1. Open(P) \in SUBSET P /\ Open(N) \in SUBSET N /\ Open(P) \in SUBSET Open(N)
          BY <3>1
        <4> HIDE DEF P, N, Open
        <4> QED
          BY <3>3, <4>1, FS_Subset
      <3>6. /\ Cardinality(Open(P)) \in Nat /\ Cardinality(Open(N)) \in Nat
            /\ Cardinality(Open(P)) <= Cardinality(Open(N))
            /\ Cardinality(Open(N)) = Cardinality(Open(P)) => Open(N) = Open(P)
        <4> HIDE DEF P, N, Open
        <4> QED
          BY <3>5, FS_Subset, FS_CardinalityType
      <3>7. /\ store'[id].state # "fulfilled" => last \in Open(N) /\ last \notin Open(P)
            /\ store'[id].state # "fulfilled" => chain[last].body.kind # "fulfilled"
        BY <3>2, <3>4 DEF StateOf
      <3>8. fulfilments[id] + (IF store'[id].state # "fulfilled" THEN 1 ELSE 0)
                <= Cardinality(Open(N))
        <4>1. fulfilments[id] \in Nat
          BY <1>1
        <4>2. CASE store[id] = NoRow
          <5>1. fulfilments[id] = 0
            BY <4>2 DEF OrderInv
          <5>2. store'[id].state # "fulfilled" => Cardinality(Open(N)) # 0
            <6> HIDE DEF P, N, Open, last
            <6> QED
              BY <3>5, <3>7, FS_EmptySet
          <5> QED
            BY <3>6, <5>1, <5>2
        <4>3. CASE store[id] # NoRow
          <5>1. cursor = lo /\ id \in Stored
            BY <1>1, <4>3 DEF OrderInv, Stored
          <5>2. fulfilments[id] <= Cardinality(Open(P))
            <6>1. fulfilments[id] + (IF store[id].state # "fulfilled" THEN 1 ELSE 0)
                    <= Cardinality(Open(P))
              BY <5>1 DEF RowsInv, Reopenings
            <6> HIDE DEF P, Open
            <6> QED
              BY <3>6, <4>1, <6>1
          <5>3. store'[id].state # "fulfilled" => Cardinality(Open(N)) # Cardinality(Open(P))
            BY <3>6, <3>7
          <5> HIDE DEF P, N, Open
          <5> QED
            BY <3>6, <4>1, <5>2, <5>3
        <4> QED
          BY <4>2, <4>3
      <3> QED
        BY <3>1, <3>2, <3>8
    <2> QED
      BY <2>1, <2>2
  <1>4. RowsInv'
    <2>1. \A id \in Ids : Reopenings(id)'
                = {i \in EventsOf(id, 0, hi) : chain[i].body.kind # "fulfilled"}
      BY <1>1, <1>2 DEF Reopenings
    <2>2. \A id \in Ids : StateOnChain(id)' = StateOf(chain[Max(EventsOf(id, 0, hi))].body.kind)
      BY <1>1, <1>2 DEF StateOnChain, StateOf
    <2> QED
      BY <1>1, <1>2, <1>3, <2>1, <2>2 DEF RowsInv, Stored
  <1> QED
    BY <1>4

(* A request only moves a row from unfulfilled to fulfilled. *)
LEMMA FulfilKeepsRows ==
    ASSUME TypeOK, RowsInv, NEW r \in Requests, NEW id \in Ids, Fulfil(r, id)
    PROVE  RowsInv'
  <1>1. /\ chain' = chain /\ cursor' = cursor
        /\ store[id] \in Row /\ store[id] # NoRow /\ store[id].state # "fulfilled"
        /\ store'[id] # NoRow /\ store'[id].state = "fulfilled"
        /\ fulfilments'[id] = fulfilments[id] + 1
        /\ \A j \in Ids \ {id} : store'[j] = store[j] /\ fulfilments'[j] = fulfilments[j]
        /\ store \in [Ids -> Row \cup {NoRow}] /\ fulfilments \in [Ids -> Nat]
    BY FulfilApplied DEF TypeOK
  <1>2. \A j \in Ids : /\ EventsOf(j, 0, cursor)' = EventsOf(j, 0, cursor)
                       /\ Reopenings(j)' = Reopenings(j)
                       /\ StateOnChain(j)' = StateOnChain(j)
    BY <1>1 DEF EventsOf, Reopenings, StateOnChain, StateOf
  <1>3. fulfilments[id] + 1 <= Cardinality(Reopenings(id)) /\ fulfilments[id] \in Nat
    BY <1>1 DEF RowsInv, Stored
  <1>4. fulfilments'[id] + 0 <= Cardinality(Reopenings(id)) /\ fulfilments'[id] > 0
    BY <1>1, <1>3
  <1>5. ASSUME NEW j \in Ids, store'[j] # NoRow
        PROVE  /\ EventsOf(j, 0, cursor) # {}
               /\ \/ store'[j].state = StateOnChain(j)
                  \/ store'[j].state = "fulfilled" /\ fulfilments'[j] > 0
               /\ fulfilments'[j] + (IF store'[j].state # "fulfilled" THEN 1 ELSE 0)
                    <= Cardinality(Reopenings(j))
    BY <1>1, <1>4, <1>5 DEF RowsInv, Stored
  <1> QED
    BY <1>1, <1>2, <1>5 DEF RowsInv, Stored

(* So does every other step, and a restart forgets the rows.               *)
LEMMA RowsStep ==
    ASSUME TypeOK, OrderInv, RowsInv, [Next]_vars
    PROVE  RowsInv'
  <1>1. CASE Restart
    BY <1>1 DEF Restart, RowsInv, Stored
  <1>2. CASE ~Restart
    <2>1. \/ UNCHANGED <<chain, store, cursor, fulfilments>>
          \/ \E q \in Polls : ReceivePage(q)
          \/ \E r \in Requests, id \in Ids : Fulfil(r, id)
      BY <1>2 DEF Next, vars, feedVars, pollVars, PollStep, ChainAdvances, CloseLedger,
         ListPage, StartPoll, GetLatestLedger, AnswerLedgerPage, AnswerCursorPage, PollFails,
         EmailDone, FulfilRejected, Connect, StartClose, Closed
    <2>2. CASE UNCHANGED <<chain, store, cursor, fulfilments>>
      BY ZenonT(60), <2>2 DEF RowsInv, Stored, EventsOf, Reopenings, StateOnChain, StateOf
    <2> QED
      BY <2>1, <2>2, PageKeepsRows, FulfilKeepsRows
  <1> QED
    BY <1>1, <1>2

-----------------------------------------------------------------------------
(* Theorems.                                                               *)

LEMMA CommissionInit == Init => CommissionInv /\ OrderInv /\ RowsInv
  <1> SUFFICES ASSUME Init PROVE CommissionInv /\ OrderInv /\ RowsInv
    OBVIOUS
  <1>1. chain \in Chains /\ tip \in Ledgers /\ Len(chain) \in Nat
    BY FeedAssumption, HistoryType DEF Init, FeedInit, Ledgers
  <1>2. Idle \in Flight
    BY <1>1, FeedAssumption DEF Idle, Flight
  <1>3. TypeOK
    BY <1>1, <1>2 DEF Init, TypeOK, NoWalk
  <1>4. Stored = {}
    BY DEF Init, Stored
  <1>5. CreatedInv /\ WalkInv /\ RowsInv
    BY <1>4 DEF Init, CreatedInv, WalkInv, RowsInv, NoWalk
  <1>6. ToldInv
    BY DEF Init, ToldInv, ToldOnce
  <1>7. OrderInv
    BY DEF Init, OrderInv, Idle
  <1> QED
    BY <1>3, <1>5, <1>6, <1>7 DEF CommissionInv

(***************************************************************************)
(* However polls overlap: the types of the variables, the event each row   *)
(* was created by, what clients were told, and what a walk still owes      *)
(* (upsertCommission, parseCommissionEvent, broadcastNewCommission,        *)
(* listCommissions).                                                       *)
(***************************************************************************)
THEOREM CommissionInvariant == Spec => []CommissionInv
<1>1. Init => CommissionInv
  BY CommissionInit
<1>2. CommissionInv /\ [Next]_vars => CommissionInv'
  BY TypeStep, CreatedStep, ToldStep, WalkStep DEF CommissionInv
<1> QED
  BY <1>1, <1>2, PTL DEF Spec

(* Every variable has its type. *)
THEOREM TypeCorrect == Spec => []TypeOK
<1>1. CommissionInv => TypeOK
  BY DEF CommissionInv
<1> QED
  BY <1>1, CommissionInvariant, PTL

(***************************************************************************)
(* A client that stays connected is told of each new commission once, even *)
(* when polls overlap and apply a page twice (upsertCommission).           *)
(***************************************************************************)
THEOREM EachIsToldOnce == Spec => []ToldOnce
<1>1. CommissionInv => ToldOnce
  BY DEF CommissionInv, ToldInv
<1> QED
  BY <1>1, CommissionInvariant, PTL

(***************************************************************************)
(* A walk to the last page lists every commission that was in the map when *)
(* it began, whatever pages and requests come between its own pages        *)
(* (listCommissions, createdLedger).                                       *)
(***************************************************************************)
THEOREM WalksSkipNone == Spec => ListSkipsNone
<1>1. CommissionInv /\ [Next]_vars =>
        [ListPage /\ walk' = NoWalk =>
            walk.owed \subseteq walk.listed \cup ListCommissions(walk.page + 1)]_vars
  <2> SUFFICES ASSUME CommissionInv, ListPage, walk' = NoWalk, NEW id \in walk.owed,
                      id \notin walk.listed \cup ListCommissions(walk.page + 1)
               PROVE  FALSE
    OBVIOUS
  <2>1. walk.page # 0 /\ walk.page \in Nat
    BY DEF CommissionInv, WalkInv, TypeOK
  <2>2. (walk.page + 1) * PageSize < Cardinality(Stored)
    BY <2>1, PageWalked DEF CommissionInv
  <2>3. (walk.page + 1) * PageSize >= Cardinality(Stored)
    BY <2>1 DEF ListPage, NoWalk
  <2> DEFINE n == (walk.page + 1) * PageSize
  <2>4. n \in Nat /\ Cardinality(Stored) \in Nat
    <3>1. Cardinality(Stored) \in Nat
      BY Counted DEF Stored
    <3> QED
      BY <2>1, <3>1, CommissionAssumption
  <2> HIDE DEF n
  <2>5. n < Cardinality(Stored) /\ n >= Cardinality(Stored)
    BY <2>2, <2>3 DEF n
  <2> QED
    BY <2>4, <2>5
<1> QED
  BY <1>1, CommissionInvariant, PTL DEF Spec, ListSkipsNone

(***************************************************************************)
(* As long as polls do not overlap: what each was sent with, and each row  *)
(* against the events up to the cursor (poll, fulfil).                     *)
(***************************************************************************)
THEOREM SerialInvariant == PollsNeverOverlap /\ Spec => []SerialInv
<1> SUFFICES ASSUME PollsNeverOverlap PROVE Spec => []SerialInv
  OBVIOUS
<1>1. Init => SerialInv
  BY CommissionInit DEF SerialInv
<1>2. SerialInv /\ [Next]_vars => SerialInv'
  BY TypeStep, CreatedStep, ToldStep, WalkStep, OrderStep, RowsStep DEF SerialInv, CommissionInv
<1> QED
  BY <1>1, <1>2, PTL DEF Spec

(***************************************************************************)
(* Without overlapping polls the map is the chain's up to the cursor, but  *)
(* for what a request fulfilled ahead of it (upsertCommission).            *)
(***************************************************************************)
THEOREM MapMirrorsChain == PollsNeverOverlap /\ Spec => []StoreMirrorsChain
<1>1. SerialInv => StoreMirrorsChain
  BY DEF SerialInv, RowsInv, Stored, StoreMirrorsChain
<1> QED
  BY <1>1, SerialInvariant, PTL

(***************************************************************************)
(* Without overlapping polls a commission is granted to no more fulfil     *)
(* requests than the chain left it unfulfilled (fulfil).                   *)
(***************************************************************************)
THEOREM GrantsAreCovered == PollsNeverOverlap /\ Spec => []FulfilledOnce
<1>1. SerialInv => FulfilledOnce
  <2> SUFFICES ASSUME SerialInv, NEW id \in Ids, fulfilments[id] > 0
               PROVE  fulfilments[id] <= Cardinality(Reopenings(id))
    BY DEF FulfilledOnce, Reopenings
  <2>1. fulfilments[id] \in Nat /\ chain \in Chains /\ Len(chain) \in Nat
    BY HistoryType DEF SerialInv, CommissionInv, TypeOK
  <2>2. id \in Stored
    BY <2>1 DEF SerialInv, OrderInv, Stored
  <2>3. cursor \in 0 .. Len(chain)
    BY <2>2 DEF SerialInv, CommissionInv, OrderInv, TypeOK, Stored
  <2>4. Cardinality(Reopenings(id)) \in Nat
    <3>1. IsFiniteSet(EventsOf(id, 0, cursor))
      BY <2>1, <2>3, EventsType
    <3>2. Reopenings(id) \in SUBSET EventsOf(id, 0, cursor)
      BY DEF Reopenings
    <3> QED
      BY <3>1, <3>2, FS_Subset, FS_CardinalityType
  <2>5. fulfilments[id] + (IF store[id].state # "fulfilled" THEN 1 ELSE 0)
            <= Cardinality(Reopenings(id))
    BY <2>2 DEF SerialInv, RowsInv
  <2> QED
    BY <2>1, <2>4, <2>5
<1> QED
  BY <1>1, SerialInvariant, PTL
=============================================================================
