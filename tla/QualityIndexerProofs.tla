------------------------ MODULE QualityIndexerProofs ------------------------
(***************************************************************************)
(* Theorems about the QualityOracle indexer, for every history, page limit *)
(* and combination of failures.                                            *)
(***************************************************************************)
EXTENDS QualityIndexer, SequenceTheorems, TLAPS

(***************************************************************************)
(* No retention window holds more events than a page does.  Without this   *)
(* a full page ends before the latest ledger of its response, which the    *)
(* cursor jumps to all the same (processEvents returns latestLedger).      *)
(***************************************************************************)
FitsOnePage(c) ==
    \A lo \in 0 .. Len(c) :
        lo + Limit < Len(c) => c[lo + 1].ledger + Retention <= c[lo + Limit + 1].ledger

UncutPages == \A c \in Chains : FitsOnePage(c)

-----------------------------------------------------------------------------
(* The history: its events are typed and ordered by ledger.                *)

LEMMA HistoryType ==
    ASSUME chain \in Chains
    PROVE  /\ Len(chain) \in Nat /\ Len(chain) <= MaxEvents
           /\ \A i \in Positions :
                /\ chain[i].ledger \in Ledgers
                /\ chain[i].body \in QualityBodies
           /\ \A i, j \in Positions : i <= j => chain[i].ledger <= chain[j].ledger
  <1>1. IsFeed(chain) /\ Len(chain) <= MaxEvents
    BY FeedAssumption
  <1> DEFINE Event == [ledger : Ledgers, body : Bodies]
  <1>2. chain \in Seq(Event)
    BY <1>1 DEF IsFeed
  <1>3. ASSUME NEW i \in Positions PROVE chain[i] \in Event
    <2> HIDE DEF Event
    <2> QED BY <1>2, ElementOfSeq DEF Positions
  <1> QED
    BY <1>1, <1>2, <1>3, QualityAssumption DEF IsFeed, Positions

(* An event carries what its kind says. *)
LEMMA BodyType ==
    ASSUME NEW b \in QualityBodies
    PROVE  /\ b.kind = "attested" =>
                b.datasetId \in Datasets /\ b.curator \in Curators /\ b.score \in Scores
           /\ b.kind \in {"slashed", "curator"} => b.curator \in Curators
  BY DEF QualityBodies

-----------------------------------------------------------------------------
(* Types.                                                                  *)

(* An aggregate is only computed for an attestation of the page. *)
TypeInv ==
    /\ TypeOK
    /\ pc = "aggregate" => pos < end /\ Body.kind = "attested"

LEMMA DueEvent ==
    ASSUME TypeInv, pos < end
    PROVE  /\ pos + 1 \in Positions /\ pos + 1 \in 0 .. Len(chain)
           /\ EventLedger \in Ledgers
           /\ Body \in QualityBodies
  <1>1. pos + 1 \in Positions /\ pos + 1 \in 0 .. Len(chain)
    BY HistoryType DEF TypeInv, TypeOK, Positions
  <1> QED
    BY <1>1, HistoryType DEF TypeInv, TypeOK, EventLedger, Body

LEMMA AggregateType ==
    ASSUME attestations \in [Datasets \X Curators -> AttestationRow \cup {NoRow}],
           NEW d \in Datasets
    PROVE  Aggregate(d) \in QualityRow
  <1>1. RowsOf(d) \in SUBSET Curators
    BY DEF RowsOf
  <1>2. ScoresOf(d) \in [RowsOf(d) -> Scores]
    <2> SUFFICES ASSUME NEW c \in RowsOf(d) PROVE attestations[<<d, c>>].score \in Scores
      BY DEF ScoresOf
    <2> QED
      BY DEF RowsOf, AttestationRow
  <1> HIDE DEF ScoresOf
  <1> QED
    BY <1>1, <1>2 DEF Aggregate, QualityRow

LEMMA TypeInit == Init => TypeInv
  <1> SUFFICES ASSUME Init PROVE TypeInv
    OBVIOUS
  <1>1. Len(chain) \in Nat /\ chain \in Chains /\ tip \in Ledgers
    BY HistoryType, FeedAssumption DEF Init, FeedInit, Ledgers
  <1>2. NoRow \in QualityRow
    <2> DEFINE none == [c \in {} |-> 0]
    <2>1. none \in [{} -> Scores] /\ {} \in SUBSET Curators
      OBVIOUS
    <2>2. DOMAIN none = {}
      OBVIOUS
    <2>3. Average(none) = NoRow
      BY <2>2 DEF Average
    <2> QED
      BY <2>1, <2>3 DEF QualityRow
  <1> QED
    BY <1>1, <1>2, QualityAssumption DEF Init, TypeInv, TypeOK

LEMMA TypeStep == TypeInv /\ [Next]_vars => TypeInv'
  <1> SUFFICES ASSUME TypeInv, [Next]_vars PROVE TypeInv'
    OBVIOUS
  <1> USE DEF TypeInv, TypeOK
  <1>0. Len(chain) \in Nat
    BY HistoryType
  <1>1. CASE UNCHANGED vars \/ SaveCursor
    BY <1>1 DEF vars, feedVars, tables, locals, history, SaveCursor, Positions, Body
  <1>9. CASE LoadCursor \/ AdvanceCursor
    <2>1. cursor' \in Nat /\ origin' \in Nat /\ pc' \in {"poll", "save"}
      BY <1>9 DEF LoadCursor, AdvanceCursor, history, Ledgers
    <2>2. pos' \in 0 .. Len(chain) /\ end' \in 0 .. Len(chain) /\ latest' \in Nat
      BY <1>0, <1>9 DEF LoadCursor, AdvanceCursor
    <2> QED
      BY <1>9, <2>1, <2>2 DEF LoadCursor, AdvanceCursor, feedVars, tables, history, Positions
  <1>2. CASE GetEvents
    BY <1>0, <1>2 DEF GetEvents, feedVars, tables, history, Positions, Ledgers, Body
  <1>3. CASE ChainAdvances
    <2>1. chain' = chain /\ tip' \in Ledgers
      BY <1>3, FeedAssumption DEF ChainAdvances, CloseLedger, Ledgers
    <2> QED
      BY <1>3, <2>1 DEF ChainAdvances, tables, locals, history, Positions, Body
  <1>4. CASE GetEventsRefused \/ Failure
    <2>1. faults' \in Nat
      BY <1>4 DEF GetEventsRefused, Failure, RpcError, HandlerError, SaveCursorError,
                  Exit, Fail
    <2>2. /\ UNCHANGED <<chain, tip, attestations, quality, curators, cursorRow, history>>
          /\ pc' \in {"load", "poll"} /\ cursor' \in {0, cursor}
          /\ pos' \in {0, pos} /\ end' \in {0, end} /\ latest' \in {0, latest}
      BY <1>4
         DEF GetEventsRefused, Failure, RpcError, HandlerError, SaveCursorError, Exit,
             PollFails, feedVars, tables, locals
    <2>3. pos' \in 0 .. Len(chain) /\ end' \in 0 .. Len(chain)
      BY <1>0, <2>2
    <2> QED
      BY <2>1, <2>2, <2>3 DEF history, Positions
  <1>5. CASE UpsertAttestation
    <2>1. Body.datasetId \in Datasets /\ Body.curator \in Curators
          /\ Body.score \in Scores /\ EventLedger \in Ledgers /\ pos < end
          /\ Body.kind = "attested"
      BY <1>5, DueEvent, BodyType DEF UpsertAttestation, Due
    <2> DEFINE row == [score |-> Body.score, ledger |-> EventLedger]
               key == <<Body.datasetId, Body.curator>>
    <2>2. row \in AttestationRow /\ key \in Datasets \X Curators
      BY <2>1 DEF AttestationRow
    <2>3. attestations' = [attestations EXCEPT ![key] = row]
      BY <1>5 DEF UpsertAttestation
    <2>4. attestations' \in [Datasets \X Curators -> AttestationRow \cup {NoRow}]
      <3> HIDE DEF row, key
      <3> QED BY <2>2, <2>3
    <2> QED
      BY <1>5, <2>1, <2>4 DEF UpsertAttestation, feedVars, locals, history, Positions, Body
  <1>6. ASSUME Handled, pos < end
        PROVE  /\ chain \in Chains' /\ chain' = chain /\ tip' = tip
               /\ cursorRow' \in Nat /\ pc' = "handle" /\ cursor' \in Nat
               /\ latest' \in Nat /\ pos' \in 0 .. Len(chain') /\ end' \in 0 .. Len(chain')
               /\ faults' \in Nat /\ emitted' \in Histories /\ origin' \in Nat
               /\ delivered' \subseteq Positions'
    BY <1>6, DueEvent DEF Handled, feedVars, Positions
  <1>7. CASE UpsertQuality
    <2>1. pos < end /\ Body.datasetId \in Datasets
      BY <1>7, DueEvent, BodyType DEF UpsertQuality
    <2>2. Aggregate(Body.datasetId) \in QualityRow
      BY <2>1, AggregateType
    <2>3. quality' \in [Datasets -> QualityRow]
      BY <1>7, <2>1, <2>2 DEF UpsertQuality, SelectAverage
    <2> QED
      BY <1>6, <1>7, <2>1, <2>3 DEF UpsertQuality
  <1>8. CASE Slash \/ RegisterCurator \/ IgnoreEvent
    <2>1. pos < end /\ Handled /\ UNCHANGED <<attestations, quality>>
      BY <1>8 DEF Slash, RegisterCurator, IgnoreEvent, Due, tables
    <2>2. curators' \in [Curators -> CuratorRow \cup {NoRow}]
      <3>1. CASE Slash
        <4>1. Body.curator \in Curators /\ EventLedger \in 0 .. MaxLedger
          BY <3>1, DueEvent, BodyType DEF Slash, Due, Ledgers
        <4>2. SlashCurator(curators[Body.curator], EventLedger) \in CuratorRow \cup {NoRow}
          BY <4>1 DEF SlashCurator, CuratorRow
        <4> QED
          BY <3>1, <4>1, <4>2 DEF Slash
      <3>2. CASE RegisterCurator
        <4>1. Body.curator \in Curators /\ EventLedger \in Ledgers
          BY <3>2, DueEvent, BodyType DEF RegisterCurator, Due
        <4>2. InsertCurator(curators[Body.curator], EventLedger) \in CuratorRow \cup {NoRow}
          BY <4>1, FeedAssumption DEF InsertCurator, CuratorRow
        <4> QED
          BY <3>2, <4>1, <4>2 DEF RegisterCurator
      <3> QED
        BY <1>8, <3>1, <3>2 DEF IgnoreEvent, tables
    <2> QED
      BY <1>6, <2>1, <2>2
  <1> QED
    BY <1>1, <1>2, <1>3, <1>4, <1>5, <1>7, <1>8, <1>9 DEF Next, Step

(***************************************************************************)
(* The variables keep their types: whatever fails, a row of                *)
(* dataset_quality is the average of scores that curators gave.            *)
(***************************************************************************)
THEOREM TypeCorrect == Spec => []TypeOK
  <1>1. Spec => []TypeInv
    BY TypeInit, TypeStep, PTL DEF Spec
  <1>2. TypeInv => TypeOK
    BY DEF TypeInv
  <1> QED
    BY <1>1, <1>2, PTL

-----------------------------------------------------------------------------
(* The inductive invariants.                                               *)

InPage == pc \in {"handle", "aggregate"}

(* What the process knows while it runs, and what its page holds. *)
CursorInv ==
    /\ Covered(cursorRow)
    /\ pc # "load" => cursorRow <= cursor /\ Covered(cursor)
    /\ pc = "save" => cursor <= tip
    /\ InPage =>
        /\ pos <= end /\ cursor < latest /\ latest <= tip
        /\ \A i \in Positions :
            /\ i <= end <=> chain[i].ledger <= latest
            /\ i > pos => chain[i].ledger > cursor
            /\ i <= pos /\ InScope(i) => i \in delivered

(* A run after the first resumes where a former one left its cursor. *)
ResumedInv == origin = SavedCursor + 1 /\ SavedCursor <= cursorRow

Attests(i, d) == chain[i].body.kind = "attested" /\ chain[i].body.datasetId = d

(* An event that is certain to be handled again after any failure. *)
Ahead(i) ==
    /\ Visible(i)
    /\ chain[i].ledger > cursorRow
    /\ pc # "load" => chain[i].ledger > cursor
    /\ InPage => pos < i /\ i <= end

StaleInv ==
    \A d \in Datasets :
        quality[d] # Aggregate(d) => \E i \in Positions : Attests(i, d) /\ Ahead(i)

(* The events whose effect every later replay starts from. *)
Settled(i) ==
    /\ InScope(i)
    /\ pc = "load" => chain[i].ledger <= cursorRow
    /\ pc \in {"poll", "save"} => chain[i].ledger <= cursor
    /\ pc = "handle" => i <= pos
    /\ pc = "aggregate" => i <= pos + 1

(* The events that may have been handled. *)
Reached(i) == InScope(i) /\ Visible(i) /\ (InPage => i <= end)

AttestedBy(i, d, c) == Attests(i, d) /\ chain[i].body.curator = c
Registers(i, c) == chain[i].body.kind = "curator" /\ chain[i].body.curator = c
Slashes(i, c) == chain[i].body.kind = "slashed" /\ chain[i].body.curator = c

(* A row stems from one event that no settled one follows. *)
AttestationInv(d, c) ==
    \/ /\ attestations[<<d, c>>] = NoRow
       /\ \A i \in Positions : AttestedBy(i, d, c) => ~Settled(i)
    \/ \E e \in Positions :
        /\ AttestedBy(e, d, c) /\ Reached(e)
        /\ attestations[<<d, c>>] = [score |-> chain[e].body.score,
                                     ledger |-> chain[e].ledger]
        /\ \A i \in Positions : AttestedBy(i, d, c) /\ Settled(i) => i <= e

SlashInv(c, m) ==
    \/ /\ curators[c].slashed = 0
       /\ \A i \in Positions : Slashes(i, c) /\ m < i => ~Settled(i)
    \/ \E e \in Positions :
        /\ Slashes(e, c) /\ Reached(e) /\ m < e
        /\ curators[c].slashed = chain[e].ledger
        /\ \A i \in Positions : Slashes(i, c) /\ Settled(i) => i <= e

CuratorInv(c) ==
    \/ /\ curators[c] = NoRow
       /\ \A i \in Positions : Registers(i, c) => ~Settled(i)
    \/ /\ curators[c] # NoRow
       /\ \E m \in Positions :
        /\ Registers(m, c) /\ Reached(m)
        /\ curators[c].registered = chain[m].ledger
        /\ \A i \in Positions : Registers(i, c) /\ InScope(i) => m <= i
        /\ SlashInv(c, m)

TablesInv ==
    /\ \A d \in Datasets, c \in Curators : AttestationInv(d, c)
    /\ \A c \in Curators : CuratorInv(c)

(* The contract slashes no curator before it registers it. *)
SlashedOnceRegistered ==
    \A h \in Chains, i \in 1 .. MaxEvents, j \in 1 .. MaxEvents :
        /\ i <= Len(h) /\ j <= Len(h)
        /\ h[i].body.kind = "slashed" /\ h[i].ledger > SavedCursor
        /\ h[j].body.kind = "curator" /\ h[j].ledger > SavedCursor
        /\ h[i].body.curator = h[j].body.curator
        => \E m \in 1 .. i - 1 : /\ h[m].body.kind = "curator"
                                 /\ h[m].body.curator = h[i].body.curator
                                 /\ h[m].ledger > SavedCursor

-----------------------------------------------------------------------------
(* The saved cursor passes no event.                                       *)

(* A page holds all that is visible from its start on. *)
LEMMA PageUncut ==
    ASSUME TypeOK, UncutPages, NEW lo \in 0 .. Len(chain), NEW hi \in 0 .. Len(chain),
           NEW s \in Nat, Serves(s), IsPage(lo, hi, s)
    PROVE  \A i \in Positions : i <= hi <=> Visible(i)
  <1>1. /\ Len(chain) \in Nat
        /\ \A i \in Positions : chain[i].ledger \in Nat
        /\ \A i, j \in Positions : i <= j => chain[i].ledger <= chain[j].ledger
        /\ Limit \in Nat \ {0} /\ Retention \in Nat /\ tip \in Nat
    BY HistoryType, FeedAssumption DEF TypeOK, Ledgers
  <1>2. ASSUME NEW i \in Positions, i <= hi PROVE Visible(i)
    <2>1. CASE i <= lo
      BY <1>1, <2>1 DEF IsPage, Visible, Serves
    <2>2. CASE ~(i <= lo)
      <3>1. i \in lo + 1 .. hi
        BY <1>2, <2>2 DEF Positions
      <3> QED
        BY <3>1 DEF IsPage
    <2> QED
      BY <2>1, <2>2
  <1>3. ASSUME NEW i \in Positions, ~(i <= hi), Visible(i) PROVE FALSE
    <2>1. hi = lo + Limit
      BY <1>3, <1>1 DEF IsPage, Positions
    <2>2. lo + 1 \in Positions /\ hi + 1 \in Positions /\ hi + 1 <= i /\ lo + Limit < Len(chain)
      BY <1>1, <1>3, <2>1 DEF Positions
    <2>3. chain[lo + 1].ledger + Retention <= chain[hi + 1].ledger
      BY <2>1, <2>2 DEF UncutPages, FitsOnePage, TypeOK
    <2>4. chain[hi + 1].ledger <= tip
      <3> DEFINE next == chain[hi + 1].ledger
                 last == chain[i].ledger
      <3>1. next <= last /\ last <= tip
        BY <1>1, <1>3, <2>2 DEF Visible
      <3>2. next \in Nat /\ last \in Nat /\ tip \in Nat
        BY <1>1, <2>2
      <3> HIDE DEF next, last
      <3>3. next <= tip
        BY <3>1, <3>2
      <3> QED
        BY <3>3 DEF next
    <2>5. s <= chain[lo + 1].ledger
      BY <1>1, <2>2 DEF IsPage
    <2> QED
      BY SMTT(30), <1>1, <2>2, <2>3, <2>4, <2>5 DEF Serves
  <1> QED
    BY <1>2, <1>3

LEMMA CursorInvInit == Init => CursorInv
  <1> SUFFICES ASSUME Init PROVE CursorInv
    OBVIOUS
  <1>1. \A i \in Positions : chain[i].ledger \in Nat
    BY TypeInit, HistoryType DEF TypeInv, TypeOK, Ledgers
  <1>2. Covered(cursorRow)
    BY <1>1, QualityAssumption DEF Init, Covered, InScope
  <1> QED
    BY <1>2 DEF Init, CursorInv, InPage

(* A step that leaves the history variables and the saved row alone. *)
LEMMA CoveredKept ==
    ASSUME chain' = chain, origin' = origin, delivered \subseteq delivered', NEW c, Covered(c)
    PROVE  Covered(c)'
  BY DEF Covered, InScope, Positions

LEMMA CursorInvStep ==
    TypeInv /\ UncutPages /\ CursorInv /\ [Next]_vars => CursorInv'
  <1> SUFFICES ASSUME TypeInv, UncutPages, CursorInv, [Next]_vars PROVE CursorInv'
    OBVIOUS
  <1>0. /\ \A i \in Positions : chain[i].ledger \in Nat
        /\ \A i, j \in Positions : i <= j => chain[i].ledger <= chain[j].ledger
        /\ Len(chain) \in Nat /\ tip \in Nat /\ cursor \in Nat /\ cursorRow \in Nat
        /\ latest \in Nat /\ pos \in Nat /\ end \in Nat
    BY SMTT(30), HistoryType DEF TypeInv, TypeOK, Ledgers
  <1>1. CASE UNCHANGED vars
    BY <1>1 DEF vars, feedVars, tables, locals, history, CursorInv, InPage, Covered,
                InScope, Positions
  <1>2. CASE ChainAdvances
    <2>1. tip' = tip + 1 /\ chain' = chain
      BY <1>2 DEF ChainAdvances, CloseLedger
    <2> QED
      BY <1>0, <1>2, <2>1
         DEF ChainAdvances, locals, history, CursorInv, InPage, Covered, InScope, Positions
  <1>3. CASE LoadCursor
    <2>1. CASE cursorRow # 0
      <3>1. UNCHANGED <<chain, origin, delivered, cursorRow>> /\ cursor' = cursorRow
        BY <1>3, <2>1 DEF LoadCursor, feedVars
      <3>2. Covered(cursor)' /\ Covered(cursorRow)'
        BY <3>1 DEF CursorInv, Covered, InScope, Positions
      <3> QED
        BY <1>0, <1>3, <3>1, <3>2 DEF LoadCursor, CursorInv, InPage
    <2>2. CASE cursorRow = 0
      <3>1. \A i \in Positions : ~(chain[i].ledger >= tip + 1 /\ chain[i].ledger <= tip)
        BY <1>0
      <3>2. \A i \in Positions : ~(chain[i].ledger >= tip + 1 /\ chain[i].ledger <= 0)
        BY <1>0
      <3>3. Covered(cursor)' /\ Covered(cursorRow)'
        BY <1>3, <2>2, <3>1, <3>2 DEF LoadCursor, feedVars, Covered, InScope, Positions
      <3> QED
        BY <1>0, <1>3, <2>2, <3>3 DEF LoadCursor, CursorInv, InPage
    <2> QED
      BY <2>1, <2>2
  <1>4. CASE GetEvents
    <2>1. PICK lo \in 0 .. Len(chain), hi \in 0 .. Len(chain) :
            IsPage(lo, hi, FromLedger) /\ pos' = lo /\ end' = hi
      BY <1>4 DEF GetEvents
    <2>2. \A i \in Positions : i <= hi <=> chain[i].ledger <= tip
      BY <1>0, <1>4, <2>1, PageUncut DEF GetEvents, FromLedger, TypeInv, Visible
    <2>3. \A i \in Positions : i <= lo <=> chain[i].ledger <= cursor
      BY <1>0, <2>1 DEF IsPage, FromLedger
    <2>4. cursor < tip /\ lo <= hi
      BY <1>0, <1>4, <2>1 DEF GetEvents, Serves, FromLedger, IsPage
    <2>5. \A i \in Positions : i > lo => chain[i].ledger > cursor
      BY <1>0, <2>1, <2>3 DEF Positions
    <2>6. \A i \in Positions : i <= lo /\ InScope(i) => i \in delivered
      BY <1>4, <2>3 DEF GetEvents, CursorInv, Covered
    <2>7. Covered(cursorRow)' /\ Covered(cursor)' /\ cursorRow <= cursor
      BY <1>4, CoveredKept DEF GetEvents, CursorInv, feedVars, history, Covered, InScope,
                               Positions
    <2> QED
      BY <1>0, <1>4, <2>1, <2>2, <2>4, <2>5, <2>6, <2>7
         DEF GetEvents, CursorInv, InPage, feedVars, history, Positions, InScope
  <1>5. CASE GetEventsRefused \/ RpcError \/ HandlerError \/ SaveCursorError \/ Exit
    <2>1. /\ UNCHANGED <<chain, tip, cursorRow, origin, delivered>>
          /\ pc' = "load" \/ (pc' = "poll" /\ pc # "load" /\ cursor' = cursor)
      BY <1>5 DEF GetEventsRefused, RpcError, HandlerError, SaveCursorError, Exit,
                  PollFails, feedVars, history, locals
    <2> QED
      BY <2>1 DEF CursorInv, InPage, Covered, InScope, Positions
  <1>6. CASE UpsertAttestation
    BY <1>6 DEF UpsertAttestation, Due, feedVars, locals, history, CursorInv, InPage, Covered,
                InScope, Positions
  <1>7. CASE UpsertQuality \/ Slash \/ RegisterCurator \/ IgnoreEvent
    <2>1. Handled /\ InPage /\ pos < end
      BY <1>7 DEF UpsertQuality, Slash, RegisterCurator, IgnoreEvent, Due, TypeInv, InPage
    <2>2. /\ UNCHANGED <<chain, tip, cursorRow, origin, cursor, end, latest>>
          /\ pos' = pos + 1 /\ delivered' = delivered \cup {pos + 1} /\ pc' = "handle"
      BY <2>1 DEF Handled, feedVars
    <2>3. Covered(cursorRow)' /\ Covered(cursor)' /\ cursorRow <= cursor
      BY <2>1, <2>2 DEF CursorInv, InPage, Covered, InScope, Positions
    <2>4. \A i \in Positions : i <= pos + 1 /\ InScope(i) => i \in delivered'
      BY <1>0, <2>1, <2>2 DEF CursorInv, Positions
    <2>5. pos + 1 <= end /\ \A i \in Positions : i > pos + 1 => i > pos
      BY <1>0, <2>1 DEF Positions
    <2> QED
      BY <2>1, <2>2, <2>3, <2>4, <2>5 DEF CursorInv, InPage, InScope, Positions
  <1>8. CASE AdvanceCursor
    <2>1. /\ UNCHANGED <<chain, tip, cursorRow, origin, delivered>>
          /\ InPage /\ pc # "load" /\ pos = end
      BY <1>8 DEF AdvanceCursor, feedVars, history, InPage
    <2>2. cursor < latest /\ latest <= tip /\ cursorRow <= cursor
      BY <2>1 DEF CursorInv
    <2>3. cursor' = latest /\ pc' = "save"
      BY <1>0, <1>8, <2>2 DEF AdvanceCursor
    <2>4. Covered(latest)
      BY <2>1 DEF CursorInv, Covered
    <2>5. Covered(cursor)' /\ Covered(cursorRow)'
      BY <2>1, <2>3, <2>4, CoveredKept DEF CursorInv, Covered, InScope, Positions
    <2> QED
      BY <1>0, <2>1, <2>2, <2>3, <2>5 DEF CursorInv, InPage
  <1>9. CASE SaveCursor
    BY <1>0, <1>9 DEF SaveCursor, feedVars, locals, history, CursorInv, InPage, Covered,
                InScope, Positions
  <1> QED
    BY <1>1, <1>2, <1>3, <1>4, <1>5, <1>6, <1>7, <1>8, <1>9 DEF Next, Step, Failure

(***************************************************************************)
(* As long as no retention window holds more events than a page, every     *)
(* event up to the saved cursor has been handled: after any failure, and   *)
(* from a first run on.                                                    *)
(***************************************************************************)
THEOREM CursorSafe == UncutPages => (Spec => []CursorCovers)
  <1>1. ASSUME UncutPages PROVE Spec => []CursorCovers
    <2>1. Init => TypeInv /\ CursorInv
      BY TypeInit, CursorInvInit
    <2>2. TypeInv /\ CursorInv /\ [Next]_vars => (TypeInv /\ CursorInv)'
      BY <1>1, TypeStep, CursorInvStep
    <2>3. CursorInv => CursorCovers
      BY DEF CursorInv, CursorCovers
    <2> QED
      BY <2>1, <2>2, <2>3, PTL DEF Spec
  <1> QED
    BY <1>1

-----------------------------------------------------------------------------
(* The indexer implements the feed.                                        *)

LEMMA ResumedInvStep ==
    /\ SavedCursor # 0 /\ Init => ResumedInv
    /\ TypeInv /\ CursorInv /\ SavedCursor # 0 /\ ResumedInv /\ [Next]_vars => ResumedInv'
  <1>1. ASSUME SavedCursor # 0, Init PROVE ResumedInv
    BY <1>1, QualityAssumption DEF Init, ResumedInv
  <1>2. ASSUME TypeInv, CursorInv, SavedCursor # 0, ResumedInv, [Next]_vars
        PROVE  ResumedInv'
    <2>1. CASE LoadCursor
      <3>1. cursorRow # 0
        BY <1>2, QualityAssumption DEF ResumedInv, TypeInv, TypeOK
      <3> QED
        BY <1>2, <2>1, <3>1 DEF LoadCursor, ResumedInv
    <2>2. CASE SaveCursor
      BY <1>2, <2>2, QualityAssumption
         DEF SaveCursor, history, CursorInv, ResumedInv, TypeInv, TypeOK
    <2>3. CASE UNCHANGED vars \/ (Next /\ ~LoadCursor /\ ~SaveCursor)
      <3>1. origin' = origin /\ cursorRow' = cursorRow
        BY <2>3 DEF vars, history, Next, Step, Failure, ChainAdvances, GetEvents,
            GetEventsRefused, RpcError, HandlerError, SaveCursorError, Exit, PollFails,
            UpsertAttestation, UpsertQuality, Slash, RegisterCurator, IgnoreEvent,
            Handled, AdvanceCursor
      <3> QED
        BY <1>2, <3>1 DEF ResumedInv
    <2> QED
      BY <1>2, <2>1, <2>2, <2>3 DEF Next
  <1> QED
    BY <1>1, <1>2

LEMMA HandledDelivers ==
    ASSUME TypeInv, CursorInv, SavedCursor # 0, ResumedInv, InPage, pos < end, Handled
    PROVE  [Feed!Next]_(Feed!vars)
  <1> DEFINE k == pos + 1
  <1>1. /\ \A i \in Positions : chain[i].ledger \in Nat
        /\ cursor \in Nat /\ cursorRow \in Nat /\ pos \in Nat /\ end \in Nat
        /\ tip \in Nat /\ latest \in Nat
    BY SMTT(30), HistoryType DEF TypeInv, TypeOK, Ledgers
  <1>2. k \in Positions
    BY DueEvent
  <1>3. delivered' = delivered \cup {k} /\ UNCHANGED <<chain, tip, origin, cursorRow>>
    BY DEF Handled, feedVars
  <1>4. CASE k \in delivered
    BY <1>3, <1>4 DEF Feed!vars, Feed!feedVars
  <1>5. CASE k \notin delivered
    <2>1. chain[k].ledger > cursor /\ chain[k].ledger <= latest /\ latest <= tip
          /\ cursorRow <= cursor
      BY <1>1, <1>2 DEF CursorInv, InPage
    <2>2. InScope(k) /\ Visible(k)
      BY <1>1, <1>2, <2>1, QualityAssumption DEF InScope, Visible, ResumedInv
    <2>3. \A j \in Positions : j < k /\ InScope(j) => j \in delivered
      BY <1>1 DEF CursorInv, Positions
    <2>4. Feed!Deliver(k)
      BY <1>3, <1>5, <2>2, <2>3
         DEF Feed!Deliver, Feed!InScope, InScope, Feed!Visible, Visible, Feed!Positions,
             Positions, Feed!feedVars
    <2> QED
      BY <1>2, <2>4 DEF Feed!Next, Feed!Positions, Positions
  <1> QED
    BY <1>4, <1>5

LEMMA FeedStep ==
    TypeInv /\ CursorInv /\ SavedCursor # 0 /\ ResumedInv /\ [Next]_vars
        => [Feed!Next]_(Feed!vars)
  <1> SUFFICES ASSUME TypeInv, CursorInv, SavedCursor # 0, ResumedInv, [Next]_vars
               PROVE  [Feed!Next]_(Feed!vars)
    OBVIOUS
  <1>1. CASE ChainAdvances
    BY <1>1 DEF ChainAdvances, CloseLedger, history, Feed!Next, Feed!ChainAdvances,
                Feed!CloseLedger
  <1>2. CASE UpsertQuality \/ Slash \/ RegisterCurator \/ IgnoreEvent
    BY <1>2, HandledDelivers
       DEF UpsertQuality, Slash, RegisterCurator, IgnoreEvent, Due, TypeInv, InPage
  <1>3. CASE SaveCursor
    <2>1. Covered(cursor) /\ cursor \in 0 .. tip
      BY <1>3 DEF SaveCursor, CursorInv, TypeInv, TypeOK, Ledgers
    <2>2. Feed!Commit(cursor)
      BY <1>3, <2>1
         DEF SaveCursor, Feed!Commit, Feed!Covered, Covered, Feed!InScope, InScope,
             Feed!Positions, Positions, Feed!feedVars, feedVars, history
    <2> QED
      BY <2>1, <2>2 DEF Feed!Next
  <1>4. CASE LoadCursor
    <2>1. cursorRow # 0
      BY QualityAssumption DEF ResumedInv, TypeInv, TypeOK
    <2> QED
      BY <1>4, <2>1 DEF LoadCursor, feedVars, Feed!vars, Feed!feedVars
  <1>5. CASE UNCHANGED vars \/ GetEvents \/ GetEventsRefused \/ UpsertAttestation
             \/ AdvanceCursor \/ Failure
    BY <1>5 DEF vars, feedVars, history, Feed!vars, Feed!feedVars, GetEvents,
        GetEventsRefused, UpsertAttestation, AdvanceCursor, Failure, RpcError,
        HandlerError, SaveCursorError, Exit, PollFails
  <1> QED
    BY <1>1, <1>2, <1>3, <1>4, <1>5 DEF Next, Step

(* Every run after the first is an at-least-once feed of the oracle's events. *)
THEOREM FeedImplemented == UncutPages /\ SavedCursor # 0 => (Spec => ImplementsFeed)
  <1>1. ASSUME UncutPages, SavedCursor # 0 PROVE Spec => ImplementsFeed
    <2>1. Init => TypeInv /\ CursorInv /\ ResumedInv
      BY <1>1, TypeInit, CursorInvInit, ResumedInvStep
    <2>2. TypeInv /\ CursorInv /\ ResumedInv /\ [Next]_vars
            => (TypeInv /\ CursorInv /\ ResumedInv)'
      BY <1>1, TypeStep, CursorInvStep, ResumedInvStep
    <2>3. TypeInv /\ CursorInv /\ ResumedInv /\ [Next]_vars => [Feed!Next]_(Feed!vars)
      BY <1>1, FeedStep
    <2>4. ASSUME Init PROVE Feed!Init
      <3>1. Feed!Covered(cursorRow)
        BY <2>1, <2>4 DEF CursorInv, Covered, Feed!Covered, Feed!InScope, InScope,
                          Feed!Positions, Positions
      <3> QED
        BY <2>1, <2>4, <3>1 DEF Init, Feed!Init, FeedInit, Feed!FeedInit, TypeInv, TypeOK
    <2> QED
      BY <2>1, <2>2, <2>3, <2>4, PTL DEF Spec, ImplementsFeed, Feed!Spec
  <1> QED
    BY <1>1

-----------------------------------------------------------------------------
(* No stale average lasts.                                                 *)

(* An average depends on the rows of its own dataset. *)
LEMMA AggregateOfOthers ==
    ASSUME attestations \in [Datasets \X Curators -> AttestationRow \cup {NoRow}],
           NEW d \in Datasets, NEW e \in Datasets, NEW c \in Curators, NEW row, d # e,
           attestations' = [attestations EXCEPT ![<<e, c>>] = row]
    PROVE  Aggregate(d)' = Aggregate(d)
  <1>1. \A b \in Curators : attestations'[<<d, b>>] = attestations[<<d, b>>]
    OBVIOUS
  <1>2. RowsOf(d)' = RowsOf(d)
    BY <1>1 DEF RowsOf
  <1>3. ScoresOf(d)' = ScoresOf(d)
    <2>1. \A b \in RowsOf(d) : attestations'[<<d, b>>] = attestations[<<d, b>>]
      BY <1>1 DEF RowsOf
    <2> QED
      BY <1>2, <2>1 DEF ScoresOf
  <1> QED
    BY <1>3 DEF Aggregate

LEMMA AggregateKept ==
    ASSUME UNCHANGED attestations, NEW d
    PROVE  Aggregate(d)' = Aggregate(d)
  BY DEF Aggregate, ScoresOf, RowsOf

LEMMA StaleInvStep ==
    TypeInv /\ CursorInv /\ SavedCursor # 0 /\ ResumedInv /\ UncutPages /\ StaleInv /\ [Next]_vars
        => StaleInv'
  <1> SUFFICES ASSUME TypeInv, CursorInv, SavedCursor # 0, ResumedInv, UncutPages,
                      StaleInv, [Next]_vars,
                      NEW d \in Datasets, quality'[d] # Aggregate(d)'
               PROVE  (\E i \in Positions : Attests(i, d) /\ Ahead(i))'
    BY DEF StaleInv
  <1>0. /\ \A i \in Positions : chain[i].ledger \in Nat
        /\ tip \in Nat /\ cursor \in Nat /\ cursorRow \in Nat /\ latest \in Nat
        /\ pos \in Nat /\ end \in Nat
    BY SMTT(30), HistoryType DEF TypeInv, TypeOK, Ledgers
  <1>1. CASE UNCHANGED <<attestations, quality>> /\ ~UpsertAttestation /\ ~UpsertQuality
    <2>1. PICK i \in Positions : Attests(i, d) /\ Ahead(i)
      BY <1>1, AggregateKept DEF StaleInv
    <2>2. CASE UNCHANGED vars
      BY <2>1, <2>2 DEF vars, feedVars, locals, Attests, Ahead, InPage, Visible, Positions
    <2>3. CASE ChainAdvances
      <3>1. chain' = chain /\ tip' = tip + 1
        BY <2>3 DEF ChainAdvances, CloseLedger
      <3>2. Visible(i)'
        BY <1>0, <2>1, <3>1 DEF Ahead, Visible
      <3> QED
        BY <2>1, <2>3, <3>1, <3>2 DEF ChainAdvances, locals, Attests, Ahead, InPage, Positions
    <2>4. CASE LoadCursor
      <3>1. cursorRow # 0
        BY QualityAssumption DEF ResumedInv, TypeInv, TypeOK
      <3> QED
        BY <2>1, <2>4, <3>1 DEF LoadCursor, feedVars, Attests, Ahead, InPage, Visible, Positions
    <2>5. CASE GetEvents
      <3>1. PICK lo \in 0 .. Len(chain), hi \in 0 .. Len(chain) :
              IsPage(lo, hi, FromLedger) /\ pos' = lo /\ end' = hi
        BY <2>5 DEF GetEvents
      <3>2. chain[i].ledger <= tip /\ chain[i].ledger > cursor
        BY <2>1, <2>5 DEF Ahead, Visible, GetEvents
      <3>3. i <= hi
        BY <1>0, <2>5, <3>1, <3>2, PageUncut DEF GetEvents, FromLedger, TypeInv, Visible
      <3>4. lo < i
        BY <1>0, <3>1, <3>2 DEF IsPage, FromLedger, Positions
      <3> QED
        BY <2>1, <2>5, <3>1, <3>3, <3>4
           DEF GetEvents, feedVars, Attests, Ahead, InPage, Visible, Positions
    <2>6. CASE GetEventsRefused \/ RpcError \/ HandlerError \/ SaveCursorError \/ Exit
      <3>1. /\ UNCHANGED <<chain, tip, cursorRow>>
            /\ pc' = "load" \/ (pc' = "poll" /\ pc # "load" /\ cursor' = cursor)
        BY <2>6 DEF GetEventsRefused, RpcError, HandlerError, SaveCursorError, Exit,
                    PollFails, feedVars, locals
      <3> QED
        BY <2>1, <3>1 DEF Attests, Ahead, InPage, Visible, Positions
    <2>7. CASE Slash \/ RegisterCurator \/ IgnoreEvent
      <3>1. Handled /\ pc = "handle" /\ pos < end /\ Body.kind # "attested"
        BY <2>7 DEF Slash, RegisterCurator, IgnoreEvent, Due
      <3>2. i # pos + 1
        BY <2>1, <3>1 DEF Attests, Body
      <3>3. pos + 1 < i /\ i <= end
        BY <1>0, <2>1, <3>1, <3>2 DEF Ahead, InPage, Positions
      <3> QED
        BY <2>1, <3>1, <3>3
           DEF Handled, feedVars, Attests, Ahead, InPage, Visible, Positions
    <2>8. CASE AdvanceCursor
      BY <1>0, <2>1, <2>8 DEF AdvanceCursor, Ahead, InPage, Positions
    <2>9. CASE SaveCursor
      BY <2>1, <2>9 DEF SaveCursor, feedVars, locals, Attests, Ahead, InPage, Visible, Positions
    <2> QED
      BY <1>1, <2>2, <2>3, <2>4, <2>5, <2>6, <2>7, <2>8, <2>9
         DEF Next, Step, Failure
  <1>2. CASE UpsertAttestation
    <2> DEFINE k == pos + 1
    <2>1. pos < end /\ Body.kind = "attested" /\ Body.datasetId \in Datasets
          /\ Body.curator \in Curators /\ k \in Positions
      BY <1>2, DueEvent, BodyType DEF UpsertAttestation, Due
    <2>2. pc = "handle" /\ pc' = "aggregate" /\ UNCHANGED <<chain, tip, cursorRow, quality, locals>>
      BY <1>2 DEF UpsertAttestation, Due, feedVars
    <2>3. CASE d = Body.datasetId
      <3>1. Attests(k, d) /\ pos < k /\ k <= end
        BY <1>0, <2>1, <2>3 DEF Attests, Body
      <3>2. chain[k].ledger > cursor /\ cursorRow <= cursor /\ chain[k].ledger <= tip
        BY <1>0, <2>1, <2>2, <3>1 DEF CursorInv, InPage
      <3>3. Ahead(k)
        BY <1>0, <2>1, <3>1, <3>2 DEF Ahead, Visible
      <3> QED
        BY <2>1, <2>2, <3>1, <3>3 DEF locals, Attests, Ahead, InPage, Visible, Positions
    <2>4. CASE d # Body.datasetId
      <3>1. Aggregate(d)' = Aggregate(d)
        BY <1>2, <2>1, <2>4, AggregateOfOthers DEF UpsertAttestation, TypeInv, TypeOK
      <3>2. PICK i \in Positions : Attests(i, d) /\ Ahead(i)
        BY <2>2, <3>1 DEF StaleInv
      <3> QED
        BY <2>2, <3>2 DEF locals, Attests, Ahead, InPage, Visible, Positions
    <2> QED
      BY <2>3, <2>4
  <1>3. CASE UpsertQuality
    <2>1. pos < end /\ Body.datasetId \in Datasets /\ Handled /\ pc = "aggregate"
      BY <1>3, DueEvent, BodyType DEF UpsertQuality, TypeInv
    <2>2. Aggregate(d)' = Aggregate(d)
      BY <1>3, AggregateKept DEF UpsertQuality
    <2>3. d # Body.datasetId /\ quality'[d] = quality[d]
      BY <1>3, <2>1, <2>2 DEF UpsertQuality, SelectAverage, TypeInv, TypeOK
    <2>4. PICK i \in Positions : Attests(i, d) /\ Ahead(i)
      BY <2>2, <2>3 DEF StaleInv
    <2>5. i # pos + 1
      BY <2>3, <2>4 DEF Attests, Body
    <2>6. pos + 1 < i /\ i <= end
      BY <1>0, <2>1, <2>4, <2>5 DEF Ahead, InPage, Positions
    <2> QED
      BY <2>1, <2>4, <2>6
         DEF Handled, feedVars, Attests, Ahead, InPage, Visible, Positions
  <1>4. ~UpsertAttestation /\ ~UpsertQuality => UNCHANGED <<attestations, quality>>
    BY DEF Next, Step, Failure, vars, tables, ChainAdvances, LoadCursor, GetEvents,
       GetEventsRefused, RpcError, HandlerError, SaveCursorError, Exit, PollFails, Slash,
       RegisterCurator, IgnoreEvent, AdvanceCursor, SaveCursor
  <1> QED
    BY <1>1, <1>2, <1>3, <1>4

LEMMA StaleInvInit == Init => StaleInv
  <1> SUFFICES ASSUME Init, NEW d \in Datasets PROVE quality[d] = Aggregate(d)
    BY DEF StaleInv
  <1>1. RowsOf(d) = {}
    BY DEF Init, RowsOf
  <1>2. DOMAIN ScoresOf(d) = {}
    BY <1>1 DEF ScoresOf
  <1> QED
    BY <1>2 DEF Init, Aggregate, Average

ResumedInvariant ==
    TypeInv /\ CursorInv /\ ResumedInv /\ StaleInv

LEMMA ResumedRuns ==
    UncutPages /\ SavedCursor # 0 => (Spec => []ResumedInvariant)
  <1>1. ASSUME UncutPages, SavedCursor # 0 PROVE Spec => []ResumedInvariant
    <2>1. Init => ResumedInvariant
      BY <1>1, TypeInit, CursorInvInit, ResumedInvStep, StaleInvInit DEF ResumedInvariant
    <2>2. ResumedInvariant /\ [Next]_vars => ResumedInvariant'
      BY <1>1, TypeStep, CursorInvStep, ResumedInvStep, StaleInvStep DEF ResumedInvariant
    <2> QED
      BY <2>1, <2>2, PTL DEF Spec
  <1> QED
    BY <1>1

(***************************************************************************)
(* In every run after the first: an average that disagrees with its        *)
(* attestations has one past the saved cursor, whatever fails.             *)
(***************************************************************************)
THEOREM StaleAveragesAreRedone ==
    UncutPages /\ SavedCursor # 0 => (Spec => []StaleAverageIsRedone)
  <1>1. ResumedInvariant => StaleAverageIsRedone
    <2> SUFFICES ASSUME ResumedInvariant, NEW d \in Datasets, quality[d] # Aggregate(d)
                 PROVE  \E i \in Positions :
                            /\ chain[i].ledger > cursorRow
                            /\ Visible(i)
                            /\ chain[i].body.kind = "attested"
                            /\ chain[i].body.datasetId = d
      BY DEF StaleAverageIsRedone
    <2>1. PICK i \in Positions : Attests(i, d) /\ Ahead(i)
      BY DEF ResumedInvariant, StaleInv
    <2> QED
      BY <2>1 DEF Attests, Ahead
  <1> QED
    BY <1>1, ResumedRuns, PTL

-----------------------------------------------------------------------------
(* Replaying is harmless.                                                  *)

(***************************************************************************)
(* What a step may do to the events that rows stem from: those that may    *)
(* have been handled stay so, and none becomes settled.                    *)
(***************************************************************************)
QuietStep ==
    /\ chain' = chain
    /\ \A i \in Positions : InScope(i)' <=> InScope(i)
    /\ \A i \in Positions : Reached(i) => Reached(i)'
    /\ \A i \in Positions : Settled(i)' => Settled(i)

(* The event that is handled is the only one to become settled. *)
HandlesOne(k) ==
    /\ chain' = chain
    /\ k \in Positions /\ Reached(k)
    /\ \A i \in Positions : InScope(i)' <=> InScope(i)
    /\ \A i \in Positions : Reached(i) => Reached(i)'
    /\ \A i \in Positions : Settled(i)' => Settled(i) \/ i = k
    /\ \A i \in Positions : Settled(i)' => i <= k
    /\ \A i \in Positions : InScope(i) /\ i < k => Settled(i)

LEMMA QuietKeepsTables ==
    ASSUME TablesInv, QuietStep, UNCHANGED <<attestations, curators>>
    PROVE  TablesInv'
  <1>1. ASSUME NEW d \in Datasets, NEW c \in Curators PROVE AttestationInv(d, c)'
    <2>1. AttestationInv(d, c)
      BY DEF TablesInv
    <2> QED
      BY <2>1 DEF AttestationInv, AttestedBy, Attests, QuietStep, Positions
  <1>2. ASSUME NEW c \in Curators PROVE CuratorInv(c)'
    <2>1. CuratorInv(c)
      BY DEF TablesInv
    <2>2. CASE curators[c] = NoRow
      BY <2>1, <2>2 DEF CuratorInv, Registers, QuietStep, Positions
    <2>3. CASE curators[c] # NoRow
      <3>1. PICK m \in Positions :
              /\ Registers(m, c) /\ Reached(m)
              /\ curators[c].registered = chain[m].ledger
              /\ \A i \in Positions : Registers(i, c) /\ InScope(i) => m <= i
              /\ SlashInv(c, m)
        BY <2>1, <2>3 DEF CuratorInv
      <3>2. SlashInv(c, m)'
        BY <3>1 DEF SlashInv, Slashes, QuietStep, Positions
      <3> QED
        BY <2>3, <3>1, <3>2 DEF CuratorInv, Registers, QuietStep, Positions
    <2> QED
      BY <2>2, <2>3
  <1> QED
    BY <1>1, <1>2 DEF TablesInv

LEMMA QuietActions ==
    ASSUME TypeInv, CursorInv, SavedCursor # 0, ResumedInv, UncutPages,
           \/ UNCHANGED vars \/ ChainAdvances \/ LoadCursor \/ GetEvents
           \/ GetEventsRefused \/ Failure \/ UpsertQuality \/ AdvanceCursor \/ SaveCursor
    PROVE  QuietStep
  <1>0. /\ \A i \in Positions : chain[i].ledger \in Nat
        /\ tip \in Nat /\ cursor \in Nat /\ cursorRow \in Nat /\ latest \in Nat
        /\ pos \in Nat /\ end \in Nat
    BY SMTT(30), HistoryType DEF TypeInv, TypeOK, Ledgers
  <1>1. CASE UNCHANGED vars
    BY <1>1 DEF vars, feedVars, locals, history, QuietStep, Reached, Settled, InPage,
                InScope, Visible, Positions
  <1>2. CASE ChainAdvances
    <2>1. chain' = chain /\ tip' = tip + 1 /\ UNCHANGED <<cursorRow, pc, locals, history>>
      BY <1>2 DEF ChainAdvances, CloseLedger
    <2>2. \A i \in Positions : Visible(i) => Visible(i)'
      BY <1>0, <2>1 DEF Visible
    <2> QED
      BY <2>1, <2>2 DEF locals, history, QuietStep, Reached, Settled, InPage, InScope,
                        Positions
  <1>3. CASE LoadCursor
    <2>1. cursorRow # 0
      BY QualityAssumption DEF ResumedInv, TypeInv, TypeOK
    <2> QED
      BY <1>3, <2>1 DEF LoadCursor, feedVars, QuietStep, Reached, Settled, InPage, InScope,
                        Visible, Positions
  <1>4. CASE GetEvents
    <2>1. PICK lo \in 0 .. Len(chain), hi \in 0 .. Len(chain) :
            IsPage(lo, hi, FromLedger) /\ pos' = lo /\ end' = hi
      BY <1>4 DEF GetEvents
    <2>2. \A i \in Positions : i <= hi <=> Visible(i)
      BY <1>0, <1>4, <2>1, PageUncut DEF GetEvents, FromLedger, TypeInv
    <2>3. \A i \in Positions : i <= lo => chain[i].ledger <= cursor
      BY <1>0, <2>1 DEF IsPage, FromLedger
    <2> QED
      BY <1>4, <2>1, <2>2, <2>3
         DEF GetEvents, feedVars, history, QuietStep, Reached, Settled, InPage, InScope,
             Visible, Positions
  <1>5. CASE GetEventsRefused \/ Failure
    <2>1. /\ UNCHANGED <<chain, tip, cursorRow, origin>>
          /\ pc' = "load" \/ (pc' = "poll" /\ pc # "load" /\ cursor' = cursor)
      BY <1>5 DEF GetEventsRefused, Failure, RpcError, HandlerError, SaveCursorError, Exit,
                  PollFails, feedVars, history, locals
    <2>2. ASSUME NEW i \in Positions, Settled(i)' PROVE Settled(i)
      <3>1. InScope(i)
        BY <2>1, <2>2 DEF Settled, InScope
      <3>2. CASE pc = "load"
        BY <2>1, <2>2, <3>1, <3>2 DEF Settled
      <3>3. CASE pc # "load"
        <4>1. chain[i].ledger <= cursor
          BY <1>0, <2>1, <2>2, <3>3 DEF Settled, CursorInv
        <4>2. InPage => i <= pos
          BY <1>0, <4>1 DEF CursorInv, Positions
        <4> QED
          BY <1>0, <3>1, <3>3, <4>1, <4>2 DEF Settled, InPage, Positions
      <3> QED
        BY <3>2, <3>3
    <2> QED
      BY <2>1, <2>2 DEF QuietStep, Reached, InPage, InScope, Visible
  <1>6. CASE UpsertQuality
    <2>1. pc = "aggregate" /\ pc' = "handle" /\ pos' = pos + 1
          /\ UNCHANGED <<chain, tip, cursorRow, cursor, end, origin>>
      BY <1>6 DEF UpsertQuality, Handled, feedVars
    <2> QED
      BY <2>1 DEF QuietStep, Reached, Settled, InPage, InScope, Visible, Positions
  <1>7. CASE AdvanceCursor
    <2>1. /\ UNCHANGED <<chain, tip, cursorRow, origin>> /\ pc = "handle" /\ pos = end
          /\ pc' = "save" /\ cursor' = latest
      BY <1>0, <1>7 DEF AdvanceCursor, CursorInv, InPage, feedVars, history
    <2>2. \A i \in Positions : chain[i].ledger <= latest => i <= pos
      BY <2>1 DEF CursorInv, InPage
    <2> QED
      BY <2>1, <2>2 DEF QuietStep, Reached, Settled, InPage, InScope, Visible, Positions
  <1>8. CASE SaveCursor
    BY <1>8 DEF SaveCursor, feedVars, locals, history, QuietStep, Reached, Settled, InPage,
                InScope, Visible, Positions
  <1> QED
    BY <1>1, <1>2, <1>3, <1>4, <1>5, <1>6, <1>7, <1>8

LEMMA HandlingActions ==
    ASSUME TypeInv, CursorInv, SavedCursor # 0, ResumedInv,
           UpsertAttestation \/ Slash \/ RegisterCurator \/ IgnoreEvent
    PROVE  HandlesOne(pos + 1)
  <1> DEFINE k == pos + 1
  <1>0. /\ \A i \in Positions : chain[i].ledger \in Nat
        /\ tip \in Nat /\ cursor \in Nat /\ cursorRow \in Nat /\ latest \in Nat
        /\ pos \in Nat /\ end \in Nat
    BY SMTT(30), HistoryType DEF TypeInv, TypeOK, Ledgers
  <1>1. /\ UNCHANGED <<chain, tip, cursorRow, cursor, end, origin>>
        /\ pc = "handle" /\ pos < end
        /\ \/ pc' = "handle" /\ pos' = k
           \/ pc' = "aggregate" /\ pos' = pos
    BY DEF UpsertAttestation, Slash, RegisterCurator, IgnoreEvent, Due, Handled, feedVars,
           locals, history
  <1>2. k \in Positions /\ k <= end
    BY <1>0, <1>1, DueEvent
  <1>3. chain[k].ledger > cursor /\ chain[k].ledger <= tip /\ cursorRow <= cursor
    BY <1>0, <1>1, <1>2 DEF CursorInv, InPage
  <1>4. Reached(k)
    BY <1>0, <1>2, <1>3, QualityAssumption DEF Reached, InScope, Visible, ResumedInv
  <1>5. \A i \in Positions : Settled(i)' => InScope(i) /\ i <= k
    BY <1>0, <1>1 DEF Settled, InScope
  <1>6. \A i \in Positions : InScope(i) /\ i < k => Settled(i)
    BY <1>0, <1>1 DEF Settled, Positions
  <1>7. \A i \in Positions : Settled(i)' => Settled(i) \/ i = k
    BY <1>0, <1>5, <1>6 DEF Positions
  <1>8. \A i \in Positions : (InScope(i)' <=> InScope(i)) /\ (Reached(i) => Reached(i)')
    BY <1>1 DEF Reached, InPage, InScope, Visible
  <1> QED
    BY <1>1, <1>2, <1>4, <1>5, <1>6, <1>7, <1>8 DEF HandlesOne

(* Rows that the event does not bear on. *)
LEMMA AttestationKept ==
    ASSUME NEW k, HandlesOne(k), NEW d, NEW c, AttestationInv(d, c), ~AttestedBy(k, d, c),
           attestations'[<<d, c>>] = attestations[<<d, c>>]
    PROVE  AttestationInv(d, c)'
  <1>1. CASE attestations[<<d, c>>] = NoRow /\ \A i \in Positions : AttestedBy(i, d, c) => ~Settled(i)
    BY <1>1 DEF AttestationInv, AttestedBy, Attests, HandlesOne, Positions
  <1>2. CASE \E e \in Positions :
            /\ AttestedBy(e, d, c) /\ Reached(e)
            /\ attestations[<<d, c>>] = [score |-> chain[e].body.score,
                                         ledger |-> chain[e].ledger]
            /\ \A i \in Positions : AttestedBy(i, d, c) /\ Settled(i) => i <= e
    BY <1>2 DEF AttestationInv, AttestedBy, Attests, HandlesOne, Positions
  <1> QED
    BY <1>1, <1>2 DEF AttestationInv

LEMMA CuratorKept ==
    ASSUME NEW k, HandlesOne(k), NEW c, CuratorInv(c), curators'[c] = curators[c],
           Registers(k, c) => curators[c] # NoRow,
           Slashes(k, c) => curators[c] = NoRow
    PROVE  CuratorInv(c)'
  <1>1. CASE curators[c] = NoRow
    BY <1>1 DEF CuratorInv, Registers, HandlesOne, Positions
  <1>2. CASE curators[c] # NoRow
    <2>1. PICK m \in Positions :
            /\ Registers(m, c) /\ Reached(m)
            /\ curators[c].registered = chain[m].ledger
            /\ \A i \in Positions : Registers(i, c) /\ InScope(i) => m <= i
            /\ SlashInv(c, m)
      BY <1>2 DEF CuratorInv
    <2>2. SlashInv(c, m)'
      BY <1>2, <2>1 DEF SlashInv, Slashes, HandlesOne, Positions
    <2> QED
      BY <1>2, <2>1, <2>2 DEF CuratorInv, Registers, HandlesOne, Positions
  <1> QED
    BY <1>1, <1>2

LEMMA UpsertAttestationKeeps ==
    ASSUME TypeInv, CursorInv, SavedCursor # 0, ResumedInv, TablesInv, UpsertAttestation
    PROVE  TablesInv'
  <1> DEFINE k == pos + 1
  <1>1. HandlesOne(k) /\ curators' = curators /\ pos \in Nat
    BY HandlingActions DEF UpsertAttestation, TypeInv, TypeOK
  <1>2. pos < end /\ Body.kind = "attested" /\ Body.datasetId \in Datasets
        /\ Body.curator \in Curators
    BY DueEvent, BodyType DEF UpsertAttestation, Due
  <1>3. ASSUME NEW d \in Datasets, NEW c \in Curators PROVE AttestationInv(d, c)'
    <2>1. CASE d = Body.datasetId /\ c = Body.curator
      <3>1. attestations'[<<d, c>>] = [score |-> chain[k].body.score, ledger |-> chain[k].ledger]
        BY <2>1, <1>2 DEF UpsertAttestation, TypeInv, TypeOK, Body, EventLedger
      <3>2. AttestedBy(k, d, c)
        BY <2>1, <1>2 DEF AttestedBy, Attests, Body
      <3> QED
        BY <1>1, <3>1, <3>2 DEF AttestationInv, AttestedBy, Attests, HandlesOne, Positions
    <2>2. CASE ~(d = Body.datasetId /\ c = Body.curator)
      <3>1. attestations'[<<d, c>>] = attestations[<<d, c>>] /\ ~AttestedBy(k, d, c)
        BY <2>2, <1>2 DEF UpsertAttestation, TypeInv, TypeOK, AttestedBy, Attests, Body
      <3> QED
        BY <1>1, <3>1, AttestationKept DEF TablesInv
    <2> QED
      BY <2>1, <2>2
  <1>4. ASSUME NEW c \in Curators PROVE CuratorInv(c)'
    <2>1. ~Registers(k, c) /\ ~Slashes(k, c)
      BY <1>2 DEF Registers, Slashes, Body
    <2> QED
      BY <1>1, <2>1, CuratorKept DEF TablesInv
  <1> QED
    BY <1>3, <1>4 DEF TablesInv

LEMMA RegisterCuratorKeeps ==
    ASSUME TypeInv, CursorInv, SavedCursor # 0, ResumedInv, TablesInv, RegisterCurator
    PROVE  TablesInv'
  <1>0. PICK k : k = pos + 1
    OBVIOUS
  <1>1. HandlesOne(k) /\ attestations' = attestations
    BY <1>0, HandlingActions DEF RegisterCurator
  <1>2. pos < end /\ Body.kind = "curator" /\ Body.curator \in Curators
        /\ EventLedger \in Ledgers
    BY DueEvent, BodyType DEF RegisterCurator, Due
  <1>3. ASSUME NEW d \in Datasets, NEW c \in Curators PROVE AttestationInv(d, c)'
    <2>1. ~AttestedBy(k, d, c)
      BY <1>0, <1>2 DEF AttestedBy, Attests, Body
    <2> QED
      BY <1>1, <2>1, AttestationKept DEF TablesInv
  <1>4. ASSUME NEW c \in Curators PROVE CuratorInv(c)'
    <2>0. CuratorInv(c) /\ ~Slashes(k, c)
      BY <1>0, <1>2 DEF TablesInv, Slashes, Body
    <2>1. CASE c = Body.curator /\ curators[c] = NoRow
      <3>1. curators'[c] = [registered |-> chain[k].ledger, slashed |-> 0]
        BY <1>0, <2>1, <1>2 DEF RegisterCurator, InsertCurator, TypeInv, TypeOK, EventLedger
      <3>2. curators'[c] # NoRow
        BY <1>0, <3>1, <1>2, QualityAssumption, FeedAssumption DEF CuratorRow, EventLedger
      <3>3. Registers(k, c)
        BY <1>0, <2>1, <1>2 DEF Registers, Body
      <3>4. \A i \in Positions : Registers(i, c) /\ InScope(i) => k <= i
        <4> SUFFICES ASSUME NEW i \in Positions, Registers(i, c), InScope(i), i < k PROVE FALSE
          BY <1>1 DEF HandlesOne, Positions
        <4>1. Settled(i)
          BY <1>1 DEF HandlesOne
        <4> QED
          BY <2>0, <2>1, <4>1 DEF CuratorInv
      <3>5. SlashInv(c, k)'
        <4>1. \A i \in Positions : Settled(i)' => i <= k
          BY <1>1 DEF HandlesOne
        <4>2. \A i \in Positions : Settled(i)' => ~(k < i)
          BY <1>1, <4>1 DEF HandlesOne, Positions
        <4> QED
          BY <1>1, <3>1, <4>2 DEF SlashInv, HandlesOne, Positions
      <3> QED
        BY <1>1, <3>1, <3>2, <3>3, <3>4, <3>5 DEF CuratorInv, Registers, HandlesOne, Positions
    <2>2. CASE ~(c = Body.curator /\ curators[c] = NoRow)
      <3>1. curators'[c] = curators[c]
        BY <2>2, <1>2 DEF RegisterCurator, InsertCurator, TypeInv, TypeOK
      <3>2. Registers(k, c) => curators[c] # NoRow
        BY <1>0, <2>2 DEF Registers, Body
      <3> QED
        BY <1>1, <2>0, <3>1, <3>2, CuratorKept
    <2> QED
      BY <2>1, <2>2
  <1> QED
    BY <1>3, <1>4 DEF TablesInv

LEMMA SlashKeeps ==
    ASSUME TypeInv, CursorInv, SavedCursor # 0, ResumedInv, SlashedOnceRegistered,
           TablesInv, Slash
    PROVE  TablesInv'
  <1>0. PICK k : k = pos + 1
    OBVIOUS
  <1>1. HandlesOne(k) /\ attestations' = attestations
    BY <1>0, HandlingActions DEF Slash
  <1>2. pos < end /\ Body.kind = "slashed" /\ Body.curator \in Curators
        /\ EventLedger \in Ledgers
    BY DueEvent, BodyType DEF Slash, Due
  <1>3. ASSUME NEW d \in Datasets, NEW c \in Curators PROVE AttestationInv(d, c)'
    <2>1. ~AttestedBy(k, d, c)
      BY <1>0, <1>2 DEF AttestedBy, Attests, Body
    <2> QED
      BY <1>1, <2>1, AttestationKept DEF TablesInv
  <1>4. ASSUME NEW c \in Curators PROVE CuratorInv(c)'
    <2>0. CuratorInv(c) /\ ~Registers(k, c)
      BY <1>0, <1>2 DEF TablesInv, Registers, Body
    <2>1. CASE c = Body.curator /\ curators[c] # NoRow
      <3>1. curators[c] \in CuratorRow
        BY <2>1, <1>2 DEF TypeInv, TypeOK
      <3>2. curators'[c] = [curators[c] EXCEPT !.slashed = chain[k].ledger]
        BY <1>0, <2>1, <1>2 DEF Slash, SlashCurator, TypeInv, TypeOK, EventLedger
      <3>3. /\ curators'[c].registered = curators[c].registered
            /\ curators'[c].slashed = chain[k].ledger
            /\ curators'[c] \in CuratorRow
        BY SMTT(30), <1>0, <3>1, <3>2, <1>2, FeedAssumption DEF CuratorRow, EventLedger, Ledgers
      <3>4. PICK m \in Positions :
              /\ Registers(m, c) /\ Reached(m)
              /\ curators[c].registered = chain[m].ledger
              /\ \A i \in Positions : Registers(i, c) /\ InScope(i) => m <= i
        BY <2>0, <2>1 DEF CuratorInv
      <3>5. Slashes(k, c) /\ k \in Positions /\ InScope(k) /\ InScope(m)
        BY <1>0, <1>1, <1>2, <2>1, <3>4 DEF Slashes, Body, HandlesOne, Reached
      <3>6. m < k
        <4>1. /\ k \in 1 .. MaxEvents /\ m \in 1 .. MaxEvents
              /\ k <= Len(chain) /\ m <= Len(chain)
              /\ \A i \in 1 .. k - 1 : i \in Positions
          BY <3>5, HistoryType, FeedAssumption DEF Positions, TypeInv, TypeOK
        <4>2. \A i \in Positions : InScope(i) <=> chain[i].ledger > SavedCursor
          <5>1. \A i \in Positions : chain[i].ledger \in Nat
            BY SMTT(30), HistoryType DEF TypeInv, TypeOK, Ledgers
          <5> QED
            BY <5>1, QualityAssumption DEF InScope, ResumedInv
        <4>3. \E i \in 1 .. k - 1 : Registers(i, c) /\ chain[i].ledger > SavedCursor
          <5>1. /\ chain \in Chains
                /\ chain[k].ledger > SavedCursor /\ chain[m].ledger > SavedCursor
            BY <3>4, <3>5, <4>2 DEF TypeInv, TypeOK
          <5>2. /\ chain[k].body.kind = "slashed" /\ chain[m].body.kind = "curator"
                /\ chain[k].body.curator = c /\ chain[m].body.curator = c
            BY <3>4, <3>5 DEF Registers, Slashes
          <5>3. PICK i \in 1 .. k - 1 :
                  /\ chain[i].body.kind = "curator" /\ chain[i].body.curator = c
                  /\ chain[i].ledger > SavedCursor
            BY <4>1, <5>1, <5>2 DEF SlashedOnceRegistered
          <5> QED
            BY <5>3 DEF Registers
        <4>4. PICK i \in 1 .. k - 1 : Registers(i, c) /\ chain[i].ledger > SavedCursor
          BY <4>3
        <4>5. m <= i
          BY <3>4, <4>1, <4>2, <4>4
        <4> QED
          BY <4>1, <4>4, <4>5
      <3>7. SlashInv(c, m)'
        BY <1>1, <3>3, <3>5, <3>6 DEF SlashInv, Slashes, HandlesOne, Positions
      <3> QED
        BY <1>1, <3>3, <3>4, <3>7, QualityAssumption
           DEF CuratorInv, Registers, HandlesOne, Positions
    <2>2. CASE ~(c = Body.curator /\ curators[c] # NoRow)
      <3>1. curators'[c] = curators[c]
        BY <2>2, <1>2 DEF Slash, SlashCurator, TypeInv, TypeOK
      <3>2. Slashes(k, c) => curators[c] = NoRow
        BY <1>0, <2>2 DEF Slashes, Body
      <3> QED
        BY <1>1, <2>0, <3>1, <3>2, CuratorKept
    <2> QED
      BY <2>1, <2>2
  <1> QED
    BY <1>3, <1>4 DEF TablesInv

LEMMA IgnoreEventKeeps ==
    ASSUME TypeInv, CursorInv, SavedCursor # 0, ResumedInv, TablesInv, IgnoreEvent
    PROVE  TablesInv'
  <1> DEFINE k == pos + 1
  <1>1. HandlesOne(k) /\ UNCHANGED tables /\ Body.kind = "other"
    BY HandlingActions DEF IgnoreEvent, Due
  <1>2. ASSUME NEW d, NEW c PROVE ~AttestedBy(k, d, c) /\ ~Registers(k, c) /\ ~Slashes(k, c)
    BY <1>1 DEF AttestedBy, Attests, Registers, Slashes, Body
  <1> QED
    BY <1>1, <1>2, AttestationKept, CuratorKept DEF TablesInv, tables

LEMMA TablesInvInit == SavedCursor # 0 /\ Init => TablesInv
  <1> SUFFICES ASSUME SavedCursor # 0, Init PROVE TablesInv
    OBVIOUS
  <1>1. \A i \in Positions : ~Settled(i)
    <2>1. \A i \in Positions : chain[i].ledger \in Nat
      BY TypeInit, HistoryType DEF TypeInv, TypeOK, Ledgers
    <2> QED
      BY <2>1, QualityAssumption DEF Init, Settled, InScope
  <1> QED
    BY <1>1 DEF Init, TablesInv, AttestationInv, CuratorInv

LEMMA TablesInvStep ==
    ASSUME UncutPages, SlashedOnceRegistered, SavedCursor # 0,
           TypeInv, CursorInv, ResumedInv, TablesInv, [Next]_vars
    PROVE  TablesInv'
  <1>1. CASE \/ UNCHANGED vars \/ ChainAdvances \/ LoadCursor \/ GetEvents
             \/ GetEventsRefused \/ Failure \/ UpsertQuality \/ AdvanceCursor \/ SaveCursor
    <2>1. UNCHANGED <<attestations, curators>>
      BY <1>1 DEF vars, tables, ChainAdvances, LoadCursor, GetEvents, GetEventsRefused,
         Failure, RpcError, HandlerError, SaveCursorError, Exit, PollFails, UpsertQuality,
         AdvanceCursor, SaveCursor
    <2> QED
      BY <1>1, <2>1, QuietActions, QuietKeepsTables
  <1> QED
    BY <1>1, UpsertAttestationKeeps, SlashKeeps, RegisterCuratorKeeps, IgnoreEventKeeps
       DEF Next, Step

(* The first and the last element of a set of positions. *)
LEMMA MaxIs ==
    ASSUME NEW S \in SUBSET Nat, NEW e \in S, \A x \in S : x <= e
    PROVE  Max(S) = e
  <1>1. \A y \in S : e >= y
    OBVIOUS
  <1>2. Max(S) \in S /\ \A y \in S : Max(S) >= y
    BY <1>1 DEF Max
  <1>3. Max(S) >= e /\ Max(S) <= e /\ Max(S) \in Nat /\ e \in Nat
    BY <1>2
  <1> QED
    BY <1>3

LEMMA MinIs ==
    ASSUME NEW S \in SUBSET Nat, NEW e \in S, \A x \in S : e <= x
    PROVE  Min(S) = e
  <1>1. Min(S) \in S /\ \A y \in S : Min(S) =< y
    BY DEF Min
  <1>2. Min(S) >= e /\ Min(S) <= e /\ Min(S) \in Nat /\ e \in Nat
    BY <1>1
  <1> QED
    BY <1>2

(* At the end of a page the settled events are those of the whole page. *)
LEMMA PageEnd ==
    ASSUME TypeInv, pc = "handle", pos = end
    PROVE  /\ \A i : i \in 1 .. end <=> i \in Positions /\ i <= end
           /\ \A i \in Positions :
                /\ Settled(i) <=> InScope(i) /\ i <= end
                /\ Reached(i) => InScope(i) /\ i <= end
           /\ \A kind : EventsUpTo(chain, end, kind) \in SUBSET Nat
  <1>1. Len(chain) \in Nat /\ end \in 0 .. Len(chain)
    BY HistoryType DEF TypeInv, TypeOK
  <1> QED
    BY <1>1 DEF Positions, Settled, Reached, InPage, InScope, EventsUpTo

LEMMA AttestationConverges ==
    ASSUME TypeInv, pc = "handle", pos = end, NEW d, NEW c, AttestationInv(d, c)
    PROVE  attestations[<<d, c>>] = AttestationAfter(chain, d, c, end)
  <1> DEFINE A == {i \in EventsUpTo(chain, end, "attested") :
                    chain[i].body.datasetId = d /\ chain[i].body.curator = c}
  <1>1. \A i : i \in A <=> i \in Positions /\ Settled(i) /\ AttestedBy(i, d, c)
    BY PageEnd DEF EventsUpTo, InScope, AttestedBy, Attests
  <1>2. A \in SUBSET Nat
    BY PageEnd
  <1>3. AttestationAfter(chain, d, c, end) =
            IF A = {} THEN NoRow
            ELSE [score |-> chain[Max(A)].body.score, ledger |-> chain[Max(A)].ledger]
    BY DEF AttestationAfter
  <1> HIDE DEF A
  <1>4. CASE attestations[<<d, c>>] = NoRow
             /\ \A i \in Positions : AttestedBy(i, d, c) => ~Settled(i)
    <2>1. A = {}
      BY <1>1, <1>4
    <2> QED
      BY <1>3, <1>4, <2>1
  <1>5. CASE \E e \in Positions :
            /\ AttestedBy(e, d, c) /\ Reached(e)
            /\ attestations[<<d, c>>] = [score |-> chain[e].body.score,
                                         ledger |-> chain[e].ledger]
            /\ \A i \in Positions : AttestedBy(i, d, c) /\ Settled(i) => i <= e
    <2>1. PICK e \in Positions :
            /\ AttestedBy(e, d, c) /\ Reached(e)
            /\ attestations[<<d, c>>] = [score |-> chain[e].body.score,
                                         ledger |-> chain[e].ledger]
            /\ \A i \in Positions : AttestedBy(i, d, c) /\ Settled(i) => i <= e
      BY <1>5
    <2>2. e \in A /\ \A i \in A : i <= e
      BY <1>1, <2>1, PageEnd
    <2>3. Max(A) = e /\ A # {}
      BY <1>2, <2>2, MaxIs
    <2> QED
      BY <1>3, <2>1, <2>3
  <1> QED
    BY <1>4, <1>5 DEF AttestationInv

LEMMA CuratorConverges ==
    ASSUME TypeInv, pc = "handle", pos = end, NEW c \in Curators, CuratorInv(c)
    PROVE  curators[c] = CuratorAfter(chain, c, end)
  <1> DEFINE R == {i \in EventsUpTo(chain, end, "curator") : chain[i].body.curator = c}
             S == {i \in EventsUpTo(chain, end, "slashed") : chain[i].body.curator = c /\ i > Min(R)}
  <1>1. /\ \A i : i \in R <=> i \in Positions /\ Settled(i) /\ Registers(i, c)
        /\ \A i : i \in S <=> i \in Positions /\ Settled(i) /\ Slashes(i, c) /\ i > Min(R)
    BY PageEnd DEF EventsUpTo, InScope, Registers, Slashes
  <1>2. R \in SUBSET Nat /\ S \in SUBSET Nat
    BY PageEnd
  <1>3. CuratorAfter(chain, c, end) =
            IF R = {} THEN NoRow
            ELSE [registered |-> chain[Min(R)].ledger,
                  slashed |-> IF S = {} THEN 0 ELSE chain[Max(S)].ledger]
    BY DEF CuratorAfter
  <1> HIDE DEF R, S
  <1>4. CASE curators[c] = NoRow
    <2>1. R = {}
      BY <1>1, <1>4 DEF CuratorInv
    <2> QED
      BY <1>3, <1>4, <2>1
  <1>5. CASE curators[c] # NoRow
    <2>1. PICK m \in Positions :
            /\ Registers(m, c) /\ Reached(m)
            /\ curators[c].registered = chain[m].ledger
            /\ \A i \in Positions : Registers(i, c) /\ InScope(i) => m <= i
            /\ SlashInv(c, m)
      BY <1>5 DEF CuratorInv
    <2>2. m \in R /\ \A i \in R : m <= i
      BY <1>1, <2>1, PageEnd
    <2>3. Min(R) = m /\ R # {}
      BY <1>2, <2>2, MinIs
    <2>4. curators[c].slashed = IF S = {} THEN 0 ELSE chain[Max(S)].ledger
      <3>1. CASE curators[c].slashed = 0
                 /\ \A i \in Positions : Slashes(i, c) /\ m < i => ~Settled(i)
        <4>1. \A i \in S : m < i /\ i \in Positions /\ Settled(i) /\ Slashes(i, c)
          BY <1>1, <2>3 DEF Positions
        <4>2. S = {}
          BY <3>1, <4>1
        <4> QED
          BY <3>1, <4>2
      <3>2. CASE \E e \in Positions :
                /\ Slashes(e, c) /\ Reached(e) /\ m < e
                /\ curators[c].slashed = chain[e].ledger
                /\ \A i \in Positions : Slashes(i, c) /\ Settled(i) => i <= e
        <4>1. PICK e \in Positions :
                /\ Slashes(e, c) /\ Reached(e) /\ m < e
                /\ curators[c].slashed = chain[e].ledger
                /\ \A i \in Positions : Slashes(i, c) /\ Settled(i) => i <= e
          BY <3>2
        <4>2. e > m
          BY <4>1 DEF Positions
        <4>3. e \in S /\ \A i \in S : i <= e
          BY <1>1, <2>3, <4>1, <4>2, PageEnd
        <4>4. Max(S) = e /\ S # {}
          BY <1>2, <4>3, MaxIs
        <4> QED
          BY <4>1, <4>4
      <3> QED
        BY <2>1, <3>1, <3>2 DEF SlashInv
    <2>5. curators[c] \in CuratorRow
      BY <1>5 DEF TypeInv, TypeOK
    <2>6. curators[c] = [registered |-> curators[c].registered, slashed |-> curators[c].slashed]
      BY <2>5 DEF CuratorRow
    <2> QED
      BY <1>3, <2>1, <2>3, <2>4, <2>6
  <1> QED
    BY <1>4, <1>5

(***************************************************************************)
(* In every run after the first: whenever a page has been handled to its   *)
(* end, the tables are those of one clean pass over the events so far,     *)
(* however often earlier polls were cut short.  The contract must not      *)
(* slash a curator before registering it: such a slash finds no row at     *)
(* first, and finds one when it is replayed.                               *)
(***************************************************************************)
THEOREM ReplayIsHarmless ==
    UncutPages /\ SlashedOnceRegistered /\ SavedCursor # 0 => (Spec => []ReplayConverges)
  <1>1. ASSUME UncutPages, SlashedOnceRegistered, SavedCursor # 0
        PROVE  Spec => []ReplayConverges
    <2>1. Spec => []ResumedInvariant
      BY <1>1, ResumedRuns
    <2>2. Init => TablesInv
      BY <1>1, TablesInvInit
    <2>3. ResumedInvariant /\ TablesInv /\ [Next]_vars => TablesInv'
      BY <1>1, TablesInvStep DEF ResumedInvariant
    <2>4. ResumedInvariant /\ TablesInv => ReplayConverges
      <3> SUFFICES ASSUME ResumedInvariant, TablesInv, pc = "handle", pos = end
                   PROVE  TablesAreAfter(chain, end)
        BY DEF ReplayConverges
      <3>1. ASSUME NEW d \in Datasets PROVE quality[d] = Aggregate(d)
        <4>1. \A i \in Positions : ~(pos < i /\ i <= end)
          BY HistoryType DEF ResumedInvariant, TypeInv, TypeOK, Positions
        <4> QED
          BY <4>1 DEF ResumedInvariant, StaleInv, Ahead, InPage
      <3> QED
        BY <3>1, AttestationConverges, CuratorConverges
           DEF ResumedInvariant, TablesInv, TablesAreAfter
    <2> QED
      BY <2>1, <2>2, <2>3, <2>4, PTL DEF Spec
  <1> QED
    BY <1>1
=============================================================================
