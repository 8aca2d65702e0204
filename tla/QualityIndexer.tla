---------------------------- MODULE QualityIndexer ----------------------------
(***************************************************************************)
(* The QualityOracle event indexer (src/indexer/quality-indexer.ts): one   *)
(* process of its own that loads its cursor, then polls for ever.  A poll  *)
(* reads one page from cursor + 1, writes each event to the tables, moves  *)
(* the cursor in memory to the latest ledger of the response, and saves it.*)
(* One action per await; a SIGTERM ends the process at any of them.  The   *)
(* history an indexer is served is what the topic filters of its request   *)
(* select from the events the contract emits.                              *)
(***************************************************************************)
EXTENDS SorobanFeed, FiniteSetsExt, Functions

CONSTANTS
    Datasets,      \* dataset ids
    Curators,      \* curator addresses
    Scores,        \* scores of an attestation
    NoRow,         \* no row under this key
    Histories,     \* the events the contract may emit
    TopicFilters,  \* the "topics" of a getEvents request
    Wildcard,      \* a segment of a topic filter that matches every topic
    SavedCursor,   \* the cursor a former life saved; 0 on a first run
    Faults,        \* the kinds of failure that may happen
    MaxFaults      \* bound: how many failures may happen

VARIABLES
    attestations,  \* table quality_attestations, by dataset and curator
    quality,       \* table dataset_quality
    curators,      \* table curators
    cursorRow,     \* indexer_cursors.last_ledger; 0 when there is no row
    pc,            \* which await main() is at
    cursor,        \* let cursor
    pos,           \* the events of the response up to this one are handled
    end,           \* the last event of the response
    latest,        \* response.latestLedger
    faults,        \* how many failures have happened
    emitted,       \* history: the events the contract emits, past and future
    origin,        \* history: the first ledger the indexer answers for
    delivered      \* history: the events handled at least once

tables == <<attestations, quality, curators>>
locals == <<cursor, pos, end, latest>>
history == <<emitted, origin, delivered>>
vars == <<feedVars, tables, cursorRow, pc, locals, faults, history>>

FaultKinds == {"rpc", "db", "save", "exit"}

QualityBodies ==
    [kind : {"attested"}, datasetId : Datasets, curator : Curators, score : Scores]
    \cup [kind : {"slashed", "curator"}, curator : Curators]
    \cup [kind : {"other"}]

AttestationRow == [score : Scores, ledger : Ledgers]
CuratorRow == [registered : Ledgers, slashed : 0 .. MaxLedger]

-----------------------------------------------------------------------------
(* What getEvents selects.                                                 *)

(* The topics the handlers expect; an event of another kind has three. *)
Topics(body) ==
    CASE body.kind = "attested" ->
            <<"oracle", "attested", body.datasetId, body.curator>>
      [] body.kind \in {"slashed", "curator"} -> <<"oracle", body.kind, body.curator>>
      [] OTHER -> <<"oracle", "other", "data">>

(* A filter has as many segments as the event has topics, and each of them *)
(* is the wildcard or the topic itself.                                    *)
Matches(filter, topics) ==
    /\ Len(filter) = Len(topics)
    /\ \A n \in 1 .. Len(filter) : filter[n] \in {Wildcard, topics[n]}

(* topicFilter("oracle", "*"): each part, "*" too, is encoded as a symbol. *)
SentFilter == <<"oracle", "*">>

Selected(event) == \E filter \in TopicFilters : Matches(filter, Topics(event.body))

Selection(events) == SelectSeq(events, Selected)

ASSUME QualityAssumption ==
    /\ Bodies = QualityBodies
    /\ Chains = {Selection(events) : events \in Histories}
    /\ Scores \subseteq 0 .. 100
    /\ NoRow \notin AttestationRow \cup CuratorRow
    /\ SavedCursor \in Nat
    /\ Faults \subseteq FaultKinds
    /\ MaxFaults \in Nat

-----------------------------------------------------------------------------

Init ==
    /\ FeedInit
    /\ emitted \in Histories /\ chain = Selection(emitted)
    /\ attestations = [k \in Datasets \X Curators |-> NoRow]
    /\ quality = [d \in Datasets |-> NoRow]
    /\ curators = [c \in Curators |-> NoRow]
    /\ cursorRow = SavedCursor
    /\ pc = "load"
    /\ cursor = 0 /\ pos = 0 /\ end = 0 /\ latest = 0
    /\ faults = 0
    /\ origin = IF SavedCursor = 0 THEN 0 ELSE SavedCursor + 1
    /\ delivered = {}

Fail(kind) ==
    /\ kind \in Faults
    /\ faults < MaxFaults
    /\ faults' = faults + 1

(* loadCursor: the saved row, or the latest ledger on a first run. *)
LoadCursor ==
    /\ pc = "load"
    /\ cursor' = IF cursorRow # 0 THEN cursorRow ELSE tip
    /\ origin' = IF cursorRow # 0 THEN origin ELSE tip + 1
    /\ pc' = "poll"
    /\ UNCHANGED <<feedVars, tables, cursorRow, pos, end, latest, faults, emitted, delivered>>

(* Faulty variant: both main() and processEvents() add one. *)
LedgerAfterNext == cursor + 2

FromLedger == cursor + 1

GetEvents ==
    /\ pc = "poll"
    /\ Serves(FromLedger)
    /\ \E lo, hi \in 0 .. Len(chain) :
        /\ IsPage(lo, hi, FromLedger)
        /\ pos' = lo
        /\ end' = hi
    /\ latest' = tip
    /\ pc' = "handle"
    /\ UNCHANGED <<feedVars, tables, cursorRow, cursor, faults, history>>

(* The poll failed: main() logs and keeps its cursor. *)
PollFails ==
    /\ pc' = "poll"
    /\ pos' = 0 /\ end' = 0 /\ latest' = 0
    /\ UNCHANGED <<feedVars, tables, cursorRow, cursor, history>>

GetEventsRefused ==
    /\ pc = "poll"
    /\ ~Serves(FromLedger)
    /\ PollFails
    /\ UNCHANGED faults

RpcError == pc = "poll" /\ Fail("rpc") /\ PollFails

-----------------------------------------------------------------------------
(* The handlers.  handleAttested is two queries and no transaction.        *)

Body == chain[pos + 1].body
EventLedger == chain[pos + 1].ledger

Due(kind) == pc = "handle" /\ pos < end /\ Body.kind = kind

Handled ==
    /\ pos' = pos + 1
    /\ delivered' = delivered \cup {pos + 1}
    /\ pc' = "handle"
    /\ UNCHANGED <<feedVars, cursorRow, cursor, end, latest, faults, emitted, origin>>

UpsertAttestation ==
    /\ Due("attested")
    /\ attestations' = [attestations EXCEPT ![<<Body.datasetId, Body.curator>>] =
                            [score |-> Body.score, ledger |-> EventLedger]]
    /\ pc' = "aggregate"
    /\ UNCHANGED <<feedVars, quality, curators, cursorRow, locals, faults, history>>

(* AVG and COUNT over the rows of a dataset; the average kept as its sum. *)
RowsOf(d) == {c \in Curators : attestations[<<d, c>>] # NoRow}

ScoresOf(d) == [c \in RowsOf(d) |-> attestations[<<d, c>>].score]

Average(scores) ==
    IF DOMAIN scores = {} THEN NoRow
    ELSE [count |-> Cardinality(DOMAIN scores), sum |-> SumFunction(scores)]

Aggregate(d) == Average(ScoresOf(d))

(* Faulty variant: a running average that counts every event it sees. *)
RunningAverage(row, d) ==
    IF row = NoRow THEN [count |-> 1, sum |-> Body.score]
    ELSE [count |-> row.count + 1, sum |-> row.sum + Body.score]

SelectAverage(row, d) == Aggregate(d)

UpsertQuality ==
    /\ pc = "aggregate"
    /\ quality' = [quality EXCEPT ![Body.datasetId] = SelectAverage(@, Body.datasetId)]
    /\ Handled
    /\ UNCHANGED <<attestations, curators>>

(* Faulty variant: a slash inserts the curator it does not find. *)
SlashUnregistered(row, l) ==
    IF row = NoRow THEN [registered |-> 0, slashed |-> l] ELSE [row EXCEPT !.slashed = l]

(* UPDATE: no row, no change. *)
SlashCurator(row, l) == IF row = NoRow THEN NoRow ELSE [row EXCEPT !.slashed = l]

Slash ==
    /\ Due("slashed")
    /\ curators' = [curators EXCEPT ![Body.curator] = SlashCurator(@, EventLedger)]
    /\ Handled
    /\ UNCHANGED <<attestations, quality>>

(* Faulty variant: a second registration overwrites the row. *)
OverwriteCurator(row, l) == [registered |-> l, slashed |-> 0]

(* ON CONFLICT DO NOTHING. *)
InsertCurator(row, l) == IF row = NoRow THEN [registered |-> l, slashed |-> 0] ELSE row

RegisterCurator ==
    /\ Due("curator")
    /\ curators' = [curators EXCEPT ![Body.curator] = InsertCurator(@, EventLedger)]
    /\ Handled
    /\ UNCHANGED <<attestations, quality>>

IgnoreEvent == Due("other") /\ Handled /\ UNCHANGED tables

(* Faulty variant: the loop catches the error and goes on to the next event. *)
HandlerErrorSkipsEvent ==
    /\ \/ pc = "aggregate"
       \/ pc = "handle" /\ pos < end /\ Body.kind # "other"
    /\ Fail("db")
    /\ pos' = pos + 1
    /\ pc' = "handle"
    /\ UNCHANGED <<feedVars, tables, cursorRow, cursor, end, latest, history>>

(* A query fails: the rest of the page is left for the next poll. *)
HandlerError ==
    /\ \/ pc = "aggregate"
       \/ pc = "handle" /\ pos < end /\ Body.kind # "other"
    /\ Fail("db")
    /\ PollFails

-----------------------------------------------------------------------------
(* After the page.  The cursor moves in memory before it is saved.         *)

AdvanceCursor ==
    /\ pc = "handle" /\ pos = end
    /\ cursor' = IF latest > cursor THEN latest ELSE cursor
    /\ pc' = IF latest > cursor THEN "save" ELSE "poll"
    /\ pos' = 0 /\ end' = 0 /\ latest' = 0
    /\ UNCHANGED <<feedVars, tables, cursorRow, faults, history>>

SaveCursor ==
    /\ pc = "save"
    /\ cursorRow' = cursor
    /\ pc' = "poll"
    /\ UNCHANGED <<feedVars, tables, locals, faults, history>>

(* The upsert fails: the row stays behind the cursor until the next page. *)
SaveCursorError ==
    /\ pc = "save"
    /\ Fail("save")
    /\ pc' = "poll"
    /\ UNCHANGED <<feedVars, tables, cursorRow, locals, history>>

(* SIGTERM, a crash, or a failed start: the process exits and is restarted. *)
Exit ==
    /\ Fail("exit")
    /\ pc' = "load"
    /\ cursor' = 0 /\ pos' = 0 /\ end' = 0 /\ latest' = 0
    /\ UNCHANGED <<feedVars, tables, cursorRow, history>>

ChainAdvances ==
    CloseLedger /\ UNCHANGED <<tables, cursorRow, pc, locals, faults, history>>

Step ==
    \/ LoadCursor \/ GetEvents \/ GetEventsRefused
    \/ UpsertAttestation \/ UpsertQuality \/ Slash \/ RegisterCurator \/ IgnoreEvent
    \/ AdvanceCursor \/ SaveCursor

Failure == RpcError \/ HandlerError \/ SaveCursorError \/ Exit

Next == ChainAdvances \/ Step \/ Failure

Spec == Init /\ [][Next]_vars

(* main() never leaves its loop while the process runs. *)
FairSpec == Spec /\ WF_vars(Step)

-----------------------------------------------------------------------------
(* Properties.                                                             *)

(* A row holds the average of what some of the curators gave. *)
QualityRow ==
    {Average(scores) : scores \in UNION {[S -> Scores] : S \in SUBSET Curators}}

(* Every variable has its type. *)
TypeOK ==
    /\ chain \in Chains
    /\ tip \in Ledgers
    /\ attestations \in [Datasets \X Curators -> AttestationRow \cup {NoRow}]
    /\ quality \in [Datasets -> QualityRow]
    /\ curators \in [Curators -> CuratorRow \cup {NoRow}]
    /\ cursorRow \in Nat
    /\ pc \in {"load", "poll", "handle", "aggregate", "save"}
    /\ cursor \in Nat /\ latest \in Nat
    /\ pos \in 0 .. Len(chain) /\ end \in 0 .. Len(chain)
    /\ faults \in Nat
    /\ emitted \in Histories
    /\ origin \in Nat
    /\ delivered \subseteq Positions

InScope(i) == origin # 0 /\ chain[i].ledger >= origin

Covered(c) ==
    \A i \in Positions : InScope(i) /\ chain[i].ledger <= c => i \in delivered

(***************************************************************************)
(* The saved cursor names a ledger that was fully processed: every event   *)
(* up to it has been handled (db/schema.sql, indexer_cursors).             *)
(***************************************************************************)
CursorCovers == Covered(cursorRow)

(***************************************************************************)
(* An average that disagrees with the attestations it is made of never     *)
(* lasts: an attestation of that dataset lies past the saved cursor, so it *)
(* is handled again whatever fails meanwhile (handleAttested).             *)
(***************************************************************************)
StaleAverageIsRedone ==
    \A d \in Datasets :
        quality[d] # Aggregate(d) =>
            \E i \in Positions :
                /\ chain[i].ledger > cursorRow
                /\ Visible(i)
                /\ chain[i].body.kind = "attested" /\ chain[i].body.datasetId = d

(* What the events of a history up to k, each handled once, leave in the   *)
(* tables: those in scope, oldest first.                                   *)
EventsUpTo(events, k, kind) ==
    {i \in 1 .. k : origin # 0 /\ events[i].ledger >= origin /\ events[i].body.kind = kind}

AttestationAfter(events, d, c, k) ==
    LET A == {i \in EventsUpTo(events, k, "attested") :
                events[i].body.datasetId = d /\ events[i].body.curator = c}
    IN  IF A = {} THEN NoRow
        ELSE [score |-> events[Max(A)].body.score, ledger |-> events[Max(A)].ledger]

CuratorAfter(events, c, k) ==
    LET R == {i \in EventsUpTo(events, k, "curator") : events[i].body.curator = c}
        S == {i \in EventsUpTo(events, k, "slashed") :
                events[i].body.curator = c /\ i > Min(R)}
    IN  IF R = {} THEN NoRow
        ELSE [registered |-> events[Min(R)].ledger,
              slashed |-> IF S = {} THEN 0 ELSE events[Max(S)].ledger]

TablesAreAfter(events, k) ==
    /\ \A d \in Datasets, c \in Curators :
        attestations[<<d, c>>] = AttestationAfter(events, d, c, k)
    /\ \A d \in Datasets : quality[d] = Aggregate(d)
    /\ \A c \in Curators : curators[c] = CuratorAfter(events, c, k)

(***************************************************************************)
(* Replaying is harmless: whenever a page has been handled to its end, the *)
(* tables are those of one clean pass over the events served so far,       *)
(* whatever was handled before, in part or more than once (processEvents). *)
(***************************************************************************)
ReplayConverges == pc = "handle" /\ pos = end => TablesAreAfter(chain, end)

(***************************************************************************)
(* "Indexes QualityOracle ("oracle", "attested"/"slashed"/"curator")       *)
(* events into Postgres" (the head of the file): once chain and failures   *)
(* are over, the tables mirror every event the contract emitted, in scope. *)
(* It holds of a request whose filters match events of three and of four   *)
(* topics, and is violated by the filter that processEvents sends.         *)
(***************************************************************************)
EmittedSoFar == Cardinality({i \in 1 .. Len(emitted) : emitted[i].ledger <= tip})

EventuallyMirrors == <>[]TablesAreAfter(emitted, EmittedSoFar)

(* The saved cursor, seen as an at-least-once feed. *)
Feed == INSTANCE AtLeastOnceFeed WITH checkpoint <- cursorRow

ImplementsFeed == Feed!Spec
=============================================================================
