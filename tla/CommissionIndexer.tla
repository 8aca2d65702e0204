-------------------------- MODULE CommissionIndexer --------------------------
(***************************************************************************)
(* Commissions, all in the memory of one API process: the poller that      *)
(* mirrors DataCommission events into a map                                *)
(* (src/services/commission-indexer.ts), the route that fulfils one        *)
(* (src/routes/v1/commissions.ts) with its e-mail                          *)
(* (src/services/notifications.ts), and the WebSocket channel that         *)
(* announces new ones (src/routes/ws.ts).  A client may walk the list of   *)
(* them, whose pages are numbered.  setInterval starts a poll whether or   *)
(* not the last one has returned, so polls may overlap; the body of a poll *)
(* after its await runs to the end without interruption.                   *)
(***************************************************************************)
EXTENDS SorobanFeed, FiniteSetsExt

CONSTANTS
    Ids,          \* commission ids
    Polls,        \* bound: the polls that may be in flight together
    Requests,     \* bound: the POST /commissions/:id/fulfil calls
    Sockets,      \* bound: the WebSocket clients
    PageSize,     \* the "limit" of the list requests
    Window,       \* how far behind the tip the first poll starts (1000)
    NoRow,        \* no commission under this id
    MaxFailures,  \* bound: how many polls may fail
    MaxRestarts   \* bound: how often the process may be restarted

VARIABLES
    store,        \* the map: a commission or NoRow
    cursor,       \* let cursor, as a position of the history; Unset at first
    poll,         \* each poll in flight: where it is and what it was sent with
    request,      \* each fulfil request: new, awaiting its e-mail, or answered
    socket,       \* each client: absent, open, or closing and still in the set
    received,     \* how often a client was told of a commission
    failures,     \* how many failures have happened
    restarts,     \* how often the process was restarted
    fulfilments,  \* history: fulfil requests granted since the process began
    known,        \* history: the commissions in the map when a client came
    walk          \* history: a walk of GET /commissions, page by page

pollVars == <<store, cursor, poll>>
clientVars == <<request, socket, received>>
vars == <<feedVars, pollVars, clientVars, failures, restarts, fulfilments, known, walk>>

Unset == MaxEvents + 1

Kinds == {"posted", "fulfilled", "cancelled"}
States == {"open", "fulfilled", "cancelled"}

Row == [state : States, createdLedger : Ledgers, updatedLedger : Ledgers]

(* What parseCommissionEvent returns; "other" is an event it skips. *)
CommissionBodies == [kind : Kinds, id : Ids] \cup [kind : {"other"}]

ASSUME CommissionAssumption ==
    /\ Bodies = CommissionBodies
    /\ IsFiniteSet(Ids)
    /\ NoRow \notin Row
    /\ PageSize \in Nat \ {0}
    /\ Window \in Nat
    /\ MaxFailures \in Nat
    /\ MaxRestarts \in Nat

-----------------------------------------------------------------------------

Idle == [at |-> "idle", from |-> 0, lo |-> 0, hi |-> 0]

NoWalk == [page |-> 0, owed |-> {}, listed |-> {}]

Init ==
    /\ FeedInit
    /\ store = [id \in Ids |-> NoRow]
    /\ cursor = Unset
    /\ poll = [q \in Polls |-> Idle]
    /\ request = [r \in Requests |-> "new"]
    /\ socket = [s \in Sockets |-> "absent"]
    /\ received = [s \in Sockets |-> [id \in Ids |-> 0]]
    /\ failures = 0
    /\ restarts = 0
    /\ fulfilments = [id \in Ids |-> 0]
    /\ known = [s \in Sockets |-> {}]
    /\ walk = NoWalk

(* emit("commission:new"): every socket that is OPEN gets the message. *)
Broadcast(news) ==
    received' = [s \in Sockets |-> [id \in Ids |->
        received[s][id] + IF socket[s] = "open" /\ id \in news THEN 1 ELSE 0]]

(* Faulty variant: "commission:new" is emitted for every change. *)
UpsertAlwaysNew(rows) ==
    /\ store' = rows
    /\ Broadcast({id \in Ids : rows[id] # store[id]})

(* upsertCommission of several commissions, one after another. *)
Upsert(rows) ==
    /\ store' = rows
    /\ Broadcast({id \in Ids : store[id] = NoRow /\ rows[id] # NoRow})

-----------------------------------------------------------------------------
(* A poll.                                                                 *)

(* The interval fires: with no cursor, ask for the tip; else for a page. *)
StartPoll(q) ==
    /\ poll[q].at = "idle"
    /\ poll' = [poll EXCEPT ![q] =
                    IF cursor = Unset
                    THEN [Idle EXCEPT !.at = "tip"]
                    ELSE [Idle EXCEPT !.at = "cursorPage", !.lo = cursor]]
    /\ UNCHANGED <<feedVars, store, cursor, clientVars, failures, restarts,
                   fulfilments, known, walk>>

(* getLatestLedger: the first page starts Window ledgers before the tip. *)
GetLatestLedger(q) ==
    /\ poll[q].at = "tip"
    /\ poll' = [poll EXCEPT ![q].at = "ledgerPage",
                            ![q].from = IF tip > Window THEN tip - Window ELSE 1]
    /\ UNCHANGED <<feedVars, store, cursor, clientVars, failures, restarts,
                   fulfilments, known, walk>>

(* The RPC answers getEvents; the answer is still on its way. *)
AnswerLedgerPage(q) ==
    /\ poll[q].at = "ledgerPage"
    /\ Serves(poll[q].from)
    /\ \E lo, hi \in 0 .. Len(chain) :
        /\ IsPage(lo, hi, poll[q].from)
        /\ poll' = [poll EXCEPT ![q].at = "answered", ![q].lo = lo, ![q].hi = hi]
    /\ UNCHANGED <<feedVars, store, cursor, clientVars, failures, restarts,
                   fulfilments, known, walk>>

(* A cursor goes on after an event, not after a ledger. *)
AnswerCursorPage(q) ==
    /\ poll[q].at = "cursorPage"
    /\ LET rest == {i \in Positions : i > poll[q].lo /\ Visible(i)}
           n == IF Cardinality(rest) > Limit THEN Limit ELSE Cardinality(rest)
       IN  poll' = [poll EXCEPT ![q].at = "answered", ![q].hi = poll[q].lo + n]
    /\ UNCHANGED <<feedVars, store, cursor, clientVars, failures, restarts,
                   fulfilments, known, walk>>

EventsOf(id, lo, hi) ==
    {i \in lo + 1 .. hi : chain[i].body.kind # "other" /\ chain[i].body.id = id}

StateOf(kind) == IF kind = "posted" THEN "open" ELSE kind

(* Faulty variant: createdLedger is that of the event at hand. *)
RowFromLastEvent(id, lo, hi) ==
    LET E == EventsOf(id, lo, hi)
    IN  IF E = {} THEN store[id]
        ELSE [state |-> StateOf(chain[Max(E)].body.kind),
              createdLedger |-> chain[Max(E)].ledger,
              updatedLedger |-> chain[Max(E)].ledger]

(* Faulty variant: a commission that is known is not updated. *)
RowOnceSeen(id, lo, hi) ==
    LET E == EventsOf(id, lo, hi)
    IN  IF E = {} \/ store[id] # NoRow THEN store[id]
        ELSE [state |-> StateOf(chain[Max(E)].body.kind),
              createdLedger |-> chain[Min(E)].ledger,
              updatedLedger |-> chain[Max(E)].ledger]

(* What parseCommissionEvent and the upserts of a page make of a row. *)
RowAfter(id, lo, hi) ==
    LET E == EventsOf(id, lo, hi)
    IN  IF E = {} THEN store[id]
        ELSE [state |-> StateOf(chain[Max(E)].body.kind),
              createdLedger |-> IF store[id] = NoRow THEN chain[Min(E)].ledger
                                ELSE store[id].createdLedger,
              updatedLedger |-> chain[Max(E)].ledger]

(* Faulty variant: the cursor stays where it was. *)
CursorBefore(q) == poll[q].lo

(* Faulty variant: the cursor is moved past the next event too. *)
CursorPast(q) == poll[q].hi + 1

CursorAfter(q) == poll[q].hi

(* The response arrives: the whole page is applied, then the cursor set. *)
ReceivePage(q) ==
    /\ poll[q].at = "answered"
    /\ Upsert([id \in Ids |-> RowAfter(id, poll[q].lo, poll[q].hi)])
    /\ cursor' = CursorAfter(q)
    /\ poll' = [poll EXCEPT ![q] = Idle]
    /\ UNCHANGED <<feedVars, request, socket, failures, restarts, fulfilments, known, walk>>

(* The RPC refuses the start ledger, or the call fails: logged, no change. *)
PollFails(q) ==
    /\ \/ poll[q].at = "ledgerPage" /\ ~Serves(poll[q].from) /\ UNCHANGED failures
       \/ /\ poll[q].at # "idle"
          /\ failures < MaxFailures
          /\ failures' = failures + 1
    /\ poll' = [poll EXCEPT ![q] = Idle]
    /\ UNCHANGED <<feedVars, store, cursor, clientVars, restarts, fulfilments, known, walk>>

-----------------------------------------------------------------------------
(* POST /commissions/:id/fulfil.  The check and the upsert share one turn  *)
(* of the event loop; the e-mail is awaited after them.                    *)

(* Faulty variant: the state is not looked at. *)
AnyState(id) == store[id] # NoRow

Fulfillable(id) == store[id] # NoRow /\ store[id].state # "fulfilled"

Fulfil(r, id) ==
    /\ request[r] = "new"
    /\ Fulfillable(id)
    /\ Upsert([store EXCEPT ![id].state = "fulfilled"])
    /\ \E next \in {"emailing", "done"} : request' = [request EXCEPT ![r] = next]
    /\ fulfilments' = [fulfilments EXCEPT ![id] = @ + 1]
    /\ UNCHANGED <<feedVars, cursor, poll, socket, failures, restarts, known, walk>>

(* 404 or 409. *)
FulfilRejected(r, id) ==
    /\ request[r] = "new"
    /\ ~Fulfillable(id)
    /\ request' = [request EXCEPT ![r] = "done"]
    /\ UNCHANGED <<feedVars, pollVars, socket, received, failures, restarts,
                   fulfilments, known, walk>>

(* The e-mail went out or its rejection is the answer: nothing is undone. *)
EmailDone(r) ==
    /\ request[r] = "emailing"
    /\ request' = [request EXCEPT ![r] = "done"]
    /\ UNCHANGED <<feedVars, pollVars, socket, received, failures, restarts,
                   fulfilments, known, walk>>

-----------------------------------------------------------------------------
(* GET /commissions: page n of the list, newest first; commissions of one  *)
(* ledger in the order in which the map got them.                          *)

Stored == {id \in Ids : store[id] # NoRow}

FirstEvent(id) ==
    Min({i \in EventsOf(id, 0, Len(chain)) : chain[i].ledger = store[id].createdLedger})

Before(j, id) ==
    \/ store[j].createdLedger > store[id].createdLedger
    \/ store[j].createdLedger = store[id].createdLedger /\ FirstEvent(j) < FirstEvent(id)

ListCommissions(n) ==
    {id \in Stored : Cardinality({j \in Stored : Before(j, id)})
                        \in (n - 1) * PageSize .. n * PageSize - 1}

(* A client asks for page after page until it has "total" rows behind it.  *)
ListPage ==
    LET n == walk.page + 1
    IN  /\ walk' = IF n * PageSize >= Cardinality(Stored) THEN NoWalk
                   ELSE [page |-> n,
                         owed |-> IF walk.page = 0 THEN Stored ELSE walk.owed,
                         listed |-> walk.listed \cup ListCommissions(n)]
        /\ UNCHANGED <<feedVars, pollVars, clientVars, failures, restarts, fulfilments, known>>

-----------------------------------------------------------------------------
(* The WebSocket channel.                                                  *)

Connect(s) ==
    /\ socket[s] = "absent"
    /\ socket' = [socket EXCEPT ![s] = "open"]
    /\ received' = [received EXCEPT ![s] = [id \in Ids |-> 0]]
    /\ known' = [known EXCEPT ![s] = {id \in Ids : store[id] # NoRow}]
    /\ UNCHANGED <<feedVars, pollVars, request, failures, restarts, fulfilments, walk>>

(* readyState leaves OPEN first; the "close" event comes later. *)
StartClose(s) ==
    /\ socket[s] = "open"
    /\ socket' = [socket EXCEPT ![s] = "closing"]
    /\ UNCHANGED <<feedVars, pollVars, request, received, failures, restarts,
                   fulfilments, known, walk>>

(* on("close"): the client leaves the set; here it may come back. *)
Closed(s) ==
    /\ socket[s] = "closing"
    /\ socket' = [socket EXCEPT ![s] = "absent"]
    /\ UNCHANGED <<feedVars, pollVars, request, received, failures, restarts,
                   fulfilments, known, walk>>

-----------------------------------------------------------------------------

(* Everything is in memory: a restart forgets it. *)
Restart ==
    /\ restarts < MaxRestarts
    /\ restarts' = restarts + 1
    /\ store' = [id \in Ids |-> NoRow]
    /\ cursor' = Unset
    /\ poll' = [q \in Polls |-> Idle]
    /\ request' = [r \in Requests |-> IF request[r] = "emailing" THEN "done" ELSE request[r]]
    /\ socket' = [s \in Sockets |-> "absent"]
    /\ fulfilments' = [id \in Ids |-> 0]
    /\ walk' = NoWalk
    /\ UNCHANGED <<feedVars, received, failures, known>>

ChainAdvances ==
    CloseLedger /\ UNCHANGED <<pollVars, clientVars, failures, restarts, fulfilments, known, walk>>

PollStep(q) ==
    StartPoll(q) \/ GetLatestLedger(q) \/ AnswerLedgerPage(q) \/ AnswerCursorPage(q)
        \/ ReceivePage(q)

Next ==
    \/ ChainAdvances
    \/ Restart
    \/ ListPage
    \/ \E q \in Polls : PollStep(q) \/ PollFails(q)
    \/ \E r \in Requests :
        EmailDone(r) \/ \E id \in Ids : Fulfil(r, id) \/ FulfilRejected(r, id)
    \/ \E s \in Sockets : Connect(s) \/ StartClose(s) \/ Closed(s)

Spec == Init /\ [][Next]_vars

(* setInterval keeps firing, and a poll comes back or fails. *)
FairSpec == Spec /\ \A q \in Polls : WF_vars(PollStep(q) \/ PollFails(q))

-----------------------------------------------------------------------------
(* Properties.                                                             *)

(* A poll in flight. *)
Flight ==
    [at : {"idle", "tip", "ledgerPage", "cursorPage", "answered"},
     from : 0 .. MaxLedger, lo : 0 .. Len(chain), hi : 0 .. Len(chain)]

(* Every variable has its type. *)
TypeOK ==
    /\ chain \in Chains
    /\ tip \in Ledgers
    /\ store \in [Ids -> Row \cup {NoRow}]
    /\ cursor \in 0 .. Len(chain) \cup {Unset}
    /\ poll \in [Polls -> Flight]
    /\ request \in [Requests -> {"new", "emailing", "done"}]
    /\ socket \in [Sockets -> {"absent", "open", "closing"}]
    /\ received \in [Sockets -> [Ids -> Nat]]
    /\ failures \in Nat /\ restarts \in Nat
    /\ fulfilments \in [Ids -> Nat]
    /\ known \in [Sockets -> SUBSET Ids]
    /\ walk \in [page : Nat, owed : SUBSET Ids, listed : SUBSET Ids]

(***************************************************************************)
(* "Safe to call multiple times (idempotent upserts ...)" (the comment on  *)
(* startCommissionIndexer): while the process lives, no answer takes a     *)
(* commission back to what an earlier ledger said of it.  It is violated   *)
(* when two polls overlap: the answer of the earlier one may come last.    *)
(***************************************************************************)
NeverRegresses ==
    [][restarts' = restarts =>
        \A id \in Ids : store[id] # NoRow =>
            store'[id] # NoRow /\ store'[id].updatedLedger >= store[id].updatedLedger]_vars

(***************************************************************************)
(* A commission is granted to one fulfil request for each chain event that *)
(* leaves it unfulfilled: requests, polls and late answers interleave, and *)
(* a second request still gets 409 (fulfil).                               *)
(***************************************************************************)
FulfilledOnce ==
    \A id \in Ids : fulfilments[id] > 0 =>
        fulfilments[id] <= Cardinality({i \in EventsOf(id, 0, cursor) :
                                            chain[i].body.kind # "fulfilled"})

(***************************************************************************)
(* The map differs from the chain up to the cursor only where a request    *)
(* fulfilled a commission ahead of it (upsertCommission has two callers).  *)
(***************************************************************************)
StateOnChain(id) ==
    LET E == EventsOf(id, 0, cursor) IN StateOf(chain[Max(E)].body.kind)

StoreMirrorsChain ==
    \A id \in Ids : store[id] # NoRow =>
        \/ store[id].state = StateOnChain(id)
        \/ store[id].state = "fulfilled" /\ fulfilments[id] > 0

(***************************************************************************)
(* A walk to the last page lists every commission that was in the map when *)
(* it began: new ones only push rows back, and what happens to a row never *)
(* moves it (listCommissions, and the createdLedger that                   *)
(* parseCommissionEvent keeps).                                            *)
(***************************************************************************)
ListSkipsNone ==
    [][ListPage /\ walk' = NoWalk =>
        walk.owed \subseteq walk.listed \cup ListCommissions(walk.page + 1)]_vars

(***************************************************************************)
(* A client that stays connected is told of each commission that appears,  *)
(* and once (upsertCommission, broadcastNewCommission).                    *)
(***************************************************************************)
ToldOnce ==
    \A s \in Sockets : socket[s] = "open" =>
        \A id \in Ids :
            received[s][id] = IF store[id] # NoRow /\ id \notin known[s] THEN 1 ELSE 0

(***************************************************************************)
(* An event that never leaves the last Window ledgers reaches the map,     *)
(* however often polls fail or the process restarts (poll).                *)
(***************************************************************************)
InWindow(i) == i \in Positions /\ tip <= chain[i].ledger + Window

EventuallyStored ==
    \A i \in 1 .. MaxEvents :
        []((i \in Positions /\ Visible(i) /\ []InWindow(i))
            => <>(cursor # Unset /\ cursor >= i))
=============================================================================
