--------------------------- MODULE DatasetListing ---------------------------
(***************************************************************************)
(* Reading the dataset tables (src/routes/v1/datasets.ts) while an indexer *)
(* writes them: the cursor-paged GET /datasets, with a state filter or     *)
(* without, walked page by page; GET /datasets/:id; the lists of licences  *)
(* and royalties of a dataset; GET /languages.  All answer through         *)
(* cached(): a Redis key that lives CacheTtl, else a query whose result is *)
(* then stored under the key.  The get, the query and the set are three    *)
(* awaits, so requests for one key race, and a result is stored some time  *)
(* after it was read.  Requests of different routes or filters never share *)
(* a key, so a behaviour has clients of one use only.  Time is kept as     *)
(* ages and remaining lifetimes, so no clock grows.                        *)
(***************************************************************************)
EXTENDS Naturals, FiniteSetsExt

CONSTANTS
    Ids,              \* dataset ids, in the order of the id column
    Limit,            \* the "limit" of the list requests
    CacheTtl,         \* CACHE_TTL_SECONDS
    Uses,             \* what clients ask for: "list", "filtered", "detail", "children",
                      \* "languages"
    Active,           \* bound: the datasets that change their state, get licences and
                      \* are asked for by their id
    RedisClients,     \* what getRedisClient() may return: "redis", "none"
    Readers,          \* bound: the clients
    Walkers,          \* bound: those of them that walk the list
    Latency,          \* bound: a request is answered within this time
    MaxFaults         \* bound: how many Redis commands and queries may fail

VARIABLES
    redisClient, \* whether there is a Redis client
    use,         \* what the clients ask for
    age,         \* table datasets: how long each row has been as it is
    archived,    \* the datasets whose state the filter excludes
    issued,      \* tables licenses and royalty_payouts: the age of a dataset's row
    cache,       \* Redis: what is kept under each key, and for how long yet
    reader,      \* each client: its request, its last answer, its walk
    faults       \* how many commands and queries have failed

tableVars == <<age, archived, issued>>
listingVars == <<redisClient, use, tableVars, cache, reader, faults>>

ASSUME ListingAssumption ==
    /\ Ids \subseteq Nat \ {0} /\ IsFiniteSet(Ids)
    /\ Limit \in Nat \ {0}
    /\ CacheTtl \in Nat \ {0}
    /\ Uses \subseteq {"list", "filtered", "detail", "children", "languages"}
    /\ Active \subseteq Ids /\ Walkers \subseteq Readers
    /\ RedisClients \subseteq {"redis", "none"}
    /\ Latency \in Nat
    /\ MaxFaults \in Nat

(* How old what is served may be: a key's lifetime and the time it took to *)
(* store it.                                                               *)
Staleness == CacheTtl + Latency

NoRow == Staleness + 1

rows == {i \in Ids : age[i] # NoRow}

(* A list key names the cursor, 0 for "start"; the others the dataset.     *)
ListKey(cursor) == [kind |-> "list", id |-> cursor]
DetailKey(id) == [kind |-> "detail", id |-> id]
ChildrenKey(id) == [kind |-> "children", id |-> id]
LanguagesKey == [kind |-> "languages", id |-> 0]

Keys ==
    {ListKey(c) : c \in Ids \cup {0}} \cup {LanguagesKey}
        \cup {DetailKey(i) : i \in Ids} \cup {ChildrenKey(i) : i \in Ids}

(* An answer: the ids in it, or what has these ids, and next_cursor, 0 for *)
(* null.                                                                   *)
Page == [ids : SUBSET Ids, next : Ids \cup {0}]

Answers(key) ==
    {a \in Page :
        /\ key.kind = "list" => Cardinality(a.ids) <= Limit
        /\ a.next # 0 => key.kind = "list" /\ a.next = Max(a.ids)}

Nothing == [ids |-> {}, next |-> 0]
NoKey == [answer |-> Nothing, ttl |-> 0]
NoWalk == [at |-> "none", owed |-> {}, listed |-> {}, repeated |-> FALSE]
Resting == [at |-> "idle", key |-> ListKey(0), answer |-> Nothing, waited |-> 0, walk |-> NoWalk]

ListingInit ==
    /\ redisClient \in RedisClients
    /\ use \in Uses
    /\ age \in [Ids -> {Staleness, NoRow}]
    /\ archived = {}
    /\ issued = [i \in Ids |-> NoRow]
    /\ cache = [k \in Keys |-> NoKey]
    /\ reader = [r \in Readers |-> Resting]
    /\ faults = 0

-----------------------------------------------------------------------------
(* The queries.                                                            *)

(* The n first ids of a set. *)
First(n, S) == {i \in S : Cardinality({j \in S : j < i}) < n}

Matching == IF use = "filtered" THEN rows \ archived ELSE rows

(* Faulty variant: the cursor's own row is not skipped. *)
FromCursor(cursor) == {i \in Matching : i >= cursor}

(* findMany: where, orderBy id, from the cursor's row on, whether or not   *)
(* that row matches; skip: 1 leaves out the first that does.               *)
AfterCursor(cursor) ==
    LET from == {i \in Matching : i >= cursor}
    IN  IF cursor = 0 THEN from ELSE from \ First(1, from)

(* Faulty variant: a page and one row more is taken for the last page. *)
MoreThanOneExtra(found) == Cardinality(found) > Limit + 1

HasMore(found) == Cardinality(found) > Limit

(* Faulty variant: the extra row is served too. *)
NotSliced(found) == found

PageOf(found) == First(Limit, found)

ListAnswer(cursor) ==
    LET found == First(Limit + 1, AfterCursor(cursor))
        page == PageOf(found)
    IN  [ids |-> page, next |-> IF HasMore(found) THEN Max(page) ELSE 0]

DetailAnswer(id) == [ids |-> rows \cap {id}, next |-> 0]

ChildrenAnswer(id) == [ids |-> {id} \ {i \in Ids : issued[i] = NoRow}, next |-> 0]

(* groupBy: how many datasets a language has follows from which there are. *)
LanguagesAnswer == [ids |-> rows, next |-> 0]

Produce(key) ==
    CASE key.kind = "list" -> ListAnswer(key.id)
      [] key.kind = "detail" -> DetailAnswer(key.id)
      [] key.kind = "children" -> ChildrenAnswer(key.id)
      [] key.kind = "languages" -> LanguagesAnswer

-----------------------------------------------------------------------------
(* Clients.                                                                *)

(* The rows that have been as they are for as long as an answer may be     *)
(* old.                                                                    *)
Settled == {i \in Ids : age[i] = Staleness}

CachedAt == IF redisClient = "redis" THEN "get" ELSE "bypass"

AskAt(r, at, key, walk) ==
    reader' = [reader EXCEPT ![r] =
        [at |-> at, key |-> key, answer |-> Nothing, waited |-> 0, walk |-> walk]]

Ask(r, key, walk) == AskAt(r, CachedAt, key, walk)

(* The walk owes what has been in the list for Staleness: its pages may be *)
(* that old, and a younger row need not be in a page that was cached.      *)
StartWalk(r) ==
    /\ use \in {"list", "filtered"} /\ r \in Walkers
    /\ reader[r].at = "idle" /\ reader[r].walk.at # "going"
    /\ Ask(r, ListKey(0), [NoWalk EXCEPT !.at = "going", !.owed = Settled \cap Matching])
    /\ UNCHANGED <<redisClient, use, tableVars, cache, faults>>

(* The client follows next_cursor when it pleases. *)
NextPage(r) ==
    /\ reader[r].at = "idle" /\ reader[r].walk.at = "going"
    /\ Ask(r, ListKey(reader[r].answer.next), reader[r].walk)
    /\ UNCHANGED <<redisClient, use, tableVars, cache, faults>>

(* A client that wants one page, from the start or behind a row (a bound:  *)
(* without the filter).                                                    *)
GetPage(r, cursor) ==
    /\ use = "list" /\ r \notin Walkers
    /\ cursor \in (Active \cap rows) \cup {0}
    /\ reader[r].at = "idle"
    /\ Ask(r, ListKey(cursor), NoWalk)
    /\ UNCHANGED <<redisClient, use, tableVars, cache, faults>>

GetDetail(r, id) ==
    /\ use = "detail" /\ id \in Active
    /\ reader[r].at = "idle"
    /\ Ask(r, DetailKey(id), NoWalk)
    /\ UNCHANGED <<redisClient, use, tableVars, cache, faults>>

GetLanguages(r) ==
    /\ use = "languages"
    /\ reader[r].at = "idle"
    /\ Ask(r, LanguagesKey, NoWalk)
    /\ UNCHANGED <<redisClient, use, tableVars, cache, faults>>

(* Whether the dataset exists is asked before cached(), every time.        *)
GetChildren(r, id) ==
    /\ use = "children" /\ id \in Active
    /\ reader[r].at = "idle"
    /\ AskAt(r, "exists", ChildrenKey(id), NoWalk)
    /\ UNCHANGED <<redisClient, use, tableVars, cache, faults>>

Exists(r) ==
    /\ reader[r].at = "exists" /\ reader[r].key.id \in rows
    /\ reader' = [reader EXCEPT ![r].at = CachedAt]
    /\ UNCHANGED <<redisClient, use, tableVars, cache, faults>>

(* The cursor's row has long been one that the filter lets through.        *)
Stands(cursor) == cursor = 0 \/ use = "list" \/ cursor \in Settled \cap Matching

PageListed(walk, cursor, answer) ==
    [at |-> IF answer.next = 0 THEN "ended" ELSE "going",
     owed |-> IF Stands(cursor) THEN walk.owed \ answer.ids ELSE {},
     listed |-> IF answer.next = 0 THEN {} ELSE walk.listed \cup answer.ids,
     repeated |-> walk.repeated \/ walk.listed \cap answer.ids # {}]

(* The response; an empty detail is the 404.  A client that walks keeps    *)
(* the page, for its next_cursor.                                          *)
Answer(r, answer) ==
    LET walk == reader[r].walk
    IN  reader' = [reader EXCEPT ![r] =
            IF walk.at = "going"
            THEN [@ EXCEPT !.at = "idle", !.answer = answer, !.waited = 0,
                           !.walk = PageListed(walk, reader[r].key.id, answer)]
            ELSE [Resting EXCEPT !.walk = walk]]

ExistsMiss(r) ==
    /\ reader[r].at = "exists" /\ reader[r].key.id \notin rows
    /\ Answer(r, Nothing)
    /\ UNCHANGED <<redisClient, use, tableVars, cache, faults>>

-----------------------------------------------------------------------------
(* cached().                                                               *)

Cached(key) == cache[key].ttl > 0

(* A stored "null" is a hit like any other. *)
CacheHit(r) ==
    /\ reader[r].at = "get"
    /\ Cached(reader[r].key)
    /\ Answer(r, cache[reader[r].key].answer)
    /\ UNCHANGED <<redisClient, use, tableVars, cache, faults>>

CacheMiss(r) ==
    /\ reader[r].at = "get"
    /\ ~Cached(reader[r].key)
    /\ reader' = [reader EXCEPT ![r].at = "produce"]
    /\ UNCHANGED <<redisClient, use, tableVars, cache, faults>>

Fail == faults < MaxFaults /\ faults' = faults + 1

(* redis.get rejects: produce, and do not store. *)
CacheGetError(r) ==
    /\ reader[r].at = "get"
    /\ Fail
    /\ reader' = [reader EXCEPT ![r].at = "bypass"]
    /\ UNCHANGED <<redisClient, use, tableVars, cache>>

Query(r) ==
    /\ reader[r].at = "produce"
    /\ reader' = [reader EXCEPT ![r].at = "set", ![r].answer = Produce(reader[r].key)]
    /\ UNCHANGED <<redisClient, use, tableVars, cache, faults>>

QueryUncached(r) ==
    /\ reader[r].at = "bypass"
    /\ Answer(r, Produce(reader[r].key))
    /\ UNCHANGED <<redisClient, use, tableVars, cache, faults>>

(* The query rejects: 500, and the client gives up its walk. *)
QueryError(r) ==
    /\ reader[r].at \in {"exists", "produce", "bypass"}
    /\ Fail
    /\ reader' = [reader EXCEPT ![r] = Resting]
    /\ UNCHANGED <<redisClient, use, tableVars, cache>>

CacheSet(r) ==
    /\ reader[r].at = "set"
    /\ cache' = [cache EXCEPT ![reader[r].key] =
                    [answer |-> reader[r].answer, ttl |-> CacheTtl]]
    /\ Answer(r, reader[r].answer)
    /\ UNCHANGED <<redisClient, use, tableVars, faults>>

CacheSetError(r) ==
    /\ reader[r].at = "set"
    /\ Fail
    /\ Answer(r, reader[r].answer)
    /\ UNCHANGED <<redisClient, use, tableVars, cache>>

-----------------------------------------------------------------------------

(* The indexer registers a dataset; rows are never deleted. *)
Insert(id) ==
    /\ age[id] = NoRow
    /\ age' = [age EXCEPT ![id] = 0]
    /\ UNCHANGED <<redisClient, use, archived, issued, cache, reader, faults>>

(* A dataset changes its state: a walk does not owe it any more. *)
ChangeState(id) ==
    /\ use = "filtered" /\ id \in Active \cap rows
    /\ archived' = IF id \in archived THEN archived \ {id} ELSE archived \cup {id}
    /\ age' = [age EXCEPT ![id] = 0]
    /\ reader' = [r \in Readers |-> [reader[r] EXCEPT !.walk.owed = @ \ {id}]]
    /\ UNCHANGED <<redisClient, use, issued, cache, faults>>

(* A licence or a payout of a dataset. *)
Issue(id) ==
    /\ use = "children" /\ id \in Active \cap rows /\ issued[id] = NoRow
    /\ issued' = [issued EXCEPT ![id] = 0]
    /\ UNCHANGED <<redisClient, use, age, archived, cache, reader, faults>>

(* Faulty variant: the key was set without EX. *)
KeptForEver(entry) == entry

(* Redis drops a key when its time is over. *)
Aged(entry) ==
    IF entry.ttl <= 1 THEN NoKey ELSE [entry EXCEPT !.ttl = @ - 1]

Older(ages) == [i \in Ids |-> IF ages[i] < Staleness THEN ages[i] + 1 ELSE ages[i]]

(* Time passes, but no request waits longer than Latency for its answer. *)
TimePasses ==
    /\ \A r \in Readers : reader[r].at # "idle" => reader[r].waited < Latency
    /\ age' = Older(age) /\ issued' = Older(issued)
    /\ cache' = [k \in Keys |-> Aged(cache[k])]
    /\ reader' = [r \in Readers |->
                    IF reader[r].at = "idle" THEN reader[r]
                    ELSE [reader[r] EXCEPT !.waited = @ + 1]]
    /\ UNCHANGED <<redisClient, use, archived, faults>>

Request(r) ==
    \/ StartWalk(r) \/ NextPage(r) \/ \E cursor \in Ids \cup {0} : GetPage(r, cursor)
    \/ \E id \in Ids : GetDetail(r, id) \/ GetChildren(r, id)
    \/ GetLanguages(r) \/ Exists(r) \/ ExistsMiss(r)
    \/ CacheHit(r) \/ CacheMiss(r) \/ CacheGetError(r)
    \/ Query(r) \/ QueryUncached(r) \/ QueryError(r)
    \/ CacheSet(r) \/ CacheSetError(r)

ListingNext ==
    \/ TimePasses
    \/ \E id \in Ids : Insert(id) \/ ChangeState(id) \/ Issue(id)
    \/ \E r \in Readers : Request(r)

ListingSpec == ListingInit /\ [][ListingNext]_listingVars

-----------------------------------------------------------------------------
(* Properties.                                                             *)

Walks == [at : {"none", "going", "ended"}, owed : SUBSET Ids, listed : SUBSET Ids,
          repeated : BOOLEAN]

Client ==
    [at : {"idle", "exists", "get", "produce", "bypass", "set"}, key : Keys,
     answer : Page, waited : 0 .. Latency, walk : Walks]

(* Every variable has its type; a page holds Limit rows at most, and its   *)
(* cursor is its last row.                                                 *)
ListingTypeOK ==
    /\ redisClient \in RedisClients /\ use \in Uses
    /\ age \in [Ids -> 0 .. NoRow] /\ issued \in [Ids -> 0 .. NoRow]
    /\ archived \subseteq rows
    /\ cache \in [Keys -> [answer : Page, ttl : 0 .. CacheTtl]]
    /\ \A k \in Keys : cache[k].answer \in Answers(k)
    /\ reader \in [Readers -> Client]
    /\ \A r \in Readers : reader[r].answer \in Answers(reader[r].key)
    /\ faults \in 0 .. MaxFaults

(***************************************************************************)
(* What is served is at most Staleness old.  What has been in the tables   *)
(* that long is in the answer it belongs to: a dataset is not answered     *)
(* with 404, not even from a stored "null", and a page has its rows, if    *)
(* the row before it still is in the list; and a page has none that has    *)
(* been archived for that long (cached).                                   *)
(***************************************************************************)
Belongs(id, key, answer) ==
    \/ key.kind = "languages" /\ id \in Settled
    \/ key.kind = "detail" /\ key.id = id /\ id \in Settled
    \/ key.kind = "children" /\ key.id = id /\ issued[id] = Staleness
    \/ /\ key.kind = "list" /\ id \in Settled \cap Matching
       /\ Stands(key.id) /\ key.id < id /\ (answer.next = 0 \/ id <= answer.next)

Excluded(id, key) == key.kind = "list" /\ id \in Settled \ Matching

IsFresh(key, answer) ==
    \A id \in Ids :
        /\ Belongs(id, key, answer) => id \in answer.ids
        /\ Excluded(id, key) => id \notin answer.ids

Served(r) ==
    CASE reader[r].at = "get" -> cache[reader[r].key].answer
      [] reader[r].at = "set" -> reader[r].answer
      [] reader[r].at = "bypass" -> Produce(reader[r].key)

AnswersAreFresh ==
    [][\A r \in Readers :
        (CacheHit(r) \/ CacheSet(r) \/ CacheSetError(r) \/ QueryUncached(r)) =>
            IsFresh(reader[r].key, Served(r))]_listingVars

(***************************************************************************)
(* A walk that reached its end has listed every dataset that was in the    *)
(* list for Staleness before it began and stayed in it, though pages come  *)
(* from different moments, some from the cache, and rows are inserted      *)
(* before the cursor and behind it meanwhile (GET /datasets, "stable       *)
(* against concurrent inserts").  With a state filter this is so only if   *)
(* the rows that the cursors name do not leave the list: where one does,   *)
(* the walk owes nothing from there on (Stands).                           *)
(***************************************************************************)
WalkSkipsNone ==
    \A r \in Readers : reader[r].walk.at = "ended" => reader[r].walk.owed = {}

(***************************************************************************)
(* No walk lists a dataset twice, whatever is inserted, archived or taken  *)
(* back before the cursor or behind it meanwhile (GET /datasets, "see      *)
(* duplicates").                                                           *)
(***************************************************************************)
WalkRepeatsNone == \A r \in Readers : ~reader[r].walk.repeated
=============================================================================
