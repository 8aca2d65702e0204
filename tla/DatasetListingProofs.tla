------------------------ MODULE DatasetListingProofs ------------------------
(***************************************************************************)
(* Theorems about what readers of the dataset tables are told, for every   *)
(* set of datasets and clients, page limit and lifetime of a key.          *)
(***************************************************************************)
EXTENDS DatasetListing, FiniteSetTheorems, WellFoundedInduction, TLAPS

(***************************************************************************)
(* The invariant.  An answer that was read at most a ago reflects every    *)
(* row that has been as it is for longer.                                  *)
(***************************************************************************)
Stood(cursor, a) ==
    cursor = 0 \/ use = "list" \/ (cursor \in Matching /\ age[cursor] > a)

Owes(id, key, answer, a) ==
    \/ key.kind = "languages" /\ id \in rows /\ age[id] > a
    \/ key.kind = "detail" /\ key.id = id /\ id \in rows /\ age[id] > a
    \/ key.kind = "children" /\ key.id = id /\ issued[id] # NoRow /\ issued[id] > a
    \/ /\ key.kind = "list" /\ id \in Matching /\ age[id] > a
       /\ Stood(key.id, a) /\ key.id < id /\ (answer.next = 0 \/ id <= answer.next)

AsOf(key, answer, a) ==
    \A id \in Ids :
        /\ Owes(id, key, answer, a) => id \in answer.ids
        /\ key.kind = "list" /\ id \in rows \ Matching /\ age[id] > a => id \notin answer.ids

(* A page of the list lies behind its cursor and ends at its next one. *)
Paged(key, answer) ==
    key.kind = "list" =>
        /\ answer.ids \subseteq rows
        /\ \A i \in answer.ids : key.id < i
        /\ answer.next # 0 => answer.next \in answer.ids /\ \A i \in answer.ids : i <= answer.next

Good(key, answer, a) == Paged(key, answer) /\ AsOf(key, answer, a)

(* The cursor of a list request is a row of the table; only the lists of a *)
(* dataset ask first whether it exists.                                    *)
CursorsInv ==
    \A r \in Readers :
        /\ reader[r].key.kind = "list" => reader[r].key.id \in rows \cup {0}
        /\ reader[r].at = "exists" => reader[r].key.kind = "children"

(* What a key keeps, and what is about to be stored under it. *)
AnswersInv ==
    /\ \A k \in Keys : Cached(k) => Good(k, cache[k].answer, Staleness - cache[k].ttl)
    /\ \A r \in Readers : reader[r].at = "set" =>
        Good(reader[r].key, reader[r].answer, reader[r].waited)

(* How far a walk has come: to its last page, or to the one it asked for. *)
Reached(r) == IF reader[r].at = "idle" THEN reader[r].answer.next ELSE reader[r].key.id

Walked(r) ==
    /\ ~reader[r].walk.repeated
    /\ reader[r].walk.at = "ended" => reader[r].walk.owed = {}
    /\ reader[r].walk.at = "going" =>
        /\ reader[r].key.kind = "list"
        /\ reader[r].walk.owed \subseteq Settled \cap Matching
        /\ reader[r].at = "idle" => Reached(r) \in rows
        /\ \A i \in reader[r].walk.listed : i <= Reached(r)
        /\ \A i \in reader[r].walk.owed : i > Reached(r)

WalksInv == \A r \in Readers : Walked(r)

ListingInv == ListingTypeOK /\ CursorsInv /\ AnswersInv /\ WalksInv

-----------------------------------------------------------------------------
(* The first ids of a set.                                                 *)

LEMMA LeastOf ==
    ASSUME NEW S \in SUBSET Nat, S # {}
    PROVE  \E m \in S : \A n \in S : m <= n
  <1> DEFINE R == OpToRel(<, Nat)
  <1>1. IsWellFoundedOn(R, Nat)
    BY NatLessThanWellFounded
  <1>2. PICK m \in S : \A n \in S : ~(<<n, m>> \in R)
    <2> HIDE DEF R
    <2> QED
      BY <1>1, WFMin
  <1>3. \A n \in S : ~(n < m)
    BY <1>2 DEF OpToRel
  <1> QED
    BY <1>3

(* How many elements of a set are smaller. *)
Rank(i, S) == Cardinality({j \in S : j < i})

LEMMA RankType ==
    ASSUME NEW S \in SUBSET Nat, IsFiniteSet(S), NEW i
    PROVE  /\ IsFiniteSet({j \in S : j < i})
           /\ Rank(i, S) \in Nat
  <1>1. {j \in S : j < i} \in SUBSET S
    OBVIOUS
  <1>2. IsFiniteSet({j \in S : j < i})
    BY <1>1, FS_Subset
  <1> QED
    BY <1>2, FS_CardinalityType DEF Rank

LEMMA RankGrows ==
    ASSUME NEW S \in SUBSET Nat, IsFiniteSet(S), NEW i \in S, NEW k \in S, i < k
    PROVE  Rank(i, S) < Rank(k, S)
  <1> DEFINE A == {j \in S : j < i}
             B == {j \in S : j < k}
  <1>0. i \in Nat /\ k \in Nat /\ \A j \in S : j \in Nat
    OBVIOUS
  <1>1. A \in SUBSET B /\ i \in B /\ i \notin A
    <2>1. \A j \in S : j < i => j < k
      BY <1>0
    <2>2. ~(i < i)
      BY <1>0
    <2> QED
      BY <2>1, <2>2
  <1>2. IsFiniteSet(B) /\ Cardinality(A) \in Nat /\ Cardinality(B) \in Nat
    BY RankType DEF Rank
  <1>3. A # B
    BY <1>1
  <1> HIDE DEF A, B
  <1>4. Cardinality(A) <= Cardinality(B) /\ Cardinality(A) # Cardinality(B)
    BY <1>1, <1>2, <1>3, FS_Subset
  <1>5. Cardinality(A) < Cardinality(B)
    BY <1>2, <1>4
  <1> QED
    BY <1>5 DEF A, B, Rank

LEMMA FiniteMax ==
    ASSUME NEW S \in SUBSET Nat, IsFiniteSet(S), S # {}
    PROVE  Max(S) \in S /\ \A i \in S : i <= Max(S)
  <1> DEFINE above(i) == Cardinality({j \in S : j > i})
             T == {above(i) : i \in S}
  <1>1. ASSUME NEW i \in S, NEW k \in S, i < k PROVE above(k) < above(i)
    <2> DEFINE A == {j \in S : j > k}
               B == {j \in S : j > i}
    <2>1. A \in SUBSET B /\ k \in B /\ k \notin A /\ B \in SUBSET S
      <3>1. i \in Nat /\ k \in Nat /\ \A j \in S : j \in Nat
        OBVIOUS
      <3>2. (\A j \in S : j > k => j > i) /\ ~(k > k) /\ k > i
        BY <1>1, <3>1
      <3> QED
        BY <3>2
    <2> HIDE DEF A, B
    <2>2. IsFiniteSet(B)
      BY <2>1, FS_Subset
    <2>3. A # B
      BY <2>1
    <2>4. Cardinality(A) <= Cardinality(B) /\ Cardinality(A) # Cardinality(B) /\ IsFiniteSet(A)
      BY <2>1, <2>2, <2>3, FS_Subset
    <2>5. Cardinality(A) < Cardinality(B)
      BY <2>2, <2>4, FS_CardinalityType
    <2> QED
      BY <2>5 DEF A, B
  <1>2. ASSUME NEW i \in S PROVE above(i) \in Nat
    <2> DEFINE A == {j \in S : j > i}
    <2>1. A \in SUBSET S
      OBVIOUS
    <2> HIDE DEF A
    <2>2. Cardinality(A) \in Nat
      BY <2>1, FS_Subset, FS_CardinalityType
    <2> QED
      BY <2>2 DEF A
  <1> HIDE DEF above
  <1>3. T \in SUBSET Nat /\ T # {}
    BY <1>2
  <1>4. PICK m \in T : \A n \in T : m <= n
    <2> HIDE DEF T
    <2> QED
      BY <1>3, LeastOf
  <1>5. PICK i \in S : m = above(i)
    OBVIOUS
  <1>6. ASSUME NEW k \in S PROVE k <= i
    <2>1. above(i) <= above(k) /\ above(i) \in Nat /\ above(k) \in Nat
      BY <1>2, <1>4, <1>5
    <2>2. ASSUME i < k PROVE FALSE
      <3>1. above(k) < above(i)
        BY <1>1, <2>2
      <3> QED
        BY <2>1, <3>1
    <2>3. i \in Nat /\ k \in Nat
      OBVIOUS
    <2> QED
      BY <2>2, <2>3
  <1>7. \E x \in S : \A y \in S : x >= y
    BY <1>6
  <1> QED
    BY <1>7 DEF Max

(* The first n of a set are n, or the whole set. *)
LEMMA FirstType ==
    ASSUME NEW S \in SUBSET Nat, IsFiniteSet(S), NEW n \in Nat
    PROVE  /\ First(n, S) \in SUBSET S /\ First(n, S) \in SUBSET Nat
           /\ IsFiniteSet(First(n, S)) /\ Cardinality(First(n, S)) \in Nat
           /\ \A i \in S : i \in First(n, S) <=> Rank(i, S) < n
           /\ \A i \in First(n, S), j \in S : j < i => j \in First(n, S)
  <1>1. First(n, S) \in SUBSET S /\ First(n, S) \in SUBSET Nat
    BY DEF First
  <1>2. \A i \in S : i \in First(n, S) <=> Rank(i, S) < n
    BY DEF First, Rank
  <1>3. ASSUME NEW i \in First(n, S), NEW j \in S, j < i PROVE j \in First(n, S)
    <2>1. i \in S /\ Rank(i, S) < n
      BY <1>1, <1>2
    <2>2. Rank(j, S) < Rank(i, S) /\ Rank(j, S) \in Nat /\ Rank(i, S) \in Nat
      BY <1>3, <2>1, RankGrows, RankType
    <2> QED
      BY <1>2, <2>1, <2>2
  <1> QED
    BY <1>1, <1>2, <1>3, FS_Subset, FS_CardinalityType

LEMMA FirstHasAtMost ==
    ASSUME NEW S \in SUBSET Nat, IsFiniteSet(S), NEW n \in Nat
    PROVE  Cardinality(First(n, S)) <= n
  <1> DEFINE F == First(n, S)
  <1>1. /\ F \in SUBSET S /\ F \in SUBSET Nat /\ IsFiniteSet(F) /\ Cardinality(F) \in Nat
        /\ \A i \in S : i \in F <=> Rank(i, S) < n
        /\ \A i \in F, j \in S : j < i => j \in F
    BY FirstType
  <1> HIDE DEF F
  <1>2. CASE F = {}
    BY <1>2, FS_EmptySet DEF F
  <1>3. CASE F # {}
    <2> DEFINE m == Max(F)
               B == {j \in S : j < m}
    <2>1. m \in F /\ \A i \in F : i <= m
      BY <1>1, <1>3, FiniteMax
    <2>2. F = B \cup {m}
      <3>1. m \in Nat /\ m \in S /\ \A j \in S : j \in Nat
        BY <1>1, <2>1
      <3>2. \A j \in F : j \in S /\ (j < m \/ j = m)
        BY <1>1, <2>1, <3>1
      <3>3. \A j \in S : j < m => j \in F
        BY <1>1, <2>1
      <3> QED
        BY <2>1, <3>1, <3>2, <3>3
    <2>3. IsFiniteSet(B) /\ Cardinality(B) \in Nat /\ Cardinality(B) < n
      <3>1. Rank(m, S) < n
        BY <1>1, <2>1
      <3> QED
        BY <3>1, RankType DEF Rank
    <2> HIDE DEF B, m
    <2>4. Cardinality(B \cup {m}) <= Cardinality(B) + 1
      <3>1. Cardinality(B \cup {m})
                = IF m \in B THEN Cardinality(B) ELSE Cardinality(B) + 1
        BY <2>3, FS_AddElement
      <3> QED
        BY <2>3, <3>1
    <2>5. Cardinality(B \cup {m}) <= n
      BY <1>1, <2>2, <2>3, <2>4
    <2> QED
      BY <2>2, <2>5 DEF F
  <1> QED
    BY <1>2, <1>3

LEMMA FirstHasAll ==
    ASSUME NEW S \in SUBSET Nat, IsFiniteSet(S), NEW n \in Nat,
           Cardinality(First(n + 1, S)) <= n
    PROVE  First(n, S) = S
  <1> SUFFICES ASSUME First(n, S) # S PROVE FALSE
    OBVIOUS
  <1>1. /\ First(n, S) \in SUBSET S /\ First(n, S) \in SUBSET Nat
        /\ \A i \in S : i \in First(n, S) <=> Rank(i, S) < n
        /\ \A i \in First(n, S), j \in S : j < i => j \in First(n, S)
    BY FirstType
  <1> DEFINE T == S \ First(n, S)
  <1>2. T \in SUBSET Nat /\ T # {}
    BY <1>1
  <1>3. PICK x \in T : \A k \in T : x <= k
    <2> HIDE DEF T
    <2> QED
      BY <1>2, LeastOf
  <1> DEFINE B == {j \in S : j < x}
  <1>4. x \in S /\ ~(Rank(x, S) < n) /\ Rank(x, S) \in Nat
    BY <1>1, RankType
  <1>5. B = First(n, S)
    <2>1. \A j \in B : j \in First(n, S)
      BY <1>3
    <2>2. \A j \in First(n, S) : j \in B
      BY <1>1, <1>3, <1>4
    <2> QED
      BY <2>1, <2>2
  <1>6. Cardinality(B) = Rank(x, S)
    BY DEF Rank
  <1>7. Cardinality(B) <= n /\ Cardinality(B) \in Nat
    BY <1>5, FirstType, FirstHasAtMost
  <1>8. Rank(x, S) = n
    BY <1>4, <1>6, <1>7
  <1> DEFINE F == First(n + 1, S)
  <1>9. /\ IsFiniteSet(F) /\ Cardinality(F) \in Nat
        /\ \A i \in S : i \in F <=> Rank(i, S) < n + 1
        /\ \A i \in F, j \in S : j < i => j \in F
    BY FirstType
  <1>10. x \in F
    BY <1>4, <1>8, <1>9
  <1>11. B \cup {x} \in SUBSET F /\ x \notin B
    <2>1. x \in Nat /\ ~(x < x)
      BY <1>4
    <2>2. \A j \in S : j < x => j \in F
      BY <1>9, <1>10
    <2> HIDE DEF F
    <2> QED
      BY <1>10, <2>1, <2>2
  <1> HIDE DEF B, F, T
  <1>12. Cardinality(B \cup {x}) = n + 1
    <2>1. IsFiniteSet(B)
      BY <1>5, FirstType
    <2> QED
      BY <1>6, <1>8, <1>11, <2>1, FS_AddElement
  <1>13. Cardinality(B \cup {x}) <= Cardinality(F)
    BY <1>9, <1>11, FS_Subset
  <1>14. Cardinality(F) <= n
    BY DEF F
  <1> QED
    BY <1>9, <1>12, <1>13, <1>14

(* Fewer of the first are the first. *)
LEMMA FirstOfFirst ==
    ASSUME NEW S \in SUBSET Nat, IsFiniteSet(S), NEW n \in Nat
    PROVE  First(n, First(n + 1, S)) = First(n, S)
  <1> DEFINE F == First(n + 1, S)
  <1>1. /\ F \in SUBSET S
        /\ \A i \in S : i \in F <=> Rank(i, S) < n + 1
        /\ \A i \in F, j \in S : j < i => j \in F
    BY FirstType
  <1>2. ASSUME NEW i \in F PROVE Rank(i, F) = Rank(i, S)
    <2>1. {j \in F : j < i} = {j \in S : j < i}
      BY <1>1
    <2> QED
      BY <2>1 DEF Rank
  <1>3. \A i \in S : Rank(i, S) \in Nat
    BY RankType
  <1>4. \A i \in First(n, S) : i \in S /\ Rank(i, S) < n
    BY FirstType
  <1>5. \A i \in S : Rank(i, S) < n => i \in First(n, S)
    BY FirstType
  <1>6. \A i \in S : Rank(i, S) < n => i \in F
    BY <1>1, <1>3
  <1>7. First(n, F) = {i \in F : Rank(i, F) < n}
    BY DEF First, Rank
  <1> HIDE DEF F
  <1>8. First(n, F) = First(n, S)
    BY <1>1, <1>2, <1>4, <1>5, <1>6, <1>7
  <1> QED
    BY <1>8 DEF F

(* A page: the rows up to its last one, all of them if there are no more.  *)
LEMMA PageTaken ==
    ASSUME NEW S \in SUBSET Ids,
           NEW found, found = First(Limit + 1, S), NEW page, page = PageOf(found)
    PROVE  /\ page \in SUBSET S /\ IsFiniteSet(page) /\ Cardinality(page) <= Limit
           /\ HasMore(found) => Max(page) \in page /\ \A i \in page : i <= Max(page)
           /\ \A id \in S : ~HasMore(found) \/ id <= Max(page) => id \in page
  <1>1. S \in SUBSET Nat /\ IsFiniteSet(S) /\ Limit \in Nat \ {0}
    BY ListingAssumption, FS_Subset
  <1>2. page = First(Limit, S)
    BY <1>1, FirstOfFirst DEF PageOf
  <1>3. /\ page \in SUBSET S /\ IsFiniteSet(page) /\ page \in SUBSET Nat
        /\ Cardinality(page) <= Limit
        /\ \A i \in page, j \in S : j < i => j \in page
    BY <1>1, <1>2, FirstType, FirstHasAtMost
  <1>4. ASSUME ~HasMore(found) PROVE page = S
    <2>1. Cardinality(found) \in Nat /\ ~(Cardinality(found) > Limit)
      BY <1>1, <1>4, FirstType DEF HasMore
    <2>2. Cardinality(found) <= Limit
      BY <1>1, <2>1
    <2> QED
      BY <1>1, <1>2, <2>2, FirstHasAll
  <1>5. ASSUME HasMore(found) PROVE page # {}
    <2>1. S # {}
      <3>1. ASSUME S = {} PROVE FALSE
        <4>1. found = {}
          BY <1>1, <3>1, FirstType
        <4>2. Cardinality(found) = 0
          BY <4>1, FS_EmptySet
        <4> QED
          BY <1>1, <1>5, <4>2 DEF HasMore
      <3> QED
        BY <3>1
    <2>2. PICK x \in S : \A k \in S : x <= k
      BY <1>1, <2>1, LeastOf
    <2>3. {j \in S : j < x} = {}
      <3>1. \A k \in S : k \in Nat /\ x \in Nat
        BY <1>1
      <3>2. \A k \in S : ~(k < x)
        BY <2>2, <3>1
      <3> QED
        BY <3>2
    <2>4. Rank(x, S) = 0
      BY <2>3, FS_EmptySet DEF Rank
    <2> QED
      BY <1>1, <1>2, <2>4, FirstType
  <1>6. ASSUME HasMore(found)
        PROVE  Max(page) \in page /\ \A i \in page : i <= Max(page)
    BY <1>3, <1>5, <1>6, FiniteMax
  <1>7. ASSUME HasMore(found), NEW id \in S, id <= Max(page) PROVE id \in page
    <2>1. Max(page) \in page /\ Max(page) \in Nat /\ id \in Nat
      BY <1>1, <1>3, <1>6, <1>7
    <2>2. id = Max(page) \/ id < Max(page)
      BY <1>7, <2>1
    <2> QED
      BY <1>3, <2>1, <2>2
  <1> QED
    BY <1>3, <1>4, <1>6, <1>7

-----------------------------------------------------------------------------
(* What the queries answer.                                                *)

LEMMA TableType ==
    ASSUME ListingTypeOK
    PROVE  /\ rows \in SUBSET Ids /\ Matching \in SUBSET rows
           /\ Ids \in SUBSET Nat /\ IsFiniteSet(Ids) /\ 0 \notin Ids
           /\ use = "list" => Matching = rows
           /\ Staleness \in Nat /\ NoRow \in Nat /\ Staleness < NoRow
           /\ Latency < Staleness /\ Latency \in Nat /\ CacheTtl \in Nat
           /\ Staleness = CacheTtl + Latency /\ 0 < Staleness
           /\ \A i \in Ids : age[i] \in Nat /\ issued[i] \in Nat
           /\ \A i \in Ids : i \in rows <=> age[i] # NoRow
           /\ \A i \in Ids : i \in Settled <=> age[i] = Staleness
           /\ Settled \in SUBSET rows
  <1>1. CacheTtl \in Nat \ {0} /\ Latency \in Nat
    BY ListingAssumption
  <1>2. /\ Staleness \in Nat /\ NoRow \in Nat /\ Staleness < NoRow
        /\ Latency < Staleness /\ Staleness = CacheTtl + Latency /\ 0 < Staleness
    BY <1>1 DEF Staleness, NoRow
  <1>3. \A i \in Ids : age[i] \in Nat /\ issued[i] \in Nat
    BY <1>2 DEF ListingTypeOK
  <1>4. Settled \in SUBSET rows
    BY <1>2 DEF Settled, rows
  <1> QED
    BY <1>1, <1>2, <1>3, <1>4, ListingAssumption DEF rows, Matching, Settled

(* The query goes on behind the cursor, right behind it if that matches.   *)
LEMMA AfterCursorSpan ==
    ASSUME ListingTypeOK, NEW c \in Ids \cup {0}
    PROVE  /\ AfterCursor(c) \in SUBSET Matching
           /\ \A i \in AfterCursor(c) : c < i
           /\ c = 0 \/ c \in Matching => \A i \in Matching : c < i => i \in AfterCursor(c)
  <1>1. /\ Matching \in SUBSET Ids /\ Matching \in SUBSET Nat /\ IsFiniteSet(Matching)
        /\ \A i \in Matching : i \in Nat /\ 0 < i
        /\ c \in Nat
    BY TableType, FS_Subset
  <1> DEFINE from == {i \in Matching : i >= c}
  <1>2. from \in SUBSET Matching /\ from \in SUBSET Nat /\ IsFiniteSet(from)
    <2>1. from \in SUBSET Matching
      OBVIOUS
    <2> HIDE DEF from
    <2> QED
      BY <1>1, <2>1, FS_Subset
  <1>3. CASE c = 0
    <2>1. AfterCursor(c) = from
      BY <1>3 DEF AfterCursor
    <2>2. \A i \in Matching : i \in from /\ c < i
      BY <1>1, <1>3
    <2> QED
      BY <1>2, <2>1, <2>2
  <1>4. CASE c # 0
    <2>1. AfterCursor(c) = from \ First(1, from)
      BY <1>4 DEF AfterCursor
    <2>2. \A i \in from : i = c \/ c < i
      BY <1>1
    <2>3. ASSUME c \in Matching PROVE First(1, from) = {c}
      <3>1. c \in from
        BY <1>1, <2>3
      <3>2. {j \in from : j < c} = {}
        <4>1. \A j \in from : ~(j < c)
          BY <1>1
        <4> QED
          BY <4>1
      <3>3. Rank(c, from) = 0
        BY <3>2, FS_EmptySet DEF Rank
      <3>4. c \in First(1, from)
        BY <1>2, <3>1, <3>3, FirstType
      <3>5. ASSUME NEW i \in First(1, from), i # c PROVE FALSE
        <4>1. i \in from /\ Rank(i, from) < 1 /\ Rank(i, from) \in Nat
          BY <1>2, FirstType, RankType
        <4>2. c < i
          BY <2>2, <3>5, <4>1
        <4>3. Rank(c, from) < Rank(i, from)
          BY <1>2, <3>1, <4>1, <4>2, RankGrows
        <4> QED
          BY <3>3, <4>1, <4>3
      <3> QED
        BY <3>4, <3>5
    <2>4. \A i \in from \ First(1, from) : c < i
      <3>1. CASE c \in Matching
        BY <2>2, <2>3, <3>1
      <3>2. CASE c \notin Matching
        BY <2>2, <3>2
      <3> QED
        BY <3>1, <3>2
    <2>5. c \in Matching => \A i \in Matching : c < i => i \in from \ First(1, from)
      <3>1. \A i \in Matching : c < i => i \in from /\ i # c
        BY <1>1
      <3> QED
        BY <2>3, <3>1
    <2> HIDE DEF from
    <2> QED
      BY <1>2, <1>4, <2>1, <2>4, <2>5
  <1> QED
    BY <1>3, <1>4

LEMMA ListGood ==
    ASSUME ListingTypeOK, NEW key \in Keys, key.kind = "list", key.id \in rows \cup {0}
    PROVE  ListAnswer(key.id) \in Answers(key) /\ Good(key, ListAnswer(key.id), 0)
  <1> DEFINE S == AfterCursor(key.id)
             found == First(Limit + 1, S)
             page == PageOf(found)
             next == IF HasMore(found) THEN Max(page) ELSE 0
             answer == ListAnswer(key.id)
  <1>1. /\ rows \in SUBSET Ids /\ Matching \in SUBSET rows /\ Ids \in SUBSET Nat /\ 0 \notin Ids
        /\ use = "list" => Matching = rows
    BY TableType
  <1>2. key.id \in Ids \cup {0}
    BY <1>1
  <1>3. /\ S \in SUBSET Matching /\ \A i \in S : key.id < i
        /\ key.id = 0 \/ key.id \in Matching => \A i \in Matching : key.id < i => i \in S
    BY <1>2, AfterCursorSpan
  <1>4. /\ page \in SUBSET S /\ Cardinality(page) <= Limit
        /\ HasMore(found) => Max(page) \in page /\ \A i \in page : i <= Max(page)
        /\ \A id \in S : ~HasMore(found) \/ id <= Max(page) => id \in page
    <2>1. S \in SUBSET Ids
      BY <1>1, <1>3
    <2> HIDE DEF S
    <2> QED
      BY <2>1, PageTaken
  <1>5. answer = [ids |-> page, next |-> next]
    BY DEF ListAnswer
  <1> HIDE DEF S, found, page, answer
  <1>6. /\ page \in SUBSET Ids /\ next \in Ids \cup {0}
        /\ next # 0 => next = Max(page) /\ next \in page
        /\ \A i \in page : i \in rows /\ i \in Matching /\ key.id < i
        /\ next # 0 => \A i \in page : i <= next
        /\ HasMore(found) => next # 0
        /\ next = 0 => ~HasMore(found)
    BY <1>1, <1>3, <1>4
  <1>7. answer.ids = page /\ answer.next = next
    BY <1>5
  <1>8. answer \in Answers(key)
    BY <1>4, <1>5, <1>6, <1>7 DEF Answers, Page
  <1>9. ASSUME NEW id \in Ids, Owes(id, key, answer, 0) PROVE id \in page
    <2>1. /\ id \in Matching /\ key.id < id
          /\ answer.next = 0 \/ id <= answer.next
          /\ key.id = 0 \/ key.id \in Matching
      BY <1>1, <1>9 DEF Owes, Stood
    <2>2. id \in S
      BY <1>3, <2>1
    <2>3. ~HasMore(found) \/ id <= Max(page)
      BY <1>6, <1>7, <2>1
    <2> QED
      BY <1>4, <2>2, <2>3
  <1>10. Paged(key, answer)
    BY <1>6, <1>7 DEF Paged
  <1>11. AsOf(key, answer, 0)
    BY <1>6, <1>7, <1>9 DEF AsOf
  <1> QED
    BY <1>8, <1>10, <1>11 DEF Good, answer

(* Whatever is asked for, the answer is good the moment it is read.        *)
LEMMA ProduceGood ==
    ASSUME ListingTypeOK, NEW key \in Keys, key.kind = "list" => key.id \in rows \cup {0}
    PROVE  Produce(key) \in Answers(key) /\ Good(key, Produce(key), 0)
  <1>1. /\ rows \in SUBSET Ids /\ NoRow \in Nat /\ 0 \notin Ids
        /\ \A i \in Ids : issued[i] \in Nat
    BY TableType
  <1>2. /\ key.kind \in {"list", "detail", "children", "languages"}
        /\ key.kind \in {"detail", "children"} => key.id \in Ids
    BY DEF Keys, ListKey, DetailKey, ChildrenKey, LanguagesKey
  <1>3. CASE key.kind = "list"
    BY <1>3, ListGood DEF Produce
  <1>4. CASE key.kind = "detail"
    <2>1. Produce(key) = [ids |-> rows \cap {key.id}, next |-> 0]
      BY <1>4 DEF Produce, DetailAnswer
    <2> QED
      BY <1>1, <1>4, <2>1 DEF Answers, Page, Good, Paged, AsOf, Owes
  <1>5. CASE key.kind = "children"
    <2>1. Produce(key) = [ids |-> {key.id} \ {i \in Ids : issued[i] = NoRow}, next |-> 0]
      BY <1>5 DEF Produce, ChildrenAnswer
    <2> QED
      BY <1>1, <1>2, <1>5, <2>1 DEF Answers, Page, Good, Paged, AsOf, Owes
  <1>6. CASE key.kind = "languages"
    <2>1. Produce(key) = [ids |-> rows, next |-> 0]
      BY <1>6 DEF Produce, LanguagesAnswer
    <2> QED
      BY <1>1, <1>6, <2>1 DEF Answers, Page, Good, Paged, AsOf, Owes
  <1> QED
    BY <1>2, <1>3, <1>4, <1>5, <1>6

(* A good answer stays good for longer. *)
LEMMA GoodForLonger ==
    ASSUME ListingTypeOK, NEW key, NEW answer, NEW a \in Nat, NEW b \in Nat, a <= b,
           Good(key, answer, a)
    PROVE  Good(key, answer, b)
  <1>1. \A i \in Ids : age[i] \in Nat /\ issued[i] \in Nat
    BY TableType
  <1>2. Matching \subseteq Ids
    BY TableType
  <1>3. \A id \in Ids : Owes(id, key, answer, b) => Owes(id, key, answer, a)
    BY <1>1, <1>2 DEF Owes, Stood
  <1>4. \A id \in Ids : age[id] > b => age[id] > a
    BY <1>1
  <1> QED
    BY <1>3, <1>4 DEF Good, AsOf

(* What is good and younger than Staleness may be served. *)
LEMMA GoodIsFresh ==
    ASSUME ListingTypeOK, NEW key, NEW answer, NEW a \in Nat, a < Staleness,
           Good(key, answer, a)
    PROVE  IsFresh(key, answer)
  <1>1. /\ Staleness \in Nat /\ NoRow \in Nat /\ Staleness < NoRow
        /\ \A i \in Ids : i \in Settled <=> age[i] = Staleness
        /\ \A i \in Ids : i \in rows <=> age[i] # NoRow
        /\ Matching \subseteq Ids
    BY TableType
  <1>2. \A id \in Ids : Belongs(id, key, answer) => Owes(id, key, answer, a)
    BY <1>1 DEF Belongs, Owes, Stands, Stood
  <1>3. \A id \in Ids : Excluded(id, key) =>
            key.kind = "list" /\ id \in rows \ Matching /\ age[id] > a
    BY <1>1 DEF Excluded
  <1> QED
    BY <1>2, <1>3 DEF IsFresh, Good, AsOf

-----------------------------------------------------------------------------
(* What the tables and the time do to a good answer.                       *)

(* Rows that have just changed owe nothing. *)
LEMMA GoodKept ==
    ASSUME ListingTypeOK, ListingTypeOK', use' = use, rows \subseteq rows',
           \A id \in Ids : \/ age'[id] = age[id] /\ (id \in archived' <=> id \in archived)
                           \/ age'[id] = 0,
           \A id \in Ids : issued'[id] = issued[id] \/ issued'[id] = 0,
           NEW key, NEW answer, NEW a \in Nat, Good(key, answer, a)
    PROVE  Good(key, answer, a)'
  <1>1. /\ \A i \in Ids : age[i] \in Nat /\ issued[i] \in Nat
        /\ \A i \in Ids : i \in rows <=> age[i] # NoRow
        /\ \A i \in Ids : i \in rows' <=> age'[i] # NoRow
        /\ Matching \subseteq rows /\ rows \subseteq Ids /\ Matching' \subseteq rows'
        /\ rows' \subseteq Ids
        /\ NoRow \in Nat /\ NoRow # 0
    BY TableType DEF ListingTypeOK, rows, Matching
  <1>2. \A i \in Ids : age'[i] > a =>
            /\ age'[i] = age[i]
            /\ (i \in rows' <=> i \in rows) /\ (i \in Matching' <=> i \in Matching)
    BY <1>1 DEF Matching
  <1>3. \A id \in Ids : Owes(id, key, answer, a)' => Owes(id, key, answer, a)
    <2>1. Stood(key.id, a)' => Stood(key.id, a)
      BY <1>1, <1>2 DEF Stood
    <2> QED
      BY <1>1, <1>2, <2>1 DEF Owes
  <1>4. Paged(key, answer)'
    BY DEF Good, Paged
  <1>5. AsOf(key, answer, a)'
    BY <1>1, <1>2, <1>3 DEF Good, AsOf
  <1> QED
    BY <1>4, <1>5 DEF Good


(* Time makes a good answer older. *)
LEMMA GoodTick ==
    ASSUME ListingTypeOK, TimePasses, NEW key, NEW answer, NEW a \in Nat, a < Staleness,
           Good(key, answer, a)
    PROVE  Good(key, answer, a + 1)'
  <1>1. /\ \A i \in Ids : age[i] \in Nat /\ issued[i] \in Nat
        /\ \A i \in Ids : i \in rows <=> age[i] # NoRow
        /\ Matching \subseteq rows /\ rows \subseteq Ids
        /\ Staleness \in Nat /\ NoRow = Staleness + 1
        /\ \A i \in Ids : age[i] <= NoRow /\ issued[i] <= NoRow
    BY TableType DEF NoRow, ListingTypeOK
  <1>2. /\ \A i \in Ids :
            /\ age'[i] = IF age[i] < Staleness THEN age[i] + 1 ELSE age[i]
            /\ issued'[i] = IF issued[i] < Staleness THEN issued[i] + 1 ELSE issued[i]
        /\ archived' = archived /\ use' = use
    BY DEF TimePasses, Older
  <1>3. \A i \in Ids : /\ i \in rows' <=> i \in rows
                       /\ i \in Matching' <=> i \in Matching
                       /\ i \in rows /\ age'[i] > a + 1 => age[i] > a
                       /\ issued'[i] # NoRow => issued[i] # NoRow
                       /\ issued[i] # NoRow /\ issued'[i] > a + 1 => issued[i] > a
    BY <1>1, <1>2 DEF rows, Matching
  <1>4. rows' = rows /\ Matching' = Matching
    BY <1>1, <1>3 DEF rows, Matching
  <1>5. Stood(key.id, a + 1)' => Stood(key.id, a)
    BY <1>1, <1>2, <1>3, <1>4 DEF Stood
  <1>6. \A id \in Ids : Owes(id, key, answer, a + 1)' => Owes(id, key, answer, a)
    BY <1>1, <1>3, <1>4, <1>5 DEF Owes
  <1>7. Paged(key, answer)'
    BY <1>4 DEF Good, Paged
  <1>8. AsOf(key, answer, a + 1)'
    BY <1>3, <1>4, <1>6 DEF Good, AsOf
  <1> QED
    BY <1>7, <1>8 DEF Good

-----------------------------------------------------------------------------
(* Types.                                                                  *)

LEMMA KeyType ==
    /\ \A c \in Ids \cup {0} : ListKey(c) \in Keys
    /\ \A id \in Ids : DetailKey(id) \in Keys /\ ChildrenKey(id) \in Keys
    /\ LanguagesKey \in Keys
    /\ \A c : ListKey(c).kind = "list" /\ ListKey(c).id = c
    /\ \A id : DetailKey(id).kind = "detail" /\ ChildrenKey(id).kind = "children"
    /\ LanguagesKey.kind = "languages"
  BY DEF Keys, ListKey, DetailKey, ChildrenKey, LanguagesKey

LEMMA PlainTypes ==
    /\ NoWalk \in Walks /\ ListKey(0) \in Keys
    /\ Nothing \in Page /\ \A key : Nothing \in Answers(key)
    /\ NoKey \in [answer : Page, ttl : 0 .. CacheTtl] /\ NoKey.ttl = 0
    /\ Resting \in Client /\ Resting.answer = Nothing /\ Resting.key = ListKey(0)
    /\ Resting.at = "idle" /\ Resting.walk = NoWalk
    /\ CachedAt \in {"get", "bypass"}
  <1>1. NoWalk \in Walks /\ Nothing \in Page /\ ListKey(0) \in Keys
    BY KeyType DEF NoWalk, Walks, Nothing, Page
  <1>2. 0 \in 0 .. Latency /\ 0 \in 0 .. CacheTtl /\ Limit \in Nat
    BY ListingAssumption
  <1>3. \A key : Nothing \in Answers(key)
    <2>1. Cardinality(Nothing.ids) = 0 /\ Nothing.next = 0
      BY FS_EmptySet DEF Nothing
    <2> QED
      BY <1>1, <1>2, <2>1 DEF Answers
  <1>4. Resting \in Client
    BY <1>1, <1>2 DEF Resting, Client
  <1> QED
    BY <1>1, <1>2, <1>3, <1>4 DEF NoKey, Resting, CachedAt

LEMMA AskType ==
    ASSUME ListingTypeOK, NEW r \in Readers, NEW at \in {"exists", "get", "bypass"},
           NEW key \in Keys, NEW walk \in Walks, AskAt(r, at, key, walk)
    PROVE  /\ reader' \in [Readers -> Client]
           /\ \A q \in Readers : reader'[q].answer \in Answers(reader'[q].key)
           /\ \A q \in Readers : q # r => reader'[q] = reader[q]
           /\ reader'[r].at = at /\ reader'[r].key = key /\ reader'[r].walk = walk
  <1> DEFINE asked == [at |-> at, key |-> key, answer |-> Nothing, waited |-> 0, walk |-> walk]
  <1>1. 0 \in 0 .. Latency
    BY ListingAssumption
  <1>2. asked \in Client
    BY <1>1, PlainTypes DEF Client
  <1>3. /\ asked.answer = Nothing /\ asked.at = at /\ asked.key = key /\ asked.walk = walk
    OBVIOUS
  <1>4. reader' = [reader EXCEPT ![r] = asked] /\ reader \in [Readers -> Client]
    BY DEF AskAt, ListingTypeOK
  <1> HIDE DEF asked
  <1>5. \A q \in Readers : reader'[q].answer \in Answers(reader'[q].key)
    BY <1>2, <1>3, <1>4, PlainTypes DEF ListingTypeOK
  <1> QED
    BY <1>2, <1>3, <1>4, <1>5

LEMMA PageListedType ==
    ASSUME NEW walk \in Walks, NEW cursor, NEW answer \in Page
    PROVE  /\ PageListed(walk, cursor, answer) \in Walks
           /\ PageListed(walk, cursor, answer).owed \subseteq walk.owed
  BY DEF PageListed, Walks, Page

LEMMA AnswerType ==
    ASSUME ListingTypeOK, NEW r \in Readers, NEW answer \in Answers(reader[r].key),
           Answer(r, answer)
    PROVE  /\ reader' \in [Readers -> Client]
           /\ \A q \in Readers : reader'[q].answer \in Answers(reader'[q].key)
           /\ \A q \in Readers : q # r => reader'[q] = reader[q]
           /\ reader'[r].at = "idle"
           /\ reader[r].walk.at = "going" =>
                /\ reader'[r].key = reader[r].key /\ reader'[r].answer = answer
                /\ reader'[r].walk = PageListed(reader[r].walk, reader[r].key.id, answer)
           /\ reader[r].walk.at # "going" =>
                reader'[r].key = ListKey(0) /\ reader'[r].walk = reader[r].walk
  <1>1. /\ reader[r] \in Client /\ reader \in [Readers -> Client] /\ answer \in Page
        /\ reader[r].walk \in Walks /\ 0 \in 0 .. Latency
    BY ListingAssumption DEF ListingTypeOK, Answers, Client
  <1>2. CASE reader[r].walk.at = "going"
    <2> DEFINE walk == PageListed(reader[r].walk, reader[r].key.id, answer)
               told == [reader[r] EXCEPT !.at = "idle", !.answer = answer, !.waited = 0,
                                         !.walk = walk]
    <2>1. walk \in Walks
      BY <1>1, PageListedType
    <2>2. reader' = [reader EXCEPT ![r] = told]
      BY <1>1, <1>2 DEF Answer
    <2> HIDE DEF walk
    <2>3. \A c \in Client :
            [c EXCEPT !.at = "idle", !.answer = answer, !.waited = 0, !.walk = walk] \in Client
      BY <1>1, <2>1 DEF Client
    <2>4. told \in Client
      BY <1>1, <2>3
    <2>5. /\ told.at = "idle" /\ told.key = reader[r].key /\ told.answer = answer
          /\ told.walk = walk
      BY <1>1 DEF Client
    <2> HIDE DEF told
    <2>6. \A q \in Readers : reader'[q].answer \in Answers(reader'[q].key)
      BY <1>1, <2>2, <2>4, <2>5 DEF ListingTypeOK
    <2> QED
      BY <1>1, <1>2, <2>2, <2>4, <2>5, <2>6 DEF walk
  <1>3. CASE reader[r].walk.at # "going"
    <2> DEFINE walk == reader[r].walk
               told == [Resting EXCEPT !.walk = walk]
    <2>1. reader' = [reader EXCEPT ![r] = told]
      BY <1>1, <1>3 DEF Answer
    <2>2. told \in Client
      BY <1>1, PlainTypes DEF Client
    <2>3. /\ told.at = "idle" /\ told.key = ListKey(0) /\ told.answer = Nothing
          /\ told.walk = walk
      BY PlainTypes DEF Resting
    <2> HIDE DEF told
    <2>4. \A q \in Readers : reader'[q].answer \in Answers(reader'[q].key)
      BY <1>1, <2>1, <2>2, <2>3, PlainTypes DEF ListingTypeOK
    <2> QED
      BY <1>1, <1>3, <2>1, <2>2, <2>3, <2>4
  <1> QED
    BY <1>2, <1>3

(* A client that only moves on keeps what it asked for. *)
LEMMA MoveType ==
    ASSUME ListingTypeOK, NEW r \in Readers,
           NEW at \in {"get", "produce", "bypass"}, reader' = [reader EXCEPT ![r].at = at]
    PROVE  /\ reader' \in [Readers -> Client]
           /\ \A q \in Readers : reader'[q].answer \in Answers(reader'[q].key)
           /\ \A q \in Readers : q # r => reader'[q] = reader[q]
           /\ reader'[r].at = at /\ reader'[r].key = reader[r].key
           /\ reader'[r].walk = reader[r].walk /\ reader'[r].answer = reader[r].answer
  <1>1. reader \in [Readers -> Client]
    BY DEF ListingTypeOK
  <1>2. \A c \in Client : /\ [c EXCEPT !.at = at] \in Client
                          /\ [c EXCEPT !.at = at].at = at
                          /\ [c EXCEPT !.at = at].key = c.key
                          /\ [c EXCEPT !.at = at].walk = c.walk
                          /\ [c EXCEPT !.at = at].answer = c.answer
    BY DEF Client
  <1> QED
    BY <1>1, <1>2 DEF ListingTypeOK

LEMMA QueryType ==
    ASSUME ListingTypeOK, CursorsInv, NEW r \in Readers, Query(r)
    PROVE  /\ reader' \in [Readers -> Client]
           /\ \A q \in Readers : reader'[q].answer \in Answers(reader'[q].key)
           /\ \A q \in Readers : q # r => reader'[q] = reader[q]
           /\ reader[r].at = "produce"
           /\ reader'[r].at = "set" /\ reader'[r].key = reader[r].key
           /\ reader'[r].walk = reader[r].walk /\ reader'[r].waited = reader[r].waited
           /\ reader'[r].answer = Produce(reader[r].key)
           /\ reader[r].waited \in Nat
           /\ Good(reader[r].key, Produce(reader[r].key), 0)
  <1> DEFINE answer == Produce(reader[r].key)
  <1>1. reader \in [Readers -> Client] /\ reader[r].key \in Keys /\ reader[r].waited \in Nat
    BY ListingAssumption DEF ListingTypeOK, Client
  <1>2. answer \in Answers(reader[r].key) /\ Good(reader[r].key, answer, 0)
    BY <1>1, ProduceGood DEF CursorsInv
  <1>3. /\ reader' = [reader EXCEPT ![r] = [@ EXCEPT !.at = "set", !.answer = answer]]
        /\ reader[r].at = "produce"
    BY <1>1 DEF Query
  <1> HIDE DEF answer
  <1>4. answer \in Page
    BY <1>2 DEF Answers
  <1>5. \A c \in Client : /\ [c EXCEPT !.at = "set", !.answer = answer] \in Client
                          /\ [c EXCEPT !.at = "set", !.answer = answer].at = "set"
                          /\ [c EXCEPT !.at = "set", !.answer = answer].key = c.key
                          /\ [c EXCEPT !.at = "set", !.answer = answer].walk = c.walk
                          /\ [c EXCEPT !.at = "set", !.answer = answer].waited = c.waited
                          /\ [c EXCEPT !.at = "set", !.answer = answer].answer = answer
    BY <1>4 DEF Client
  <1>6. \A q \in Readers : reader'[q].answer \in Answers(reader'[q].key)
    BY <1>1, <1>2, <1>3, <1>5 DEF ListingTypeOK
  <1> QED
    BY <1>1, <1>2, <1>3, <1>5, <1>6 DEF answer

(* What an answer is served from is good and young enough to be served.    *)
LEMMA ServedGood ==
    ASSUME ListingTypeOK, CursorsInv, AnswersInv, NEW r \in Readers, NEW answer,
           \/ /\ reader[r].at = "get" /\ Cached(reader[r].key)
              /\ answer = cache[reader[r].key].answer
           \/ reader[r].at = "set" /\ answer = reader[r].answer
           \/ reader[r].at = "bypass" /\ answer = Produce(reader[r].key)
    PROVE  /\ answer \in Answers(reader[r].key)
           /\ \E a \in Nat : a < Staleness /\ Good(reader[r].key, answer, a)
  <1>1. /\ reader[r].key \in Keys /\ reader[r].waited \in Nat /\ reader[r].waited <= Latency
        /\ reader[r].answer \in Answers(reader[r].key)
    BY ListingAssumption DEF ListingTypeOK, Client
  <1>2. /\ Staleness \in Nat /\ Latency \in Nat /\ Latency < Staleness /\ 0 < Staleness
        /\ CacheTtl \in Nat /\ Staleness = CacheTtl + Latency
    BY TableType
  <1>3. CASE reader[r].at = "get" /\ Cached(reader[r].key) /\ answer = cache[reader[r].key].answer
    <2> DEFINE k == reader[r].key
    <2>1. cache[k].ttl \in 0 .. CacheTtl /\ cache[k].answer \in Answers(k)
      BY <1>1 DEF ListingTypeOK
    <2>2. Cached(k) /\ Good(k, cache[k].answer, Staleness - cache[k].ttl)
      BY <1>1, <1>3 DEF AnswersInv
    <2>3. Staleness - cache[k].ttl \in Nat /\ Staleness - cache[k].ttl < Staleness
      BY <1>2, <2>1, <2>2 DEF Cached
    <2> QED
      BY <1>3, <2>1, <2>2, <2>3
  <1>4. CASE reader[r].at = "set" /\ answer = reader[r].answer
    <2>1. reader[r].waited < Staleness /\ Good(reader[r].key, answer, reader[r].waited)
      BY <1>1, <1>2, <1>4 DEF AnswersInv
    <2> QED
      BY <1>1, <1>4, <2>1
  <1>5. CASE reader[r].at = "bypass" /\ answer = Produce(reader[r].key)
    <2>1. answer \in Answers(reader[r].key) /\ Good(reader[r].key, answer, 0)
      BY <1>1, <1>5, ProduceGood DEF CursorsInv
    <2> QED
      BY <1>2, <2>1
  <1> QED
    BY <1>3, <1>4, <1>5

(* Steps that leave the tables alone leave every answer as good as it was. *)
LEMMA GoodQuiet ==
    ASSUME UNCHANGED <<use, tableVars>>
    PROVE  /\ rows' = rows /\ Matching' = Matching /\ Settled' = Settled
           /\ \A cursor : Stands(cursor)' <=> Stands(cursor)
           /\ \A key, answer, a : Good(key, answer, a)' <=> Good(key, answer, a)
  <1>1. rows' = rows /\ Matching' = Matching /\ Settled' = Settled
    BY DEF rows, Matching, Settled, tableVars
  <1>2. \A cursor, a : Stood(cursor, a)' <=> Stood(cursor, a)
    BY <1>1 DEF Stood, tableVars
  <1>3. \A id, key, answer, a : Owes(id, key, answer, a)' <=> Owes(id, key, answer, a)
    BY <1>1, <1>2 DEF Owes, tableVars
  <1>4. \A key, answer, a : Good(key, answer, a)' <=> Good(key, answer, a)
    BY <1>1, <1>3 DEF Good, Paged, AsOf, tableVars
  <1> QED
    BY <1>1, <1>4 DEF Stands

(* A client whose answer is not about to be stored is no matter. *)
LEMMA AnswersQuiet ==
    ASSUME AnswersInv, UNCHANGED <<use, tableVars, cache>>, NEW r \in Readers,
           \A q \in Readers : q # r => reader'[q] = reader[q], reader'[r].at # "set"
    PROVE  AnswersInv'
  <1>1. \A key, answer, a : Good(key, answer, a)' <=> Good(key, answer, a)
    BY GoodQuiet
  <1>2. \A k \in Keys : Cached(k)' => Good(k, cache[k].answer, Staleness - cache[k].ttl)'
    BY <1>1 DEF AnswersInv, Cached
  <1>3. \A q \in Readers : reader'[q].at = "set" =>
            Good(reader[q].key, reader[q].answer, reader[q].waited)'
    BY <1>1 DEF AnswersInv
  <1> QED
    BY <1>2, <1>3 DEF AnswersInv

LEMMA AnswerAges ==
    ASSUME ListingTypeOK
    PROVE  /\ \A k \in Keys : Cached(k) =>
                /\ Staleness - cache[k].ttl \in Nat /\ Staleness - cache[k].ttl < Staleness
                /\ cache[k].ttl \in Nat /\ cache[k].ttl > 0
           /\ \A r \in Readers : reader[r].waited \in Nat /\ reader[r].waited <= Latency
                                    /\ reader[r].waited < Staleness
  <1>1. /\ Staleness \in Nat /\ Latency \in Nat /\ Latency < Staleness /\ CacheTtl \in Nat
        /\ Staleness = CacheTtl + Latency
    BY TableType
  <1>2. \A k \in Keys : cache[k].ttl \in 0 .. CacheTtl
    BY DEF ListingTypeOK
  <1>3. \A r \in Readers : reader[r].waited \in 0 .. Latency
    BY DEF ListingTypeOK, Client
  <1> QED
    BY <1>1, <1>2, <1>3 DEF Cached

(* Writes to the tables keep what is kept good. *)
LEMMA AnswersKept ==
    ASSUME ListingTypeOK, ListingTypeOK', AnswersInv,
           use' = use, rows \subseteq rows', cache' = cache,
           \A id \in Ids : \/ age'[id] = age[id] /\ (id \in archived' <=> id \in archived)
                           \/ age'[id] = 0,
           \A id \in Ids : issued'[id] = issued[id] \/ issued'[id] = 0,
           \A q \in Readers : /\ reader'[q].at = reader[q].at /\ reader'[q].key = reader[q].key
                              /\ reader'[q].answer = reader[q].answer
                              /\ reader'[q].waited = reader[q].waited
    PROVE  AnswersInv'
  <1>1. \A key, answer : \A a \in Nat : Good(key, answer, a) => Good(key, answer, a)'
    BY GoodKept
  <1>2. \A k \in Keys : Cached(k)' => Good(k, cache[k].answer, Staleness - cache[k].ttl)'
    BY <1>1, AnswerAges DEF AnswersInv, Cached
  <1>3. \A q \in Readers : reader'[q].at = "set" =>
            Good(reader[q].key, reader[q].answer, reader[q].waited)'
    BY <1>1, AnswerAges DEF AnswersInv
  <1> QED
    BY <1>2, <1>3 DEF AnswersInv

(* What a walk has is not lost while its client waits and rows age. *)
LEMMA WalkKept ==
    ASSUME WalksInv, NEW r \in Readers, rows \subseteq rows',
           reader'[r].at = reader[r].at, reader'[r].key = reader[r].key,
           reader'[r].answer = reader[r].answer, reader'[r].walk.at = reader[r].walk.at,
           reader'[r].walk.listed = reader[r].walk.listed,
           reader'[r].walk.repeated = reader[r].walk.repeated,
           reader'[r].walk.owed \subseteq reader[r].walk.owed,
           \A i \in reader'[r].walk.owed :
               i \in Settled \cap Matching => i \in (Settled \cap Matching)'
    PROVE  Walked(r)'
  <1>1. Walked(r)
    BY DEF WalksInv
  <1>2. Reached(r)' = Reached(r)
    BY DEF Reached
  <1> QED
    BY <1>1, <1>2 DEF Walked

LEMMA WalkQuiet ==
    ASSUME WalksInv, UNCHANGED <<use, tableVars>>, NEW r \in Readers, reader'[r] = reader[r]
    PROVE  Walked(r)'
  BY WalkKept, GoodQuiet

(* A client that goes on waiting has come no further. *)
LEMMA WalkMoved ==
    ASSUME WalksInv, UNCHANGED <<use, tableVars>>, NEW r \in Readers,
           reader[r].at # "idle", reader'[r].at # "idle",
           reader'[r].key = reader[r].key, reader'[r].walk = reader[r].walk
    PROVE  Walked(r)'
  <1>1. Walked(r)
    BY DEF WalksInv
  <1>2. Reached(r)' = Reached(r)
    BY DEF Reached
  <1>3. Matching' = Matching /\ Settled' = Settled
    BY GoodQuiet
  <1> QED
    BY <1>1, <1>2, <1>3 DEF Walked

LEMMA WalkReset ==
    ASSUME NEW r \in Readers, reader'[r].walk = NoWalk
    PROVE  Walked(r)'
  BY DEF Walked, NoWalk

(* A page continues a walk: behind all it has listed, and with all it owes *)
(* up to where the page ends.                                              *)
LEMMA PageWalked ==
    ASSUME ListingTypeOK, CursorsInv, WalksInv, UNCHANGED <<use, tableVars>>, NEW r \in Readers,
           reader[r].at # "idle", reader[r].walk.at = "going",
           NEW answer \in Answers(reader[r].key), NEW a \in Nat, a < Staleness,
           Good(reader[r].key, answer, a), Answer(r, answer)
    PROVE  Walked(r)'
  <1> DEFINE c == reader[r].key.id
             w == reader[r].walk
             told == PageListed(w, c, answer)
  <1>1. /\ reader'[r].at = "idle" /\ reader'[r].key = reader[r].key
        /\ reader'[r].answer = answer /\ reader'[r].walk = told
    BY AnswerType
  <1>2. /\ ~w.repeated /\ reader[r].key.kind = "list"
        /\ w.owed \subseteq Settled \cap Matching
        /\ \A i \in w.listed : i <= c
        /\ \A i \in w.owed : i > c
    BY DEF WalksInv, Walked, Reached
  <1>3. w \in Walks /\ answer \in Page /\ c \in Ids \cup {0}
    BY <1>2, TableType DEF ListingTypeOK, Client, Answers, CursorsInv
  <1>4. /\ w.owed \subseteq Ids /\ w.listed \subseteq Ids /\ answer.ids \subseteq Ids
        /\ answer.next \in Ids \cup {0} /\ Ids \subseteq Nat
    BY <1>3, TableType DEF Walks, Page
  <1> HIDE DEF c, w
  <1>4a. c \in Nat /\ answer.next \in Nat /\ \A i \in Ids : i \in Nat
    <2>1. \A i \in Ids \cup {0} : i \in Nat
      BY <1>4
    <2> QED
      BY <1>3, <1>4, <2>1
  <1>5. /\ answer.ids \subseteq rows /\ \A i \in answer.ids : c < i
        /\ answer.next # 0 => answer.next \in answer.ids /\ \A i \in answer.ids : i <= answer.next
    BY <1>2 DEF Good, Paged, c
  <1>6. /\ told.at = (IF answer.next = 0 THEN "ended" ELSE "going")
        /\ told.owed = (IF Stands(c) THEN w.owed \ answer.ids ELSE {})
        /\ told.listed = (IF answer.next = 0 THEN {} ELSE w.listed \cup answer.ids)
        /\ told.repeated = (w.repeated \/ w.listed \cap answer.ids # {})
    BY DEF PageListed
  <1>7. ASSUME NEW i \in told.owed
        PROVE  answer.next # 0 /\ i > answer.next
    <2>1. Stands(c) /\ i \in w.owed /\ i \in Ids /\ i \notin answer.ids
      BY <1>4, <1>6, <1>7
    <2>2. i > c /\ i \in Settled \cap Matching
      BY <1>2, <2>1
    <2>3. i \in Nat /\ answer.next \in Nat
      BY <1>4, <1>4a, <2>1
    <2>4. Belongs(i, reader[r].key, answer) => i \in answer.ids
      BY <2>1, GoodIsFresh DEF IsFresh
    <2>5. answer.next = 0 \/ i <= answer.next => i \in answer.ids
      BY <1>2, <1>4, <2>1, <2>2, <2>3, <2>4 DEF Belongs, c
    <2> QED
      BY <2>1, <2>3, <2>5
  <1>8. w.listed \cap answer.ids = {}
    <2>1. \A i \in Ids : i <= c => ~(c < i)
      BY <1>4a
    <2> QED
      BY <1>2, <1>4, <1>5, <2>1
  <1>9. answer.next # 0 => \A i \in told.listed : i <= answer.next
    <2>1. \A i \in Ids, j \in Ids : i <= c /\ c < j => i <= j
      BY <1>4a
    <2> QED
      BY <1>2, <1>4, <1>5, <1>6, <2>1
  <1>10. Settled' = Settled /\ Matching' = Matching /\ rows' = rows
    BY GoodQuiet
  <1>11. Reached(r)' = answer.next
    BY <1>1 DEF Reached
  <1>12. /\ ~told.repeated
         /\ told.at = "ended" => told.owed = {}
         /\ told.owed \subseteq Settled \cap Matching
         /\ told.at = "going" => answer.next # 0 /\ answer.next \in rows
    BY <1>2, <1>5, <1>6, <1>7, <1>8
  <1> HIDE DEF told
  <1> QED
    BY <1>1, <1>2, <1>7, <1>9, <1>10, <1>11, <1>12 DEF Walked

LEMMA AnswerWalked ==
    ASSUME ListingTypeOK, CursorsInv, WalksInv, UNCHANGED <<use, tableVars>>, NEW r \in Readers,
           reader[r].at # "idle", NEW answer \in Answers(reader[r].key), Answer(r, answer),
           reader[r].walk.at = "going" =>
               \E a \in Nat : a < Staleness /\ Good(reader[r].key, answer, a)
    PROVE  WalksInv'
  <1>1. /\ \A q \in Readers : q # r => reader'[q] = reader[q]
        /\ reader[r].walk.at # "going" => reader'[r].walk = reader[r].walk
    BY AnswerType
  <1>2. Walked(r)'
    <2>1. CASE reader[r].walk.at = "going"
      <3>1. PICK a \in Nat : a < Staleness /\ Good(reader[r].key, answer, a)
        BY <2>1
      <3> QED
        BY <2>1, <3>1, PageWalked
    <2>2. CASE reader[r].walk.at # "going"
      BY <1>1, <2>2 DEF WalksInv, Walked
    <2> QED
      BY <2>1, <2>2
  <1> QED
    BY <1>1, <1>2, WalkQuiet DEF WalksInv

(* Types. *)
LEMMA TypeStep ==
    ASSUME ListingTypeOK, CursorsInv, AnswersInv, [ListingNext]_listingVars
    PROVE  ListingTypeOK'
<1>0. CASE UNCHANGED listingVars
  BY <1>0 DEF listingVars, tableVars, ListingTypeOK, rows
<1>1. CASE TimePasses
  <2>1. /\ Staleness \in Nat /\ NoRow = Staleness + 1
    BY TableType DEF NoRow
  <2>2. age' \in [Ids -> 0 .. NoRow] /\ issued' \in [Ids -> 0 .. NoRow]
    BY <1>1, <2>1 DEF TimePasses, Older, ListingTypeOK
  <2>3. rows' = rows
    BY <1>1, <2>1 DEF TimePasses, Older, ListingTypeOK, rows
  <2>4. /\ cache' \in [Keys -> [answer : Page, ttl : 0 .. CacheTtl]]
        /\ \A k \in Keys : cache'[k].answer \in Answers(k)
    <3>1. \A e \in [answer : Page, ttl : 0 .. CacheTtl] :
            /\ Aged(e) \in [answer : Page, ttl : 0 .. CacheTtl]
            /\ Aged(e).answer = e.answer \/ Aged(e).answer = Nothing
      BY PlainTypes, ListingAssumption DEF Aged, NoKey
    <3> QED
      BY <1>1, <3>1, PlainTypes DEF TimePasses, ListingTypeOK
  <2>5. /\ reader' \in [Readers -> Client]
        /\ \A q \in Readers : reader'[q].answer \in Answers(reader'[q].key)
    <3>1. \A c \in Client : c.waited < Latency =>
            /\ [c EXCEPT !.waited = @ + 1] \in Client
            /\ [c EXCEPT !.waited = @ + 1].answer = c.answer
            /\ [c EXCEPT !.waited = @ + 1].key = c.key
      BY ListingAssumption DEF Client
    <3> QED
      BY <1>1, <3>1 DEF TimePasses, ListingTypeOK
  <2> QED
    BY <1>1, <2>2, <2>3, <2>4, <2>5 DEF TimePasses, ListingTypeOK
<1>2. ASSUME NEW id \in Ids, Insert(id) PROVE ListingTypeOK'
  <2>1. age' \in [Ids -> 0 .. NoRow] /\ rows \subseteq rows'
    BY <1>2, TableType DEF Insert, ListingTypeOK, rows
  <2> QED
    BY <1>2, <2>1 DEF Insert, ListingTypeOK
<1>3. ASSUME NEW id \in Ids, ChangeState(id) PROVE ListingTypeOK'
  <2>1. age' \in [Ids -> 0 .. NoRow] /\ rows \subseteq rows' /\ id \in rows'
    BY <1>3, TableType DEF ChangeState, ListingTypeOK, rows
  <2>2. archived' \subseteq rows'
    BY <1>3, <2>1 DEF ChangeState, ListingTypeOK
  <2>3. /\ reader' \in [Readers -> Client]
        /\ \A q \in Readers : reader'[q].answer \in Answers(reader'[q].key)
    <3>1. \A c \in Client : /\ [c EXCEPT !.walk.owed = @ \ {id}] \in Client
                            /\ [c EXCEPT !.walk.owed = @ \ {id}].answer = c.answer
                            /\ [c EXCEPT !.walk.owed = @ \ {id}].key = c.key
      BY DEF Client, Walks
    <3> QED
      BY <1>3, <3>1 DEF ChangeState, ListingTypeOK
  <2> QED
    BY <1>3, <2>1, <2>2, <2>3 DEF ChangeState, ListingTypeOK
<1>4. ASSUME NEW id \in Ids, Issue(id) PROVE ListingTypeOK'
  <2>1. issued' \in [Ids -> 0 .. NoRow]
    BY <1>4, TableType DEF Issue, ListingTypeOK
  <2> QED
    BY <1>4, <2>1 DEF Issue, ListingTypeOK, rows
<1>5. ASSUME NEW r \in Readers, StartWalk(r) PROVE ListingTypeOK'
  <2>1. /\ CachedAt \in {"exists", "get", "bypass"} /\ ListKey(0) \in Keys
        /\ [NoWalk EXCEPT !.at = "going", !.owed = Settled \cap Matching] \in Walks
    BY PlainTypes, TableType DEF NoWalk, Walks
  <2>2. AskAt(r, CachedAt, ListKey(0),
              [NoWalk EXCEPT !.at = "going", !.owed = Settled \cap Matching])
    BY <1>5 DEF StartWalk, Ask
  <2>3. /\ reader' \in [Readers -> Client]
        /\ \A q \in Readers : reader'[q].answer \in Answers(reader'[q].key)
    BY <2>1, <2>2, AskType
  <2> QED
    BY <1>5, <2>3 DEF StartWalk, ListingTypeOK, tableVars, rows
<1>6. ASSUME NEW r \in Readers, NextPage(r) PROVE ListingTypeOK'
  <2>1. /\ CachedAt \in {"exists", "get", "bypass"} /\ ListKey(reader[r].answer.next) \in Keys
        /\ reader[r].walk \in Walks
    BY PlainTypes, KeyType DEF ListingTypeOK, Client, Page
  <2>2. AskAt(r, CachedAt, ListKey(reader[r].answer.next), reader[r].walk)
    BY <1>6 DEF NextPage, Ask
  <2>3. /\ reader' \in [Readers -> Client]
        /\ \A q \in Readers : reader'[q].answer \in Answers(reader'[q].key)
    BY <2>1, <2>2, AskType
  <2> QED
    BY <1>6, <2>3 DEF NextPage, ListingTypeOK, tableVars, rows
<1>7. ASSUME NEW r \in Readers, NEW id \in Ids, GetDetail(r, id) PROVE ListingTypeOK'
  <2>1. CachedAt \in {"exists", "get", "bypass"} /\ DetailKey(id) \in Keys /\ NoWalk \in Walks
    BY PlainTypes, KeyType
  <2>2. AskAt(r, CachedAt, DetailKey(id), NoWalk)
    BY <1>7 DEF GetDetail, Ask
  <2>3. /\ reader' \in [Readers -> Client]
        /\ \A q \in Readers : reader'[q].answer \in Answers(reader'[q].key)
    BY <2>1, <2>2, AskType
  <2> QED
    BY <1>7, <2>3 DEF GetDetail, ListingTypeOK, tableVars, rows
<1>8. ASSUME NEW r \in Readers, NEW id \in Ids, GetChildren(r, id) PROVE ListingTypeOK'
  <2>1. "exists" \in {"exists", "get", "bypass"} /\ ChildrenKey(id) \in Keys /\ NoWalk \in Walks
    BY PlainTypes, KeyType
  <2>2. AskAt(r, "exists", ChildrenKey(id), NoWalk)
    BY <1>8 DEF GetChildren, Ask
  <2>3. /\ reader' \in [Readers -> Client]
        /\ \A q \in Readers : reader'[q].answer \in Answers(reader'[q].key)
    BY <2>1, <2>2, AskType
  <2> QED
    BY <1>8, <2>3 DEF GetChildren, ListingTypeOK, tableVars, rows
<1>9. ASSUME NEW r \in Readers, GetLanguages(r) PROVE ListingTypeOK'
  <2>1. CachedAt \in {"exists", "get", "bypass"} /\ LanguagesKey \in Keys /\ NoWalk \in Walks
    BY PlainTypes, KeyType
  <2>2. AskAt(r, CachedAt, LanguagesKey, NoWalk)
    BY <1>9 DEF GetLanguages, Ask
  <2>3. /\ reader' \in [Readers -> Client]
        /\ \A q \in Readers : reader'[q].answer \in Answers(reader'[q].key)
    BY <2>1, <2>2, AskType
  <2> QED
    BY <1>9, <2>3 DEF GetLanguages, ListingTypeOK, tableVars, rows
<1>10. ASSUME NEW r \in Readers, Exists(r) PROVE ListingTypeOK'
  <2>1. reader' = [reader EXCEPT ![r].at = CachedAt] /\ CachedAt \in {"get", "produce", "bypass"}
    BY <1>10, PlainTypes DEF Exists
  <2>2. /\ reader' \in [Readers -> Client]
        /\ \A q \in Readers : reader'[q].answer \in Answers(reader'[q].key)
    BY <2>1, MoveType
  <2>3. faults' \in 0 .. MaxFaults
    BY <1>10, ListingAssumption DEF Exists, Fail, ListingTypeOK
  <2> QED
    BY <1>10, <2>2, <2>3 DEF Exists, ListingTypeOK, tableVars, rows
<1>11. ASSUME NEW r \in Readers, ExistsMiss(r) PROVE ListingTypeOK'
  <2>1. Answer(r, Nothing) /\ Nothing \in Answers(reader[r].key)
    BY <1>11, PlainTypes DEF ExistsMiss
  <2>2. /\ reader' \in [Readers -> Client]
        /\ \A q \in Readers : reader'[q].answer \in Answers(reader'[q].key)
    BY <2>1, AnswerType
  <2>3. faults' \in 0 .. MaxFaults
    BY <1>11, ListingAssumption DEF ExistsMiss, Fail, ListingTypeOK
  <2> QED
    BY <1>11, <2>2, <2>3 DEF ExistsMiss, ListingTypeOK, tableVars, rows
<1>12. ASSUME NEW r \in Readers, CacheHit(r) PROVE ListingTypeOK'
  <2>1. /\ Answer(r, cache[reader[r].key].answer)
        /\ cache[reader[r].key].answer \in Answers(reader[r].key)
    BY <1>12, ServedGood DEF CacheHit
  <2>2. /\ reader' \in [Readers -> Client]
        /\ \A q \in Readers : reader'[q].answer \in Answers(reader'[q].key)
    BY <2>1, AnswerType
  <2>3. faults' \in 0 .. MaxFaults
    BY <1>12, ListingAssumption DEF CacheHit, Fail, ListingTypeOK
  <2> QED
    BY <1>12, <2>2, <2>3 DEF CacheHit, ListingTypeOK, tableVars, rows
<1>13. ASSUME NEW r \in Readers, CacheMiss(r) PROVE ListingTypeOK'
  <2>1. /\ reader' = [reader EXCEPT ![r].at = "produce"]
        /\ "produce" \in {"get", "produce", "bypass"}
    BY <1>13, PlainTypes DEF CacheMiss
  <2>2. /\ reader' \in [Readers -> Client]
        /\ \A q \in Readers : reader'[q].answer \in Answers(reader'[q].key)
    BY <2>1, MoveType
  <2>3. faults' \in 0 .. MaxFaults
    BY <1>13, ListingAssumption DEF CacheMiss, Fail, ListingTypeOK
  <2> QED
    BY <1>13, <2>2, <2>3 DEF CacheMiss, ListingTypeOK, tableVars, rows
<1>14. ASSUME NEW r \in Readers, CacheGetError(r) PROVE ListingTypeOK'
  <2>1. reader' = [reader EXCEPT ![r].at = "bypass"] /\ "bypass" \in {"get", "produce", "bypass"}
    BY <1>14, PlainTypes DEF CacheGetError
  <2>2. /\ reader' \in [Readers -> Client]
        /\ \A q \in Readers : reader'[q].answer \in Answers(reader'[q].key)
    BY <2>1, MoveType
  <2>3. faults' \in 0 .. MaxFaults
    BY <1>14, ListingAssumption DEF CacheGetError, Fail, ListingTypeOK
  <2> QED
    BY <1>14, <2>2, <2>3 DEF CacheGetError, ListingTypeOK, tableVars, rows
<1>15. ASSUME NEW r \in Readers, Query(r) PROVE ListingTypeOK'
  <2>1. /\ reader' \in [Readers -> Client]
        /\ \A q \in Readers : reader'[q].answer \in Answers(reader'[q].key)
    BY <1>15, QueryType
  <2> QED
    BY <1>15, <2>1 DEF Query, ListingTypeOK, tableVars, rows
<1>16. ASSUME NEW r \in Readers, QueryUncached(r) PROVE ListingTypeOK'
  <2>1. Answer(r, Produce(reader[r].key)) /\ Produce(reader[r].key) \in Answers(reader[r].key)
    BY <1>16, ServedGood DEF QueryUncached
  <2>2. /\ reader' \in [Readers -> Client]
        /\ \A q \in Readers : reader'[q].answer \in Answers(reader'[q].key)
    BY <2>1, AnswerType
  <2>3. faults' \in 0 .. MaxFaults
    BY <1>16, ListingAssumption DEF QueryUncached, Fail, ListingTypeOK
  <2> QED
    BY <1>16, <2>2, <2>3 DEF QueryUncached, ListingTypeOK, tableVars, rows
<1>17. ASSUME NEW r \in Readers, QueryError(r) PROVE ListingTypeOK'
  <2>1. /\ reader' \in [Readers -> Client]
        /\ \A q \in Readers : reader'[q].answer \in Answers(reader'[q].key)
    BY <1>17, PlainTypes DEF QueryError, ListingTypeOK
  <2>2. faults' \in 0 .. MaxFaults
    BY <1>17, ListingAssumption DEF QueryError, Fail, ListingTypeOK
  <2> QED
    BY <1>17, <2>1, <2>2 DEF QueryError, ListingTypeOK, tableVars, rows
<1>18. ASSUME NEW r \in Readers, CacheSet(r) PROVE ListingTypeOK'
  <2>1. Answer(r, reader[r].answer) /\ reader[r].answer \in Answers(reader[r].key)
    BY <1>18, ServedGood DEF CacheSet
  <2>2. /\ reader' \in [Readers -> Client]
        /\ \A q \in Readers : reader'[q].answer \in Answers(reader'[q].key)
    BY <2>1, AnswerType
  <2>3. faults' \in 0 .. MaxFaults
    BY <1>18, ListingAssumption DEF CacheSet, Fail, ListingTypeOK
  <2>4. /\ cache' \in [Keys -> [answer : Page, ttl : 0 .. CacheTtl]]
        /\ \A k \in Keys : cache'[k].answer \in Answers(k)
    <3> DEFINE kept == [answer |-> reader[r].answer, ttl |-> CacheTtl]
    <3>1. kept \in [answer : Page, ttl : 0 .. CacheTtl] /\ kept.answer = reader[r].answer
      BY <2>1, ListingAssumption DEF Answers
    <3>2. cache' = [cache EXCEPT ![reader[r].key] = kept] /\ reader[r].key \in Keys
      BY <1>18 DEF CacheSet, ListingTypeOK, Client
    <3> HIDE DEF kept
    <3> QED
      BY <2>1, <3>1, <3>2 DEF ListingTypeOK
  <2> QED
    BY <1>18, <2>2, <2>3, <2>4 DEF CacheSet, ListingTypeOK, tableVars, rows
<1>19. ASSUME NEW r \in Readers, CacheSetError(r) PROVE ListingTypeOK'
  <2>1. Answer(r, reader[r].answer) /\ reader[r].answer \in Answers(reader[r].key)
    BY <1>19, ServedGood DEF CacheSetError
  <2>2. /\ reader' \in [Readers -> Client]
        /\ \A q \in Readers : reader'[q].answer \in Answers(reader'[q].key)
    BY <2>1, AnswerType
  <2>3. faults' \in 0 .. MaxFaults
    BY <1>19, ListingAssumption DEF CacheSetError, Fail, ListingTypeOK
  <2> QED
    BY <1>19, <2>2, <2>3 DEF CacheSetError, ListingTypeOK, tableVars, rows
<1>20. ASSUME NEW r \in Readers, NEW cursor \in Ids \cup {0}, GetPage(r, cursor)
       PROVE  ListingTypeOK'
  <2>1. CachedAt \in {"exists", "get", "bypass"} /\ ListKey(cursor) \in Keys /\ NoWalk \in Walks
    BY PlainTypes, KeyType
  <2>2. AskAt(r, CachedAt, ListKey(cursor), NoWalk)
    BY <1>20 DEF GetPage, Ask
  <2>3. /\ reader' \in [Readers -> Client]
        /\ \A q \in Readers : reader'[q].answer \in Answers(reader'[q].key)
    BY <2>1, <2>2, AskType
  <2> QED
    BY <1>20, <2>3 DEF GetPage, ListingTypeOK, tableVars, rows
<1> QED
  BY <1>0, <1>1, <1>2, <1>3, <1>4, <1>5, <1>6, <1>7, <1>8, <1>9, <1>10,
     <1>11, <1>12, <1>13, <1>14, <1>15, <1>16, <1>17, <1>18, <1>19, <1>20
  DEF ListingNext, Request

(* Cursors are rows. *)
LEMMA CursorsStep ==
    ASSUME ListingTypeOK, CursorsInv, AnswersInv, WalksInv, [ListingNext]_listingVars
    PROVE  CursorsInv'
<1>0. CASE UNCHANGED listingVars
  BY <1>0 DEF listingVars, tableVars, CursorsInv, rows
<1>1. CASE TimePasses
  <2>1. \A q \in Readers : reader'[q].key = reader[q].key /\ reader'[q].at = reader[q].at
    <3>1. \A c \in Client : /\ [c EXCEPT !.waited = @ + 1].at = c.at
                            /\ [c EXCEPT !.waited = @ + 1].key = c.key
      BY DEF Client
    <3> QED
      BY <1>1, <3>1 DEF TimePasses, ListingTypeOK
  <2>2. rows \subseteq rows'
    BY <1>1, TableType DEF TimePasses, Older, ListingTypeOK, rows, NoRow
  <2> QED
    BY <2>1, <2>2 DEF CursorsInv
<1>2. ASSUME NEW id \in Ids, Insert(id) PROVE CursorsInv'
  <2>1. \A q \in Readers : reader'[q].key = reader[q].key /\ reader'[q].at = reader[q].at
    BY <1>2 DEF Insert
  <2>2. rows \subseteq rows'
    BY <1>2, TableType DEF Insert, ListingTypeOK, rows
  <2> QED
    BY <2>1, <2>2 DEF CursorsInv
<1>3. ASSUME NEW id \in Ids, ChangeState(id) PROVE CursorsInv'
  <2>1. \A q \in Readers : reader'[q].key = reader[q].key /\ reader'[q].at = reader[q].at
    <3>1. \A c \in Client : /\ [c EXCEPT !.walk.owed = @ \ {id}].at = c.at
                            /\ [c EXCEPT !.walk.owed = @ \ {id}].key = c.key
      BY DEF Client
    <3> QED
      BY <1>3, <3>1 DEF ChangeState, ListingTypeOK
  <2>2. rows \subseteq rows'
    BY <1>3, TableType DEF ChangeState, ListingTypeOK, rows
  <2> QED
    BY <2>1, <2>2 DEF CursorsInv
<1>4. ASSUME NEW id \in Ids, Issue(id) PROVE CursorsInv'
  <2>1. \A q \in Readers : reader'[q].key = reader[q].key /\ reader'[q].at = reader[q].at
    BY <1>4 DEF Issue
  <2>2. rows \subseteq rows'
    BY <1>4 DEF Issue, rows
  <2> QED
    BY <2>1, <2>2 DEF CursorsInv
<1>5. ASSUME NEW r \in Readers, StartWalk(r) PROVE CursorsInv'
  <2>1. /\ CachedAt \in {"exists", "get", "bypass"} /\ ListKey(0) \in Keys
        /\ [NoWalk EXCEPT !.at = "going", !.owed = Settled \cap Matching] \in Walks
    BY PlainTypes, TableType DEF NoWalk, Walks
  <2>2. AskAt(r, CachedAt, ListKey(0),
              [NoWalk EXCEPT !.at = "going", !.owed = Settled \cap Matching])
    BY <1>5 DEF StartWalk, Ask
  <2>3. /\ \A q \in Readers : q # r => reader'[q] = reader[q]
        /\ reader'[r].at = CachedAt /\ reader'[r].key = ListKey(0)
    BY <2>1, <2>2, AskType
  <2>4. rows' = rows
    BY <1>5 DEF StartWalk, rows, tableVars
  <2> QED
    BY <1>5, <2>3, <2>4, KeyType DEF StartWalk, CachedAt, CursorsInv, WalksInv, Walked, Reached
<1>6. ASSUME NEW r \in Readers, NextPage(r) PROVE CursorsInv'
  <2>1. /\ CachedAt \in {"exists", "get", "bypass"} /\ ListKey(reader[r].answer.next) \in Keys
        /\ reader[r].walk \in Walks
    BY PlainTypes, KeyType DEF ListingTypeOK, Client, Page
  <2>2. AskAt(r, CachedAt, ListKey(reader[r].answer.next), reader[r].walk)
    BY <1>6 DEF NextPage, Ask
  <2>3. /\ \A q \in Readers : q # r => reader'[q] = reader[q]
        /\ reader'[r].at = CachedAt /\ reader'[r].key = ListKey(reader[r].answer.next)
    BY <2>1, <2>2, AskType
  <2>4. rows' = rows
    BY <1>6 DEF NextPage, rows, tableVars
  <2> QED
    BY <1>6, <2>3, <2>4, KeyType DEF NextPage, CachedAt, CursorsInv, WalksInv, Walked, Reached
<1>7. ASSUME NEW r \in Readers, NEW id \in Ids, GetDetail(r, id) PROVE CursorsInv'
  <2>1. CachedAt \in {"exists", "get", "bypass"} /\ DetailKey(id) \in Keys /\ NoWalk \in Walks
    BY PlainTypes, KeyType
  <2>2. AskAt(r, CachedAt, DetailKey(id), NoWalk)
    BY <1>7 DEF GetDetail, Ask
  <2>3. /\ \A q \in Readers : q # r => reader'[q] = reader[q]
        /\ reader'[r].at = CachedAt /\ reader'[r].key = DetailKey(id)
    BY <2>1, <2>2, AskType
  <2>4. rows' = rows
    BY <1>7 DEF GetDetail, rows, tableVars
  <2> QED
    BY <1>7, <2>3, <2>4, KeyType DEF GetDetail, CachedAt, CursorsInv, WalksInv, Walked, Reached
<1>8. ASSUME NEW r \in Readers, NEW id \in Ids, GetChildren(r, id) PROVE CursorsInv'
  <2>1. "exists" \in {"exists", "get", "bypass"} /\ ChildrenKey(id) \in Keys /\ NoWalk \in Walks
    BY PlainTypes, KeyType
  <2>2. AskAt(r, "exists", ChildrenKey(id), NoWalk)
    BY <1>8 DEF GetChildren, Ask
  <2>3. /\ \A q \in Readers : q # r => reader'[q] = reader[q]
        /\ reader'[r].at = "exists" /\ reader'[r].key = ChildrenKey(id)
    BY <2>1, <2>2, AskType
  <2>4. rows' = rows
    BY <1>8 DEF GetChildren, rows, tableVars
  <2> QED
    BY <1>8, <2>3, <2>4, KeyType
    DEF GetChildren, CachedAt, CursorsInv, WalksInv, Walked, Reached
<1>9. ASSUME NEW r \in Readers, GetLanguages(r) PROVE CursorsInv'
  <2>1. CachedAt \in {"exists", "get", "bypass"} /\ LanguagesKey \in Keys /\ NoWalk \in Walks
    BY PlainTypes, KeyType
  <2>2. AskAt(r, CachedAt, LanguagesKey, NoWalk)
    BY <1>9 DEF GetLanguages, Ask
  <2>3. /\ \A q \in Readers : q # r => reader'[q] = reader[q]
        /\ reader'[r].at = CachedAt /\ reader'[r].key = LanguagesKey
    BY <2>1, <2>2, AskType
  <2>4. rows' = rows
    BY <1>9 DEF GetLanguages, rows, tableVars
  <2> QED
    BY <1>9, <2>3, <2>4, KeyType
    DEF GetLanguages, CachedAt, CursorsInv, WalksInv, Walked, Reached
<1>10. ASSUME NEW r \in Readers, Exists(r) PROVE CursorsInv'
  <2>1. reader' = [reader EXCEPT ![r].at = CachedAt] /\ CachedAt \in {"get", "produce", "bypass"}
    BY <1>10, PlainTypes DEF Exists
  <2>2. /\ \A q \in Readers : q # r => reader'[q] = reader[q]
        /\ reader'[r].at = CachedAt /\ reader'[r].key = reader[r].key
    BY <2>1, MoveType
  <2>3. rows' = rows
    BY <1>10 DEF Exists, rows, tableVars
  <2> QED
    BY <2>1, <2>2, <2>3 DEF CursorsInv
<1>11. ASSUME NEW r \in Readers, ExistsMiss(r) PROVE CursorsInv'
  <2>1. Answer(r, Nothing) /\ Nothing \in Answers(reader[r].key)
    BY <1>11, PlainTypes DEF ExistsMiss
  <2>2. /\ \A q \in Readers : q # r => reader'[q] = reader[q]
        /\ reader'[r].at = "idle" /\ reader'[r].key \in {reader[r].key, ListKey(0)}
    BY <2>1, AnswerType
  <2>3. rows' = rows
    BY <1>11 DEF ExistsMiss, rows, tableVars
  <2> QED
    BY <2>2, <2>3, KeyType DEF CursorsInv
<1>12. ASSUME NEW r \in Readers, CacheHit(r) PROVE CursorsInv'
  <2>1. /\ Answer(r, cache[reader[r].key].answer)
        /\ cache[reader[r].key].answer \in Answers(reader[r].key)
    BY <1>12, ServedGood DEF CacheHit
  <2>2. /\ \A q \in Readers : q # r => reader'[q] = reader[q]
        /\ reader'[r].at = "idle" /\ reader'[r].key \in {reader[r].key, ListKey(0)}
    BY <2>1, AnswerType
  <2>3. rows' = rows
    BY <1>12 DEF CacheHit, rows, tableVars
  <2> QED
    BY <2>2, <2>3, KeyType DEF CursorsInv
<1>13. ASSUME NEW r \in Readers, CacheMiss(r) PROVE CursorsInv'
  <2>1. /\ reader' = [reader EXCEPT ![r].at = "produce"]
        /\ "produce" \in {"get", "produce", "bypass"}
    BY <1>13, PlainTypes DEF CacheMiss
  <2>2. /\ \A q \in Readers : q # r => reader'[q] = reader[q]
        /\ reader'[r].at = "produce" /\ reader'[r].key = reader[r].key
    BY <2>1, MoveType
  <2>3. rows' = rows
    BY <1>13 DEF CacheMiss, rows, tableVars
  <2> QED
    BY <2>1, <2>2, <2>3 DEF CursorsInv
<1>14. ASSUME NEW r \in Readers, CacheGetError(r) PROVE CursorsInv'
  <2>1. reader' = [reader EXCEPT ![r].at = "bypass"] /\ "bypass" \in {"get", "produce", "bypass"}
    BY <1>14, PlainTypes DEF CacheGetError
  <2>2. /\ \A q \in Readers : q # r => reader'[q] = reader[q]
        /\ reader'[r].at = "bypass" /\ reader'[r].key = reader[r].key
    BY <2>1, MoveType
  <2>3. rows' = rows
    BY <1>14 DEF CacheGetError, rows, tableVars
  <2> QED
    BY <2>1, <2>2, <2>3 DEF CursorsInv
<1>15. ASSUME NEW r \in Readers, Query(r) PROVE CursorsInv'
  <2>1. rows' = rows
    BY <1>15 DEF Query, rows, tableVars
  <2> QED
    BY <1>15, <2>1, QueryType DEF CursorsInv
<1>16. ASSUME NEW r \in Readers, QueryUncached(r) PROVE CursorsInv'
  <2>1. Answer(r, Produce(reader[r].key)) /\ Produce(reader[r].key) \in Answers(reader[r].key)
    BY <1>16, ServedGood DEF QueryUncached
  <2>2. /\ \A q \in Readers : q # r => reader'[q] = reader[q]
        /\ reader'[r].at = "idle" /\ reader'[r].key \in {reader[r].key, ListKey(0)}
    BY <2>1, AnswerType
  <2>3. rows' = rows
    BY <1>16 DEF QueryUncached, rows, tableVars
  <2> QED
    BY <2>2, <2>3, KeyType DEF CursorsInv
<1>17. ASSUME NEW r \in Readers, QueryError(r) PROVE CursorsInv'
  <2>1. rows' = rows
    BY <1>17 DEF QueryError, rows, tableVars
  <2>2. reader' = [reader EXCEPT ![r] = Resting] /\ reader \in [Readers -> Client]
    BY <1>17 DEF QueryError, ListingTypeOK
  <2> QED
    BY <2>1, <2>2, PlainTypes, KeyType DEF CursorsInv
<1>18. ASSUME NEW r \in Readers, CacheSet(r) PROVE CursorsInv'
  <2>1. Answer(r, reader[r].answer) /\ reader[r].answer \in Answers(reader[r].key)
    BY <1>18, ServedGood DEF CacheSet
  <2>2. /\ \A q \in Readers : q # r => reader'[q] = reader[q]
        /\ reader'[r].at = "idle" /\ reader'[r].key \in {reader[r].key, ListKey(0)}
    BY <2>1, AnswerType
  <2>3. rows' = rows
    BY <1>18 DEF CacheSet, rows, tableVars
  <2> QED
    BY <2>2, <2>3, KeyType DEF CursorsInv
<1>19. ASSUME NEW r \in Readers, CacheSetError(r) PROVE CursorsInv'
  <2>1. Answer(r, reader[r].answer) /\ reader[r].answer \in Answers(reader[r].key)
    BY <1>19, ServedGood DEF CacheSetError
  <2>2. /\ \A q \in Readers : q # r => reader'[q] = reader[q]
        /\ reader'[r].at = "idle" /\ reader'[r].key \in {reader[r].key, ListKey(0)}
    BY <2>1, AnswerType
  <2>3. rows' = rows
    BY <1>19 DEF CacheSetError, rows, tableVars
  <2> QED
    BY <2>2, <2>3, KeyType DEF CursorsInv
<1>20. ASSUME NEW r \in Readers, NEW cursor \in Ids \cup {0}, GetPage(r, cursor)
       PROVE  CursorsInv'
  <2>1. CachedAt \in {"exists", "get", "bypass"} /\ ListKey(cursor) \in Keys /\ NoWalk \in Walks
    BY PlainTypes, KeyType
  <2>2. AskAt(r, CachedAt, ListKey(cursor), NoWalk)
    BY <1>20 DEF GetPage, Ask
  <2>3. /\ \A q \in Readers : q # r => reader'[q] = reader[q]
        /\ reader'[r].at = CachedAt /\ reader'[r].key = ListKey(cursor)
    BY <2>1, <2>2, AskType
  <2>4. rows' = rows /\ cursor \in rows \cup {0}
    BY <1>20 DEF GetPage, rows, tableVars
  <2> QED
    BY <2>3, <2>4, KeyType DEF CachedAt, CursorsInv
<1> QED
  BY <1>0, <1>1, <1>2, <1>3, <1>4, <1>5, <1>6, <1>7, <1>8, <1>9, <1>10,
     <1>11, <1>12, <1>13, <1>14, <1>15, <1>16, <1>17, <1>18, <1>19, <1>20
  DEF ListingNext, Request

(* Kept answers stay good. *)
LEMMA AnswersStep ==
    ASSUME ListingTypeOK, ListingTypeOK', CursorsInv, AnswersInv, [ListingNext]_listingVars
    PROVE  AnswersInv'
<1>0. CASE UNCHANGED listingVars
  <2>1. \A key, answer, a : Good(key, answer, a)' <=> Good(key, answer, a)
    BY <1>0, GoodQuiet DEF listingVars, tableVars
  <2> QED
    BY <1>0, <2>1 DEF listingVars, AnswersInv, Cached
<1>1. CASE TimePasses
  <2>1. \A key, answer : \A a \in Nat :
            a < Staleness /\ Good(key, answer, a) => Good(key, answer, a + 1)'
    BY <1>1, GoodTick
  <2>2. \A k \in Keys : Cached(k)' =>
            /\ Cached(k) /\ cache'[k].answer = cache[k].answer
            /\ cache'[k].ttl = cache[k].ttl - 1 /\ cache[k].ttl \in Nat
    BY <1>1 DEF TimePasses, Aged, Cached, ListingTypeOK, NoKey
  <2>3. ASSUME NEW k \in Keys, Cached(k)'
        PROVE  Good(k, cache[k].answer, Staleness - cache[k].ttl)'
    <3>1. /\ Cached(k) /\ cache'[k].answer = cache[k].answer
          /\ cache'[k].ttl = cache[k].ttl - 1 /\ cache[k].ttl \in Nat
      BY <2>2, <2>3
    <3>2. /\ Staleness - cache[k].ttl \in Nat /\ Staleness - cache[k].ttl < Staleness
          /\ Staleness \in Nat
      BY <3>1, AnswerAges, TableType
    <3>3. Good(k, cache[k].answer, Staleness - cache[k].ttl)
      BY <3>1 DEF AnswersInv
    <3>4. PICK a \in Nat, answer \in {cache[k].answer} : a = Staleness - cache[k].ttl
      BY <3>2
    <3>5. Good(k, answer, a + 1)'
      BY <2>1, <3>2, <3>3, <3>4
    <3>6. (Staleness - cache[k].ttl)' = a + 1
      BY <3>1, <3>2, <3>4
    <3> QED
      BY <3>1, <3>4, <3>5, <3>6
  <2>4. ASSUME NEW q \in Readers, reader'[q].at = "set"
        PROVE  Good(reader[q].key, reader[q].answer, reader[q].waited)'
    <3>1. \A c \in Client : /\ [c EXCEPT !.waited = @ + 1].at = c.at
                            /\ [c EXCEPT !.waited = @ + 1].key = c.key
                            /\ [c EXCEPT !.waited = @ + 1].answer = c.answer
                            /\ [c EXCEPT !.waited = @ + 1].waited = c.waited + 1
      BY DEF Client
    <3>2. /\ reader[q].at = "set" /\ reader'[q].key = reader[q].key
          /\ reader'[q].answer = reader[q].answer /\ reader'[q].waited = reader[q].waited + 1
      BY <1>1, <2>4, <3>1 DEF TimePasses, ListingTypeOK
    <3>3. reader[q].waited \in Nat /\ reader[q].waited < Staleness
      BY AnswerAges
    <3>4. Good(reader[q].key, reader[q].answer, reader[q].waited)
      BY <3>2 DEF AnswersInv
    <3>5. PICK key, answer, a :
              key = reader[q].key /\ answer = reader[q].answer /\ a = reader[q].waited
      OBVIOUS
    <3>6. Good(key, answer, a + 1)'
      BY <2>1, <3>3, <3>4, <3>5
    <3> QED
      BY <3>2, <3>5, <3>6
  <2> QED
    BY <2>3, <2>4 DEF AnswersInv
<1>2. ASSUME NEW id \in Ids, Insert(id) PROVE AnswersInv'
  <2>1. \A q \in Readers : /\ reader'[q].at = reader[q].at /\ reader'[q].key = reader[q].key
                           /\ reader'[q].answer = reader[q].answer
                           /\ reader'[q].waited = reader[q].waited
    BY <1>2 DEF Insert
  <2>2. /\ use' = use /\ cache' = cache /\ rows \subseteq rows'
        /\ \A i \in Ids : \/ age'[i] = age[i] /\ (i \in archived' <=> i \in archived)
                          \/ age'[i] = 0
        /\ \A i \in Ids : issued'[i] = issued[i] \/ issued'[i] = 0
    BY <1>2, TableType DEF Insert, ListingTypeOK, rows
  <2> QED
    BY <2>1, <2>2, AnswersKept
<1>3. ASSUME NEW id \in Ids, ChangeState(id) PROVE AnswersInv'
  <2>1. \A q \in Readers : /\ reader'[q].at = reader[q].at /\ reader'[q].key = reader[q].key
                           /\ reader'[q].answer = reader[q].answer
                           /\ reader'[q].waited = reader[q].waited
    <3>1. \A c \in Client : /\ [c EXCEPT !.walk.owed = @ \ {id}].at = c.at
                            /\ [c EXCEPT !.walk.owed = @ \ {id}].key = c.key
                            /\ [c EXCEPT !.walk.owed = @ \ {id}].answer = c.answer
                            /\ [c EXCEPT !.walk.owed = @ \ {id}].waited = c.waited
      BY DEF Client
    <3> QED
      BY <1>3, <3>1 DEF ChangeState, ListingTypeOK
  <2>2. /\ use' = use /\ cache' = cache /\ rows \subseteq rows'
        /\ \A i \in Ids : \/ age'[i] = age[i] /\ (i \in archived' <=> i \in archived)
                          \/ age'[i] = 0
        /\ \A i \in Ids : issued'[i] = issued[i] \/ issued'[i] = 0
    BY <1>3, TableType DEF ChangeState, ListingTypeOK, rows
  <2> QED
    BY <2>1, <2>2, AnswersKept
<1>4. ASSUME NEW id \in Ids, Issue(id) PROVE AnswersInv'
  <2>1. \A q \in Readers : /\ reader'[q].at = reader[q].at /\ reader'[q].key = reader[q].key
                           /\ reader'[q].answer = reader[q].answer
                           /\ reader'[q].waited = reader[q].waited
    BY <1>4 DEF Issue
  <2>2. /\ use' = use /\ cache' = cache /\ rows \subseteq rows'
        /\ \A i \in Ids : \/ age'[i] = age[i] /\ (i \in archived' <=> i \in archived)
                          \/ age'[i] = 0
        /\ \A i \in Ids : issued'[i] = issued[i] \/ issued'[i] = 0
    BY <1>4, TableType DEF Issue, ListingTypeOK, rows
  <2> QED
    BY <2>1, <2>2, AnswersKept
<1>5. ASSUME NEW r \in Readers, StartWalk(r) PROVE AnswersInv'
  <2>1. /\ CachedAt \in {"exists", "get", "bypass"} /\ ListKey(0) \in Keys
        /\ [NoWalk EXCEPT !.at = "going", !.owed = Settled \cap Matching] \in Walks
    BY PlainTypes, TableType DEF NoWalk, Walks
  <2>2. AskAt(r, CachedAt, ListKey(0),
              [NoWalk EXCEPT !.at = "going", !.owed = Settled \cap Matching])
    BY <1>5 DEF StartWalk, Ask
  <2>3. /\ \A q \in Readers : q # r => reader'[q] = reader[q]
        /\ reader'[r].at # "set"
    BY <2>1, <2>2, AskType
  <2>9. UNCHANGED <<use, tableVars, cache>>
    BY <1>5 DEF StartWalk, tableVars
  <2> QED
    BY <2>3, <2>9, AnswersQuiet
<1>6. ASSUME NEW r \in Readers, NextPage(r) PROVE AnswersInv'
  <2>1. /\ CachedAt \in {"exists", "get", "bypass"} /\ ListKey(reader[r].answer.next) \in Keys
        /\ reader[r].walk \in Walks
    BY PlainTypes, KeyType DEF ListingTypeOK, Client, Page
  <2>2. AskAt(r, CachedAt, ListKey(reader[r].answer.next), reader[r].walk)
    BY <1>6 DEF NextPage, Ask
  <2>3. /\ \A q \in Readers : q # r => reader'[q] = reader[q]
        /\ reader'[r].at # "set"
    BY <2>1, <2>2, AskType
  <2>9. UNCHANGED <<use, tableVars, cache>>
    BY <1>6 DEF NextPage, tableVars
  <2> QED
    BY <2>3, <2>9, AnswersQuiet
<1>7. ASSUME NEW r \in Readers, NEW id \in Ids, GetDetail(r, id) PROVE AnswersInv'
  <2>1. CachedAt \in {"exists", "get", "bypass"} /\ DetailKey(id) \in Keys /\ NoWalk \in Walks
    BY PlainTypes, KeyType
  <2>2. AskAt(r, CachedAt, DetailKey(id), NoWalk)
    BY <1>7 DEF GetDetail, Ask
  <2>3. /\ \A q \in Readers : q # r => reader'[q] = reader[q]
        /\ reader'[r].at # "set"
    BY <2>1, <2>2, AskType
  <2>9. UNCHANGED <<use, tableVars, cache>>
    BY <1>7 DEF GetDetail, tableVars
  <2> QED
    BY <2>3, <2>9, AnswersQuiet
<1>8. ASSUME NEW r \in Readers, NEW id \in Ids, GetChildren(r, id) PROVE AnswersInv'
  <2>1. "exists" \in {"exists", "get", "bypass"} /\ ChildrenKey(id) \in Keys /\ NoWalk \in Walks
    BY PlainTypes, KeyType
  <2>2. AskAt(r, "exists", ChildrenKey(id), NoWalk)
    BY <1>8 DEF GetChildren, Ask
  <2>3. /\ \A q \in Readers : q # r => reader'[q] = reader[q]
        /\ reader'[r].at # "set"
    BY <2>1, <2>2, AskType
  <2>9. UNCHANGED <<use, tableVars, cache>>
    BY <1>8 DEF GetChildren, tableVars
  <2> QED
    BY <2>3, <2>9, AnswersQuiet
<1>9. ASSUME NEW r \in Readers, GetLanguages(r) PROVE AnswersInv'
  <2>1. CachedAt \in {"exists", "get", "bypass"} /\ LanguagesKey \in Keys /\ NoWalk \in Walks
    BY PlainTypes, KeyType
  <2>2. AskAt(r, CachedAt, LanguagesKey, NoWalk)
    BY <1>9 DEF GetLanguages, Ask
  <2>3. /\ \A q \in Readers : q # r => reader'[q] = reader[q]
        /\ reader'[r].at # "set"
    BY <2>1, <2>2, AskType
  <2>9. UNCHANGED <<use, tableVars, cache>>
    BY <1>9 DEF GetLanguages, tableVars
  <2> QED
    BY <2>3, <2>9, AnswersQuiet
<1>10. ASSUME NEW r \in Readers, Exists(r) PROVE AnswersInv'
  <2>1. reader' = [reader EXCEPT ![r].at = CachedAt] /\ CachedAt \in {"get", "produce", "bypass"}
    BY <1>10, PlainTypes DEF Exists
  <2>3. /\ \A q \in Readers : q # r => reader'[q] = reader[q]
        /\ reader'[r].at # "set"
    BY <2>1, MoveType
  <2>9. UNCHANGED <<use, tableVars, cache>>
    BY <1>10 DEF Exists, tableVars
  <2> QED
    BY <2>3, <2>9, AnswersQuiet
<1>11. ASSUME NEW r \in Readers, ExistsMiss(r) PROVE AnswersInv'
  <2>1. Answer(r, Nothing) /\ Nothing \in Answers(reader[r].key)
    BY <1>11, PlainTypes DEF ExistsMiss
  <2>3. /\ \A q \in Readers : q # r => reader'[q] = reader[q]
        /\ reader'[r].at # "set"
    BY <2>1, AnswerType
  <2>9. UNCHANGED <<use, tableVars, cache>>
    BY <1>11 DEF ExistsMiss, tableVars
  <2> QED
    BY <2>3, <2>9, AnswersQuiet
<1>12. ASSUME NEW r \in Readers, CacheHit(r) PROVE AnswersInv'
  <2>1. /\ Answer(r, cache[reader[r].key].answer)
        /\ cache[reader[r].key].answer \in Answers(reader[r].key)
    BY <1>12, ServedGood DEF CacheHit
  <2>3. /\ \A q \in Readers : q # r => reader'[q] = reader[q]
        /\ reader'[r].at # "set"
    BY <2>1, AnswerType
  <2>9. UNCHANGED <<use, tableVars, cache>>
    BY <1>12 DEF CacheHit, tableVars
  <2> QED
    BY <2>3, <2>9, AnswersQuiet
<1>13. ASSUME NEW r \in Readers, CacheMiss(r) PROVE AnswersInv'
  <2>1. /\ reader' = [reader EXCEPT ![r].at = "produce"]
        /\ "produce" \in {"get", "produce", "bypass"}
    BY <1>13, PlainTypes DEF CacheMiss
  <2>3. /\ \A q \in Readers : q # r => reader'[q] = reader[q]
        /\ reader'[r].at # "set"
    BY <2>1, MoveType
  <2>9. UNCHANGED <<use, tableVars, cache>>
    BY <1>13 DEF CacheMiss, tableVars
  <2> QED
    BY <2>3, <2>9, AnswersQuiet
<1>14. ASSUME NEW r \in Readers, CacheGetError(r) PROVE AnswersInv'
  <2>1. reader' = [reader EXCEPT ![r].at = "bypass"] /\ "bypass" \in {"get", "produce", "bypass"}
    BY <1>14, PlainTypes DEF CacheGetError
  <2>3. /\ \A q \in Readers : q # r => reader'[q] = reader[q]
        /\ reader'[r].at # "set"
    BY <2>1, MoveType
  <2>9. UNCHANGED <<use, tableVars, cache>>
    BY <1>14 DEF CacheGetError, tableVars
  <2> QED
    BY <2>3, <2>9, AnswersQuiet
<1>15. ASSUME NEW r \in Readers, Query(r) PROVE AnswersInv'
  <2>1. /\ \A q \in Readers : q # r => reader'[q] = reader[q]
        /\ reader'[r].key = reader[r].key /\ reader'[r].waited = reader[r].waited
        /\ reader'[r].answer = Produce(reader[r].key)
        /\ reader[r].waited \in Nat
        /\ Good(reader[r].key, Produce(reader[r].key), 0)
    BY <1>15, QueryType
  <2>2. Good(reader[r].key, Produce(reader[r].key), reader[r].waited)
    BY <2>1, GoodForLonger
  <2>3. UNCHANGED <<use, tableVars, cache>>
    BY <1>15 DEF Query, tableVars
  <2>4. \A key, answer, a : Good(key, answer, a)' <=> Good(key, answer, a)
    BY <2>3, GoodQuiet
  <2>5. \A k \in Keys : Cached(k)' => Good(k, cache[k].answer, Staleness - cache[k].ttl)'
    BY <2>3, <2>4 DEF AnswersInv, Cached
  <2>6. Good(reader[r].key, reader[r].answer, reader[r].waited)'
    BY <2>1, <2>2, <2>4
  <2>7. \A q \in Readers : reader'[q].at = "set" =>
            Good(reader[q].key, reader[q].answer, reader[q].waited)'
    BY <2>1, <2>4, <2>6 DEF AnswersInv
  <2> QED
    BY <2>5, <2>7 DEF AnswersInv
<1>16. ASSUME NEW r \in Readers, QueryUncached(r) PROVE AnswersInv'
  <2>1. Answer(r, Produce(reader[r].key)) /\ Produce(reader[r].key) \in Answers(reader[r].key)
    BY <1>16, ServedGood DEF QueryUncached
  <2>3. /\ \A q \in Readers : q # r => reader'[q] = reader[q]
        /\ reader'[r].at # "set"
    BY <2>1, AnswerType
  <2>9. UNCHANGED <<use, tableVars, cache>>
    BY <1>16 DEF QueryUncached, tableVars
  <2> QED
    BY <2>3, <2>9, AnswersQuiet
<1>17. ASSUME NEW r \in Readers, QueryError(r) PROVE AnswersInv'
  <2>3. /\ \A q \in Readers : q # r => reader'[q] = reader[q]
        /\ reader'[r].at # "set"
    BY <1>17, PlainTypes DEF QueryError, ListingTypeOK
  <2>9. UNCHANGED <<use, tableVars, cache>>
    BY <1>17 DEF QueryError, tableVars
  <2> QED
    BY <2>3, <2>9, AnswersQuiet
<1>18. ASSUME NEW r \in Readers, CacheSet(r) PROVE AnswersInv'
  <2> DEFINE key == reader[r].key
             kept == [answer |-> reader[r].answer, ttl |-> CacheTtl]
  <2>1. /\ Answer(r, reader[r].answer) /\ reader[r].answer \in Answers(key)
        /\ reader[r].at = "set" /\ key \in Keys
    BY <1>18, ServedGood DEF CacheSet, ListingTypeOK, Client
  <2>2. /\ \A q \in Readers : q # r => reader'[q] = reader[q]
        /\ reader'[r].at = "idle"
    BY <2>1, AnswerType
  <2>3. /\ cache' = [cache EXCEPT ![key] = kept]
        /\ cache \in [Keys -> [answer : Page, ttl : 0 .. CacheTtl]]
    BY <1>18 DEF CacheSet, ListingTypeOK
  <2>4. UNCHANGED <<use, tableVars>>
    BY <1>18 DEF CacheSet, tableVars
  <2>5. \A k, answer, a : Good(k, answer, a)' <=> Good(k, answer, a)
    BY <2>4, GoodQuiet
  <2>6. /\ kept.answer = reader[r].answer /\ kept.ttl = CacheTtl
        /\ Staleness - CacheTtl = Latency /\ Latency \in Nat
    BY TableType
  <2>7. Good(key, reader[r].answer, Latency)
    BY <2>1, <2>6, AnswerAges, GoodForLonger DEF AnswersInv
  <2> HIDE DEF key, kept
  <2>8. ASSUME NEW k \in Keys, Cached(k)'
        PROVE  Good(k, cache[k].answer, Staleness - cache[k].ttl)'
    <3>1. CASE k = key
      <4>1. cache'[k].answer = reader[r].answer /\ Staleness - cache'[k].ttl = Latency
        BY <2>1, <2>3, <2>6, <3>1
      <4> QED
        BY <2>5, <2>7, <3>1, <4>1 DEF Staleness
    <3>2. CASE k # key
      <4>1. cache'[k] = cache[k]
        BY <2>3, <3>2
      <4> QED
        BY <2>5, <2>8, <4>1 DEF AnswersInv, Cached
    <3> QED
      BY <3>1, <3>2
  <2>9. \A q \in Readers : reader'[q].at = "set" =>
            Good(reader[q].key, reader[q].answer, reader[q].waited)'
    BY <2>2, <2>5 DEF AnswersInv
  <2> QED
    BY <2>8, <2>9 DEF AnswersInv
<1>19. ASSUME NEW r \in Readers, CacheSetError(r) PROVE AnswersInv'
  <2>1. Answer(r, reader[r].answer) /\ reader[r].answer \in Answers(reader[r].key)
    BY <1>19, ServedGood DEF CacheSetError
  <2>3. /\ \A q \in Readers : q # r => reader'[q] = reader[q]
        /\ reader'[r].at # "set"
    BY <2>1, AnswerType
  <2>9. UNCHANGED <<use, tableVars, cache>>
    BY <1>19 DEF CacheSetError, tableVars
  <2> QED
    BY <2>3, <2>9, AnswersQuiet
<1>20. ASSUME NEW r \in Readers, NEW cursor \in Ids \cup {0}, GetPage(r, cursor)
       PROVE  AnswersInv'
  <2>1. CachedAt \in {"exists", "get", "bypass"} /\ ListKey(cursor) \in Keys /\ NoWalk \in Walks
    BY PlainTypes, KeyType
  <2>2. AskAt(r, CachedAt, ListKey(cursor), NoWalk)
    BY <1>20 DEF GetPage, Ask
  <2>3. /\ \A q \in Readers : q # r => reader'[q] = reader[q]
        /\ reader'[r].at # "set"
    BY <2>1, <2>2, AskType
  <2>4. UNCHANGED <<use, tableVars, cache>>
    BY <1>20 DEF GetPage, tableVars
  <2> QED
    BY <2>3, <2>4, AnswersQuiet
<1> QED
  BY <1>0, <1>1, <1>2, <1>3, <1>4, <1>5, <1>6, <1>7, <1>8, <1>9, <1>10,
     <1>11, <1>12, <1>13, <1>14, <1>15, <1>16, <1>17, <1>18, <1>19, <1>20
  DEF ListingNext, Request

(* Walks list each row once. *)
LEMMA WalksStep ==
    ASSUME ListingTypeOK, CursorsInv, AnswersInv, WalksInv, [ListingNext]_listingVars
    PROVE  WalksInv'
<1>0. CASE UNCHANGED listingVars
  <2>1. reader' = reader /\ UNCHANGED <<use, tableVars>>
    BY <1>0 DEF listingVars, tableVars
  <2> QED
    BY <2>1, WalkQuiet DEF WalksInv
<1>1. CASE TimePasses
  <2>1. \A q \in Readers :
            /\ reader'[q].at = reader[q].at /\ reader'[q].key = reader[q].key
            /\ reader'[q].answer = reader[q].answer
            /\ reader'[q].walk.at = reader[q].walk.at
            /\ reader'[q].walk.listed = reader[q].walk.listed
            /\ reader'[q].walk.repeated = reader[q].walk.repeated
            /\ reader'[q].walk.owed \subseteq reader[q].walk.owed
    <3>1. \A c \in Client : /\ [c EXCEPT !.waited = @ + 1].at = c.at
                            /\ [c EXCEPT !.waited = @ + 1].key = c.key
                            /\ [c EXCEPT !.waited = @ + 1].answer = c.answer
                            /\ [c EXCEPT !.waited = @ + 1].walk = c.walk
      BY DEF Client
    <3> QED
      BY <1>1, <3>1 DEF TimePasses, ListingTypeOK
  <2>2. rows \subseteq rows'
    BY <1>1, TableType DEF TimePasses, Older, ListingTypeOK, rows, NoRow
  <2>3. \A i : i \in Settled \cap Matching => i \in (Settled \cap Matching)'
    <3>1. /\ \A i \in Ids : i \in Settled <=> age[i] = Staleness
          /\ \A i \in Ids : i \in rows <=> age[i] # NoRow
          /\ \A i \in Ids : age[i] \in Nat
          /\ Staleness \in Nat /\ NoRow = Staleness + 1 /\ Matching \in SUBSET rows
      BY TableType DEF NoRow
    <3>2. \A i \in Ids : age'[i] = IF age[i] < Staleness THEN age[i] + 1 ELSE age[i]
      BY <1>1 DEF TimePasses, Older
    <3>3. archived' = archived /\ use' = use
      BY <1>1 DEF TimePasses
    <3>4. \A i \in Ids : (i \in rows' <=> i \in rows) /\ (i \in Settled => i \in Settled')
      BY <3>1, <3>2 DEF rows, Settled
    <3> QED
      BY <3>1, <3>3, <3>4 DEF Matching, Settled
  <2> QED
    BY <2>1, <2>2, <2>3, WalkKept DEF WalksInv
<1>2. ASSUME NEW id \in Ids, Insert(id) PROVE WalksInv'
  <2>1. \A q \in Readers :
            /\ reader'[q].at = reader[q].at /\ reader'[q].key = reader[q].key
            /\ reader'[q].answer = reader[q].answer
            /\ reader'[q].walk.at = reader[q].walk.at
            /\ reader'[q].walk.listed = reader[q].walk.listed
            /\ reader'[q].walk.repeated = reader[q].walk.repeated
            /\ reader'[q].walk.owed \subseteq reader[q].walk.owed
    BY <1>2 DEF Insert
  <2>2. rows \subseteq rows'
    BY <1>2, TableType DEF Insert, ListingTypeOK, rows, NoRow
  <2>3. \A i : i \in Settled \cap Matching => i \in (Settled \cap Matching)'
    <3>1. /\ \A i \in Ids : i \in Settled => age[i] = Staleness
          /\ NoRow # Staleness /\ NoRow # 0
          /\ Settled \in SUBSET Ids /\ age \in [Ids -> 0 .. NoRow]
      BY TableType DEF ListingTypeOK, Settled
    <3>2. \A i \in Ids : i # id => age'[i] = age[i]
      BY <1>2, <3>1 DEF Insert
    <3>3. id \notin Settled /\ archived' = archived /\ use' = use
      BY <1>2, <3>1 DEF Insert
    <3> QED
      BY <2>2, <3>1, <3>2, <3>3 DEF Matching, Settled
  <2> QED
    BY <2>1, <2>2, <2>3, WalkKept DEF WalksInv
<1>3. ASSUME NEW id \in Ids, ChangeState(id) PROVE WalksInv'
  <2>1. \A q \in Readers :
            /\ reader'[q].at = reader[q].at /\ reader'[q].key = reader[q].key
            /\ reader'[q].answer = reader[q].answer
            /\ reader'[q].walk.at = reader[q].walk.at
            /\ reader'[q].walk.listed = reader[q].walk.listed
            /\ reader'[q].walk.repeated = reader[q].walk.repeated
            /\ reader'[q].walk.owed \subseteq reader[q].walk.owed
    <3>1. \A c \in Client : /\ [c EXCEPT !.walk.owed = @ \ {id}].at = c.at
                            /\ [c EXCEPT !.walk.owed = @ \ {id}].key = c.key
                            /\ [c EXCEPT !.walk.owed = @ \ {id}].answer = c.answer
                            /\ [c EXCEPT !.walk.owed = @ \ {id}].walk.at = c.walk.at
                            /\ [c EXCEPT !.walk.owed = @ \ {id}].walk.listed = c.walk.listed
                            /\ [c EXCEPT !.walk.owed = @ \ {id}].walk.repeated = c.walk.repeated
                            /\ [c EXCEPT !.walk.owed = @ \ {id}].walk.owed = c.walk.owed \ {id}
      BY DEF Client, Walks
    <3> QED
      BY <1>3, <3>1 DEF ChangeState, ListingTypeOK
  <2>2. rows \subseteq rows'
    BY <1>3, TableType DEF ChangeState, ListingTypeOK, rows, NoRow
  <2>3. \A q \in Readers : \A i \in reader'[q].walk.owed :
            i \in Settled \cap Matching => i \in (Settled \cap Matching)'
    <3>1. \A c \in Client : [c EXCEPT !.walk.owed = @ \ {id}].walk.owed = c.walk.owed \ {id}
      BY DEF Client, Walks
    <3>2. \A q \in Readers : id \notin reader'[q].walk.owed
      BY <1>3, <3>1 DEF ChangeState, ListingTypeOK
    <3>3. \A i \in Ids : i # id => age'[i] = age[i] /\ (i \in archived' <=> i \in archived)
      BY <1>3 DEF ChangeState, ListingTypeOK
    <3>4. use' = use
      BY <1>3 DEF ChangeState
    <3>5. \A i \in Ids : i # id =>
              (i \in Settled \cap Matching => i \in (Settled \cap Matching)')
      BY <3>3, <3>4 DEF Matching, Settled, rows
    <3> QED
      BY <3>2, <3>5 DEF Settled
  <2> QED
    BY <2>1, <2>2, <2>3, WalkKept DEF WalksInv
<1>4. ASSUME NEW id \in Ids, Issue(id) PROVE WalksInv'
  <2>1. \A q \in Readers :
            /\ reader'[q].at = reader[q].at /\ reader'[q].key = reader[q].key
            /\ reader'[q].answer = reader[q].answer
            /\ reader'[q].walk.at = reader[q].walk.at
            /\ reader'[q].walk.listed = reader[q].walk.listed
            /\ reader'[q].walk.repeated = reader[q].walk.repeated
            /\ reader'[q].walk.owed \subseteq reader[q].walk.owed
    BY <1>4 DEF Issue
  <2>2. rows \subseteq rows'
    BY <1>4, TableType DEF Issue, ListingTypeOK, rows, NoRow
  <2>3. \A i : i \in Settled \cap Matching => i \in (Settled \cap Matching)'
    BY <1>4 DEF Issue, Matching, Settled, rows
  <2> QED
    BY <2>1, <2>2, <2>3, WalkKept DEF WalksInv
<1>5. ASSUME NEW r \in Readers, StartWalk(r) PROVE WalksInv'
  <2>1. /\ CachedAt \in {"exists", "get", "bypass"} /\ ListKey(0) \in Keys
        /\ [NoWalk EXCEPT !.at = "going", !.owed = Settled \cap Matching] \in Walks
    BY PlainTypes, TableType DEF NoWalk, Walks
  <2>2. AskAt(r, CachedAt, ListKey(0),
              [NoWalk EXCEPT !.at = "going", !.owed = Settled \cap Matching])
    BY <1>5 DEF StartWalk, Ask
  <2>3. \A q \in Readers : q # r => reader'[q] = reader[q]
    BY <2>1, <2>2, AskType
  <2>7. Walked(r)'
    <3>1. reader'[r].walk = [NoWalk EXCEPT !.at = "going", !.owed = Settled \cap Matching]
      BY <2>1, <2>2, AskType
    <3>2. /\ reader'[r].walk.at = "going" /\ reader'[r].walk.owed = Settled \cap Matching
          /\ reader'[r].walk.listed = {} /\ reader'[r].walk.repeated = FALSE
      BY <3>1 DEF NoWalk
    <3>3. reader'[r].key = ListKey(0) /\ reader'[r].at # "idle"
      BY <2>1, <2>2, AskType
    <3>4. Reached(r)' = 0
      BY <3>3, KeyType DEF Reached
    <3>5. Settled' = Settled /\ Matching' = Matching
      BY <1>5, GoodQuiet DEF StartWalk, tableVars
    <3>6. \A i \in Settled \cap Matching : i > 0
      BY TableType
    <3> QED
      BY <3>2, <3>3, <3>4, <3>5, <3>6, KeyType DEF Walked
  <2>8. \A q \in Readers : q # r => Walked(q)'
    <3>1. UNCHANGED <<use, tableVars>>
      BY <1>5 DEF StartWalk, tableVars
    <3> QED
      BY <2>3, <3>1, WalkQuiet
  <2> QED
    BY <2>7, <2>8 DEF WalksInv
<1>6. ASSUME NEW r \in Readers, NextPage(r) PROVE WalksInv'
  <2>1. /\ CachedAt \in {"exists", "get", "bypass"} /\ ListKey(reader[r].answer.next) \in Keys
        /\ reader[r].walk \in Walks
    BY PlainTypes, KeyType DEF ListingTypeOK, Client, Page
  <2>2. AskAt(r, CachedAt, ListKey(reader[r].answer.next), reader[r].walk)
    BY <1>6 DEF NextPage, Ask
  <2>3. \A q \in Readers : q # r => reader'[q] = reader[q]
    BY <2>1, <2>2, AskType
  <2>7. Walked(r)'
    <3>1. /\ reader'[r].walk = reader[r].walk /\ reader'[r].at # "idle"
          /\ reader'[r].key = ListKey(reader[r].answer.next)
      BY <2>1, <2>2, AskType
    <3>2. reader[r].at = "idle" /\ Walked(r)
      BY <1>6 DEF NextPage, WalksInv
    <3>3. Reached(r)' = Reached(r)
      BY <3>1, <3>2, KeyType DEF Reached
    <3>4. Settled' = Settled /\ Matching' = Matching
      BY <1>6, GoodQuiet DEF NextPage, tableVars
    <3> QED
      BY <3>1, <3>2, <3>3, <3>4, KeyType DEF Walked
  <2>8. \A q \in Readers : q # r => Walked(q)'
    <3>1. UNCHANGED <<use, tableVars>>
      BY <1>6 DEF NextPage, tableVars
    <3> QED
      BY <2>3, <3>1, WalkQuiet
  <2> QED
    BY <2>7, <2>8 DEF WalksInv
<1>7. ASSUME NEW r \in Readers, NEW id \in Ids, GetDetail(r, id) PROVE WalksInv'
  <2>1. CachedAt \in {"exists", "get", "bypass"} /\ DetailKey(id) \in Keys /\ NoWalk \in Walks
    BY PlainTypes, KeyType
  <2>2. AskAt(r, CachedAt, DetailKey(id), NoWalk)
    BY <1>7 DEF GetDetail, Ask
  <2>3. \A q \in Readers : q # r => reader'[q] = reader[q]
    BY <2>1, <2>2, AskType
  <2>7. Walked(r)'
    BY <2>1, <2>2, AskType, WalkReset
  <2>8. \A q \in Readers : q # r => Walked(q)'
    <3>1. UNCHANGED <<use, tableVars>>
      BY <1>7 DEF GetDetail, tableVars
    <3> QED
      BY <2>3, <3>1, WalkQuiet
  <2> QED
    BY <2>7, <2>8 DEF WalksInv
<1>8. ASSUME NEW r \in Readers, NEW id \in Ids, GetChildren(r, id) PROVE WalksInv'
  <2>1. "exists" \in {"exists", "get", "bypass"} /\ ChildrenKey(id) \in Keys /\ NoWalk \in Walks
    BY PlainTypes, KeyType
  <2>2. AskAt(r, "exists", ChildrenKey(id), NoWalk)
    BY <1>8 DEF GetChildren, Ask
  <2>3. \A q \in Readers : q # r => reader'[q] = reader[q]
    BY <2>1, <2>2, AskType
  <2>7. Walked(r)'
    BY <2>1, <2>2, AskType, WalkReset
  <2>8. \A q \in Readers : q # r => Walked(q)'
    <3>1. UNCHANGED <<use, tableVars>>
      BY <1>8 DEF GetChildren, tableVars
    <3> QED
      BY <2>3, <3>1, WalkQuiet
  <2> QED
    BY <2>7, <2>8 DEF WalksInv
<1>9. ASSUME NEW r \in Readers, GetLanguages(r) PROVE WalksInv'
  <2>1. CachedAt \in {"exists", "get", "bypass"} /\ LanguagesKey \in Keys /\ NoWalk \in Walks
    BY PlainTypes, KeyType
  <2>2. AskAt(r, CachedAt, LanguagesKey, NoWalk)
    BY <1>9 DEF GetLanguages, Ask
  <2>3. \A q \in Readers : q # r => reader'[q] = reader[q]
    BY <2>1, <2>2, AskType
  <2>7. Walked(r)'
    BY <2>1, <2>2, AskType, WalkReset
  <2>8. \A q \in Readers : q # r => Walked(q)'
    <3>1. UNCHANGED <<use, tableVars>>
      BY <1>9 DEF GetLanguages, tableVars
    <3> QED
      BY <2>3, <3>1, WalkQuiet
  <2> QED
    BY <2>7, <2>8 DEF WalksInv
<1>10. ASSUME NEW r \in Readers, Exists(r) PROVE WalksInv'
  <2>1. reader' = [reader EXCEPT ![r].at = CachedAt] /\ CachedAt \in {"get", "produce", "bypass"}
    BY <1>10, PlainTypes DEF Exists
  <2>2. reader[r].at # "idle" /\ UNCHANGED <<use, tableVars>>
    BY <1>10 DEF Exists, tableVars
  <2>3. /\ \A q \in Readers : q # r => reader'[q] = reader[q]
        /\ reader'[r].at # "idle" /\ reader'[r].key = reader[r].key
        /\ reader'[r].walk = reader[r].walk
    BY <2>1, MoveType
  <2> QED
    BY <2>2, <2>3, WalkMoved, WalkQuiet DEF WalksInv
<1>11. ASSUME NEW r \in Readers, ExistsMiss(r) PROVE WalksInv'
  <2>1. /\ Answer(r, Nothing) /\ Nothing \in Answers(reader[r].key)
        /\ reader[r].at = "exists"
    BY <1>11, PlainTypes DEF ExistsMiss
  <2>2. reader[r].walk.at # "going"
    BY <2>1 DEF CursorsInv, WalksInv, Walked
  <2>3. UNCHANGED <<use, tableVars>>
    BY <1>11 DEF ExistsMiss, tableVars
  <2> QED
    BY <2>1, <2>2, <2>3, AnswerWalked
<1>12. ASSUME NEW r \in Readers, CacheHit(r) PROVE WalksInv'
  <2>1. /\ Answer(r, cache[reader[r].key].answer) /\ reader[r].at # "idle"
        /\ cache[reader[r].key].answer \in Answers(reader[r].key)
        /\ \E a \in Nat : a < Staleness /\ Good(reader[r].key, cache[reader[r].key].answer, a)
    BY <1>12, ServedGood DEF CacheHit
  <2>2. UNCHANGED <<use, tableVars>>
    BY <1>12 DEF CacheHit, tableVars
  <2> QED
    BY <2>1, <2>2, AnswerWalked
<1>13. ASSUME NEW r \in Readers, CacheMiss(r) PROVE WalksInv'
  <2>1. /\ reader' = [reader EXCEPT ![r].at = "produce"]
        /\ "produce" \in {"get", "produce", "bypass"}
    BY <1>13, PlainTypes DEF CacheMiss
  <2>2. reader[r].at # "idle" /\ UNCHANGED <<use, tableVars>>
    BY <1>13 DEF CacheMiss, tableVars
  <2>3. /\ \A q \in Readers : q # r => reader'[q] = reader[q]
        /\ reader'[r].at # "idle" /\ reader'[r].key = reader[r].key
        /\ reader'[r].walk = reader[r].walk
    BY <2>1, MoveType
  <2> QED
    BY <2>2, <2>3, WalkMoved, WalkQuiet DEF WalksInv
<1>14. ASSUME NEW r \in Readers, CacheGetError(r) PROVE WalksInv'
  <2>1. reader' = [reader EXCEPT ![r].at = "bypass"] /\ "bypass" \in {"get", "produce", "bypass"}
    BY <1>14, PlainTypes DEF CacheGetError
  <2>2. reader[r].at # "idle" /\ UNCHANGED <<use, tableVars>>
    BY <1>14 DEF CacheGetError, tableVars
  <2>3. /\ \A q \in Readers : q # r => reader'[q] = reader[q]
        /\ reader'[r].at # "idle" /\ reader'[r].key = reader[r].key
        /\ reader'[r].walk = reader[r].walk
    BY <2>1, MoveType
  <2> QED
    BY <2>2, <2>3, WalkMoved, WalkQuiet DEF WalksInv
<1>15. ASSUME NEW r \in Readers, Query(r) PROVE WalksInv'
  <2>1. /\ \A q \in Readers : q # r => reader'[q] = reader[q]
        /\ reader[r].at # "idle" /\ reader'[r].at # "idle"
        /\ reader'[r].key = reader[r].key /\ reader'[r].walk = reader[r].walk
    BY <1>15, QueryType
  <2>2. UNCHANGED <<use, tableVars>>
    BY <1>15 DEF Query, tableVars
  <2> QED
    BY <2>1, <2>2, WalkMoved, WalkQuiet DEF WalksInv
<1>16. ASSUME NEW r \in Readers, QueryUncached(r) PROVE WalksInv'
  <2>1. /\ Answer(r, Produce(reader[r].key)) /\ reader[r].at # "idle"
        /\ Produce(reader[r].key) \in Answers(reader[r].key)
        /\ \E a \in Nat : a < Staleness /\ Good(reader[r].key, Produce(reader[r].key), a)
    BY <1>16, ServedGood DEF QueryUncached
  <2>2. UNCHANGED <<use, tableVars>>
    BY <1>16 DEF QueryUncached, tableVars
  <2> QED
    BY <2>1, <2>2, AnswerWalked
<1>17. ASSUME NEW r \in Readers, QueryError(r) PROVE WalksInv'
  <2>1. reader' = [reader EXCEPT ![r] = Resting] /\ reader \in [Readers -> Client]
    BY <1>17 DEF QueryError, ListingTypeOK
  <2>2. UNCHANGED <<use, tableVars>>
    BY <1>17 DEF QueryError, tableVars
  <2>3. /\ \A q \in Readers : q # r => reader'[q] = reader[q]
        /\ reader'[r].walk = NoWalk
    BY <2>1, PlainTypes
  <2> QED
    BY <2>2, <2>3, WalkReset, WalkQuiet DEF WalksInv
<1>18. ASSUME NEW r \in Readers, CacheSet(r) PROVE WalksInv'
  <2>1. /\ Answer(r, reader[r].answer) /\ reader[r].at # "idle"
        /\ reader[r].answer \in Answers(reader[r].key)
        /\ \E a \in Nat : a < Staleness /\ Good(reader[r].key, reader[r].answer, a)
    BY <1>18, ServedGood DEF CacheSet
  <2>2. UNCHANGED <<use, tableVars>>
    BY <1>18 DEF CacheSet, tableVars
  <2> QED
    BY <2>1, <2>2, AnswerWalked
<1>19. ASSUME NEW r \in Readers, CacheSetError(r) PROVE WalksInv'
  <2>1. /\ Answer(r, reader[r].answer) /\ reader[r].at # "idle"
        /\ reader[r].answer \in Answers(reader[r].key)
        /\ \E a \in Nat : a < Staleness /\ Good(reader[r].key, reader[r].answer, a)
    BY <1>19, ServedGood DEF CacheSetError
  <2>2. UNCHANGED <<use, tableVars>>
    BY <1>19 DEF CacheSetError, tableVars
  <2> QED
    BY <2>1, <2>2, AnswerWalked
<1>20. ASSUME NEW r \in Readers, NEW cursor \in Ids \cup {0}, GetPage(r, cursor)
       PROVE  WalksInv'
  <2>1. CachedAt \in {"exists", "get", "bypass"} /\ ListKey(cursor) \in Keys /\ NoWalk \in Walks
    BY PlainTypes, KeyType
  <2>2. AskAt(r, CachedAt, ListKey(cursor), NoWalk)
    BY <1>20 DEF GetPage, Ask
  <2>3. \A q \in Readers : q # r => reader'[q] = reader[q]
    BY <2>1, <2>2, AskType
  <2>4. Walked(r)'
    BY <2>1, <2>2, AskType, WalkReset
  <2>5. \A q \in Readers : q # r => Walked(q)'
    <3>1. UNCHANGED <<use, tableVars>>
      BY <1>20 DEF GetPage, tableVars
    <3> QED
      BY <2>3, <3>1, WalkQuiet
  <2> QED
    BY <2>4, <2>5 DEF WalksInv
<1> QED
  BY <1>0, <1>1, <1>2, <1>3, <1>4, <1>5, <1>6, <1>7, <1>8, <1>9, <1>10,
     <1>11, <1>12, <1>13, <1>14, <1>15, <1>16, <1>17, <1>18, <1>19, <1>20
  DEF ListingNext, Request

-----------------------------------------------------------------------------
(* The theorems.                                                           *)

LEMMA InitIsGood == ListingInit => ListingInv
<1> SUFFICES ASSUME ListingInit PROVE ListingInv
  OBVIOUS
<1>1. /\ \A r \in Readers : reader[r] = Resting
      /\ \A k \in Keys : cache[k] = NoKey
  BY DEF ListingInit
<1>2. ListingTypeOK
  <2>1. Staleness \in Nat /\ NoRow = Staleness + 1
    BY ListingAssumption DEF Staleness, NoRow
  <2>2. NoRow \in 0 .. NoRow /\ Staleness \in 0 .. NoRow /\ 0 \in 0 .. MaxFaults
    BY <2>1, ListingAssumption
  <2>3. age \in [Ids -> 0 .. NoRow] /\ issued \in [Ids -> 0 .. NoRow]
    BY <2>2 DEF ListingInit
  <2>4. /\ cache \in [Keys -> [answer : Page, ttl : 0 .. CacheTtl]]
        /\ \A k \in Keys : cache[k].answer \in Answers(k)
    BY PlainTypes DEF ListingInit, NoKey
  <2>5. /\ reader \in [Readers -> Client]
        /\ \A r \in Readers : reader[r].answer \in Answers(reader[r].key)
    BY PlainTypes DEF ListingInit
  <2> QED
    BY <2>2, <2>3, <2>4, <2>5 DEF ListingInit, ListingTypeOK
<1>3. CursorsInv
  BY <1>1, PlainTypes, KeyType DEF CursorsInv
<1>4. AnswersInv
  <2>1. \A k \in Keys : ~Cached(k)
    BY <1>1, PlainTypes DEF Cached
  <2> QED
    BY <1>1, <2>1, PlainTypes DEF AnswersInv
<1>5. WalksInv
  BY <1>1, PlainTypes DEF WalksInv, Walked, NoWalk
<1> QED
  BY <1>2, <1>3, <1>4, <1>5 DEF ListingInv

(***************************************************************************)
(* Whatever is kept in Redis, on its way into it, or told to a client that *)
(* walks the list, is a true answer of its age (cached, the list route).   *)
(***************************************************************************)
THEOREM ListingInvariant == ListingSpec => []ListingInv
<1>1. ListingInit => ListingInv
  BY InitIsGood
<1>2. ListingInv /\ [ListingNext]_listingVars => ListingInv'
  <2> SUFFICES ASSUME ListingInv, [ListingNext]_listingVars PROVE ListingInv'
    OBVIOUS
  <2>1. ListingTypeOK'
    BY TypeStep DEF ListingInv
  <2>2. CursorsInv' /\ WalksInv'
    BY CursorsStep, WalksStep DEF ListingInv
  <2>3. AnswersInv'
    BY <2>1, AnswersStep DEF ListingInv
  <2> QED
    BY <2>1, <2>2, <2>3 DEF ListingInv
<1> QED
  BY <1>1, <1>2, PTL DEF ListingSpec

(***************************************************************************)
(* Every variable has its type: a page holds Limit rows at most and its    *)
(* cursor is its last row, and no row is filtered that is not there.       *)
(***************************************************************************)
THEOREM TypeCorrect == ListingSpec => []ListingTypeOK
<1>1. ListingInv => ListingTypeOK
  BY DEF ListingInv
<1> QED
  BY <1>1, ListingInvariant, PTL

(***************************************************************************)
(* A walk that ended listed all it owed, with the pages of whatever        *)
(* moments, and whatever was inserted or archived meanwhile (the list      *)
(* route).                                                                 *)
(***************************************************************************)
THEOREM WalksSkipNone == ListingSpec => []WalkSkipsNone
<1>1. ListingInv => WalkSkipsNone
  BY DEF ListingInv, WalksInv, Walked, WalkSkipsNone
<1> QED
  BY <1>1, ListingInvariant, PTL

(***************************************************************************)
(* No walk lists a dataset twice (the list route).                         *)
(***************************************************************************)
THEOREM WalksRepeatNone == ListingSpec => []WalkRepeatsNone
<1>1. ListingInv => WalkRepeatsNone
  BY DEF ListingInv, WalksInv, Walked, WalkRepeatsNone
<1> QED
  BY <1>1, ListingInvariant, PTL

(***************************************************************************)
(* Nothing served is older than a key's lifetime and the time it took to   *)
(* store it, whoever raced for the key (cached).                           *)
(***************************************************************************)
THEOREM ServedFresh == ListingSpec => AnswersAreFresh
<1>1. ListingInv /\ [ListingNext]_listingVars =>
        [\A r \in Readers :
            (CacheHit(r) \/ CacheSet(r) \/ CacheSetError(r) \/ QueryUncached(r)) =>
                IsFresh(reader[r].key, Served(r))]_listingVars
  <2> SUFFICES ASSUME ListingInv, NEW r \in Readers,
                      CacheHit(r) \/ CacheSet(r) \/ CacheSetError(r) \/ QueryUncached(r)
               PROVE  IsFresh(reader[r].key, Served(r))
    OBVIOUS
  <2>1. ListingTypeOK /\ CursorsInv /\ AnswersInv
    BY DEF ListingInv
  <2>2. \/ /\ reader[r].at = "get" /\ Cached(reader[r].key)
           /\ Served(r) = cache[reader[r].key].answer
        \/ reader[r].at = "set" /\ Served(r) = reader[r].answer
        \/ reader[r].at = "bypass" /\ Served(r) = Produce(reader[r].key)
    BY DEF CacheHit, CacheSet, CacheSetError, QueryUncached, Served
  <2>3. \E a \in Nat : a < Staleness /\ Good(reader[r].key, Served(r), a)
    BY <2>1, <2>2, ServedGood
  <2> QED
    BY <2>1, <2>3, GoodIsFresh
<1> QED
  BY <1>1, ListingInvariant, PTL DEF ListingSpec, AnswersAreFresh
=============================================================================
