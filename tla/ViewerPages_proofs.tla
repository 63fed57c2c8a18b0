-------------------------- MODULE ViewerPages_proofs --------------------------
(***************************************************************************)
(* Proofs about the viewer's pages: the lists (Pages), the player and the  *)
(* tracking of a session (WatchSession), and what the three parts promise  *)
(* together, for any number of rows, of titles, of calls, and any bounds.  *)
(*                                                                         *)
(* Lists.  A cursor names a place in an order that is total (Before).  A   *)
(* row a view has shown is at or before its last cursor, and a change only *)
(* moves a row forward (KeysOnlyGrow), unless it demotes the row; so it    *)
(* stays there, and the next page is taken from what is after the cursor.  *)
(*  A row that kept its place and is  *)
(* on no page is after the cursor, so it is among those the next page      *)
(* takes the first of (NextPageFacts).                                     *)
(***************************************************************************)
EXTENDS ViewerPages, Playlists_proofs, Sequences

-----------------------------------------------------------------------------
(* The order of the rows, and the first of them.                           *)

Keys == Int \X Nat \X Feed!Rows

(* One key for each row of a list, which ends with its id.                 *)
Keyed(S, key) ==
    /\ S \subseteq Feed!Rows
    /\ key \in [S -> Keys]
    /\ \A r \in S : key[r][3] = r

(* Before is a strict order, total for the keys of different rows.         *)
LEMMA BeforeIsTransitive ==
    ASSUME NEW a \in Keys, NEW b \in Keys, NEW c \in Keys,
           Feed!Before(a, b), Feed!Before(b, c)
    PROVE  Feed!Before(a, c)
<1>1. LastRow \in Nat
  BY RowsAssumption
<1>2. QED
  BY <1>1 DEF Feed!Before, Keys, Feed!Rows

LEMMA BeforeIsIrreflexive ==
    ASSUME NEW a \in Keys, NEW b \in Keys, Feed!Before(a, b)
    PROVE  ~Feed!Before(b, a) /\ a # b
  BY RowsAssumption DEF Feed!Before, Keys, Feed!Rows

LEMMA BeforeIsTotal ==
    ASSUME NEW a \in Keys, NEW b \in Keys, a[3] # b[3]
    PROVE  Feed!Before(a, b) \/ Feed!Before(b, a)
  BY RowsAssumption DEF Feed!Before, Keys, Feed!Rows

(* There are finitely many rows.                                           *)
LEMMA RowsAreFinite ==
    ASSUME NEW S, S \subseteq Feed!Rows
    PROVE  IsFiniteSet(S) /\ Cardinality(S) \in Nat
<1>1. IsFiniteSet(Feed!Rows)
  BY RowsAssumption, FS_Interval DEF Feed!Rows
<1>2. QED
  BY <1>1, FS_Subset, FS_CardinalityType

(* Pages has an instance of FiniteSets of its own.                         *)
LEMMA SameCardinality == \A S : Feed!Cardinality(S) = Cardinality(S)
  BY DEF Feed!Cardinality, Cardinality

(* The rank of a row counts the rows before it, so it grows along the      *)
(* order, and every place has its row.                                     *)
LEMMA RankGrows ==
    ASSUME NEW S, NEW key, Keyed(S, key), NEW r \in S, NEW s \in S
    PROVE  /\ Feed!Rank(key, r) \in 0..(Cardinality(S) - 1)
           /\ Feed!Before(key[r], key[s]) => Feed!Rank(key, r) < Feed!Rank(key, s)
           /\ r # s => Feed!Rank(key, r) # Feed!Rank(key, s)
           /\ Feed!Rank(key, r) < Feed!Rank(key, s) => Feed!Before(key[r], key[s])
<1> DEFINE Ahead(q) == {p \in S : Feed!Before(key[p], key[q])}
<1>1. /\ S = DOMAIN key
      /\ \A q \in S : key[q] \in Keys /\ key[q][3] = q
  BY DEF Keyed
<1>2. \A q \in S : Feed!Rank(key, q) = Cardinality(Ahead(q))
  BY <1>1, SameCardinality DEF Feed!Rank
<1>3. ASSUME NEW q \in S
      PROVE  IsFiniteSet(Ahead(q)) /\ Cardinality(Ahead(q)) \in Nat
  <2>1. Ahead(q) \subseteq Feed!Rows
    BY DEF Keyed
  <2> HIDE DEF Ahead
  <2>2. QED
    BY <2>1, RowsAreFinite
<1>4. ASSUME NEW p \in S, NEW q \in S, Feed!Before(key[p], key[q])
      PROVE  Cardinality(Ahead(p)) < Cardinality(Ahead(q))
  <2>1. Ahead(p) \subseteq Ahead(q)
    BY <1>1, <1>4, BeforeIsTransitive
  <2>2. p \in Ahead(q) /\ p \notin Ahead(p)
    BY <1>1, <1>4, BeforeIsIrreflexive
  <2> HIDE DEF Ahead
  <2>3. Ahead(p) \in SUBSET Ahead(q) /\ Ahead(p) # Ahead(q)
    BY <2>1, <2>2
  <2>4. /\ Cardinality(Ahead(p)) <= Cardinality(Ahead(q))
        /\ Cardinality(Ahead(q)) # Cardinality(Ahead(p))
    BY <1>3, <2>3, FS_Subset
  <2>5. QED
    BY <1>3, <2>4
<1>5. Cardinality(Ahead(r)) \in 0..(Cardinality(S) - 1)
  <2>1. Ahead(r) \subseteq S \ {r}
    BY <1>1, BeforeIsIrreflexive
  <2>2. IsFiniteSet(S) /\ Cardinality(S) \in Nat
    BY RowsAreFinite DEF Keyed
  <2>3. IsFiniteSet(S \ {r}) /\ Cardinality(S \ {r}) = Cardinality(S) - 1
    BY <2>2, FS_RemoveElement
  <2> HIDE DEF Ahead
  <2>4. Cardinality(Ahead(r)) <= Cardinality(S \ {r})
    BY <2>1, <2>3, FS_Subset
  <2>5. QED
    BY <1>3, <2>2, <2>3, <2>4
<1> HIDE DEF Ahead
<1>6. r # s => Feed!Before(key[r], key[s]) \/ Feed!Before(key[s], key[r])
  BY <1>1, BeforeIsTotal
<1>7. Feed!Before(key[r], key[s]) => Cardinality(Ahead(r)) < Cardinality(Ahead(s))
  BY <1>4
<1>8. Feed!Before(key[s], key[r]) => Cardinality(Ahead(s)) < Cardinality(Ahead(r))
  BY <1>4
<1>9. QED
  BY <1>2, <1>3, <1>5, <1>6, <1>7, <1>8

(* Ranks differ, so there are as many as rows, and none is left out.       *)
LEMMA EveryRankIsTaken ==
    ASSUME NEW S, NEW key, Keyed(S, key), NEW n \in 0..(Cardinality(S) - 1)
    PROVE  \E r \in S : Feed!Rank(key, r) = n
<1> DEFINE T == 0..(Cardinality(S) - 1)
           f == [r \in S |-> Feed!Rank(key, r)]
<1>1. IsFiniteSet(S) /\ Cardinality(S) \in Nat
  BY RowsAreFinite DEF Keyed
<1>2. IsFiniteSet(T) /\ Cardinality(T) = Cardinality(S)
  BY <1>1, FS_Interval
<1>3. f \in Injection(S, T)
  <2>1. f \in [S -> T]
    BY RankGrows
  <2>2. \A r, s \in S : f[r] = f[s] => r = s
    BY RankGrows
  <2> HIDE DEF f, T
  <2>3. QED
    BY <2>1, <2>2 DEF Injection, IsInjective
<1> HIDE DEF T
<1>4. f \in Surjection(S, T)
  <2> HIDE DEF f
  <2>1. QED
    BY <1>1, <1>2, <1>3, FS_Injection
<1>5. n \in T
  BY DEF T
<1>6. QED
  BY <1>4, <1>5 DEF Surjection

(* The rows of a page are the first of those ahead, in order.              *)
LEMMA FirstRowsInOrder ==
    ASSUME NEW S, NEW key, Keyed(S, key), NEW k \in Nat
    PROVE  LET page == Feed!FirstRows(k, key)
               n == IF k < Cardinality(S) THEN k ELSE Cardinality(S)
           IN  /\ n \in Nat /\ page \in [1..n -> S]
               /\ \A i \in 1..n : Feed!Rank(key, page[i]) = i - 1
               /\ \A i, j \in 1..n : page[i] = page[j] => i = j
               /\ \A i, j \in 1..n : i < j => Feed!Before(key[page[i]], key[page[j]])
               /\ \A r \in S : \/ \E i \in 1..n : page[i] = r
                               \/ /\ n = k /\ k < Cardinality(S)
                                  /\ \A i \in 1..n : Feed!Before(key[page[i]], key[r])
<1> DEFINE page == Feed!FirstRows(k, key)
           n == IF k < Cardinality(S) THEN k ELSE Cardinality(S)
           Nth(i) == CHOOSE r \in S : Feed!Rank(key, r) = i - 1
<1>1. Cardinality(S) \in Nat
  BY RowsAreFinite DEF Keyed
<1>2. n \in Nat /\ n <= Cardinality(S) /\ n <= k
  BY <1>1
<1>3. page = [i \in 1..n |-> Nth(i)]
  BY SameCardinality DEF Feed!FirstRows, Keyed
<1>4. ASSUME NEW i \in 1..n PROVE Nth(i) \in S /\ Feed!Rank(key, Nth(i)) = i - 1
  <2>1. i - 1 \in 0..(Cardinality(S) - 1)
    BY <1>1, <1>2
  <2>2. \E r \in S : Feed!Rank(key, r) = i - 1
    BY <2>1, EveryRankIsTaken
  <2>3. QED
    BY <2>2
<1> HIDE DEF Nth
<1>5. page \in [1..n -> S] /\ \A i \in 1..n : Feed!Rank(key, page[i]) = i - 1
  BY <1>3, <1>4
<1> HIDE DEF page, n
<1>6. \A i, j \in 1..n : page[i] = page[j] => i = j
  BY <1>2, <1>5
<1>7. \A i, j \in 1..n : i < j => Feed!Before(key[page[i]], key[page[j]])
  <2>1. SUFFICES ASSUME NEW i \in 1..n, NEW j \in 1..n, i < j
                 PROVE  Feed!Before(key[page[i]], key[page[j]])
    OBVIOUS
  <2>2. page[i] \in S /\ page[j] \in S /\ Feed!Rank(key, page[i]) < Feed!Rank(key, page[j])
    BY <1>2, <1>5, <2>1
  <2>3. QED
    BY <2>2, RankGrows
<1>8. ASSUME NEW r \in S, \A i \in 1..n : page[i] # r
      PROVE  n = k /\ k < Cardinality(S) /\ \A i \in 1..n : Feed!Before(key[page[i]], key[r])
  <2>1. Feed!Rank(key, r) \in 0..(Cardinality(S) - 1)
    BY RankGrows
  <2>2. ~(Feed!Rank(key, r) < n)
    <3>1. SUFFICES ASSUME Feed!Rank(key, r) < n PROVE FALSE
      OBVIOUS
    <3> DEFINE i == Feed!Rank(key, r) + 1
    <3>2. i \in 1..n /\ Feed!Rank(key, page[i]) = Feed!Rank(key, r)
      BY <1>1, <1>2, <1>5, <2>1, <3>1
    <3>3. page[i] \in S
      BY <1>5, <3>2
    <3>4. page[i] = r
      BY <3>2, <3>3, RankGrows
    <3>5. QED
      BY <1>8, <3>2, <3>4
  <2>3. n = k /\ k < Cardinality(S)
    BY <1>1, <2>1, <2>2 DEF n
  <2>4. ASSUME NEW i \in 1..n PROVE Feed!Before(key[page[i]], key[r])
    <3>1. page[i] \in S /\ Feed!Rank(key, page[i]) < Feed!Rank(key, r)
      BY <1>1, <1>2, <1>5, <2>1, <2>2
    <3>2. QED
      BY <3>1, RankGrows
  <2>5. QED
    BY <2>3, <2>4
<1>9. QED
  BY <1>2, <1>5, <1>6, <1>7, <1>8 DEF page, n

-----------------------------------------------------------------------------
(* A view, shown or being built.                                           *)

DatesPast ==
    \A r \in Feed!Rows :
        db.created[r] <= clock /\ db.published[r] <= clock /\ db.touched[r] <= clock

PagesTyped == list \in Feed!PagedLists /\ clock \in 0..MaxTime /\ db \in Feed!Db /\ DatesPast

NoRowTwiceIn(view) ==
    \A i, j \in DOMAIN view.pages :
        \A k \in DOMAIN view.pages[i].rows, l \in DOMAIN view.pages[j].rows :
            /\ view.pages[i].rows[k] = view.pages[j].rows[l]
            /\ view.pages[i].rows[k] \notin view.demoted
            => i = j /\ k = l

OnPages(view, r) ==
    \E i \in DOMAIN view.pages : \E k \in DOMAIN view.pages[i].rows : view.pages[i].rows[k] = r

(* The row is not after the cursor, and will not be.  A video that left    *)
(* the history has no place in it until it is watched again, and then it   *)
(* is in front.                                                            *)
Passed(r, cursor, asOf) ==
    \/ list = "history" /\ db.touched[r] = 0
    \/ ~Feed!Before(cursor, Feed!KeyOf(db, r, asOf))

OneRankingTime(view) ==
    Feed!LastPage(view).asOf = view.pages[1].asOf /\ view.pages[1].asOf <= clock

CursorPassed(view) ==
    Feed!LastPage(view).next # <<>> =>
        /\ \A r \in Feed!Rows \ view.demoted :
              OnPages(view, r) => Passed(r, Feed!LastPage(view).next, view.pages[1].asOf)
        /\ list = "history" =>
              Feed!LastPage(view).next[1] = 0 /\ Feed!LastPage(view).next[2] <= clock

SteadyKept(view) ==
    \A r \in view.steady :
        /\ r \in Feed!Selected(db, view.pages[1].asOf)
        /\ \/ OnPages(view, r)
           \/ /\ Feed!LastPage(view).next # <<>>
              /\ Feed!Before(Feed!LastPage(view).next, Feed!KeyOf(db, r, view.pages[1].asOf))

ViewOK(view) ==
    /\ view \in Feed!Views
    /\ view.pages # <<>> =>
          /\ OneRankingTime(view)
          /\ NoRowTwiceIn(view)
          /\ CursorPassed(view)
          /\ SteadyKept(view)

RequestsOK ==
    /\ request \in {"none", "more", "refetch"}
    /\ request = "more" => Feed!HasNextPage(shown)
    /\ building.pages # <<>> => request = "refetch" /\ Feed!HasNextPage(building)

PagesInv == PagesTyped /\ ViewOK(shown) /\ ViewOK(building) /\ RequestsOK

-----------------------------------------------------------------------------
(* The fields of a state of the database.                                  *)
LEMMA DbShape ==
    ASSUME NEW d \in Feed!Db, NEW r \in Feed!Rows
    PROVE  /\ d.state[r] \in Feed!States /\ d.follows \subseteq Feed!Channels
           /\ d.created[r] \in 0..MaxTime /\ d.published[r] \in 0..MaxTime
           /\ d.touched[r] \in 0..MaxTime
  BY DEF Feed!Db

(* Every list pages by keys that end with the row.                         *)
LEMMA KeysOfRows ==
    ASSUME list \in Feed!PagedLists, NEW d \in Feed!Db, NEW r \in Feed!Rows, NEW asOf \in Int
    PROVE  Feed!KeyOf(d, r, asOf) \in Keys /\ Feed!KeyOf(d, r, asOf)[3] = r
<1>1. /\ d.created[r] \in Nat /\ d.published[r] \in Nat /\ d.touched[r] \in Nat
      /\ Weight[r] \in Nat
  BY DbShape, RowsAssumption, PagesAssumption DEF Feed!Rows
<1>2. Feed!Freshness(asOf, d.published[r]) \in Int
  BY <1>1 DEF Feed!Freshness
<1>3. Feed!FeedScore(d, r, asOf) \in Int /\ Feed!SearchRank(d, r, asOf) \in Int
  BY <1>1, <1>2 DEF Feed!FeedScore, Feed!SearchRank
<1>4. QED
  BY <1>1, <1>3 DEF Feed!KeyOf, Feed!PagedLists, Feed!VideoLists, Keys

(* What a list selects are rows.                                           *)
LEMMA TopIsSubset == \A k, key : Feed!Top(k, key) \subseteq DOMAIN key
  BY DEF Feed!Top

LEMMA SelectedAreRows ==
    ASSUME list \in Feed!PagedLists, NEW d, NEW asOf
    PROVE  Feed!Selected(d, asOf) \subseteq Feed!Rows
<1>1. Feed!HomeCandidates(d, asOf) \subseteq Feed!Rows
  BY TopIsSubset
  DEF Feed!HomeCandidates, Feed!SubscriptionRows, Feed!Published, Feed!Recent, Feed!Popular
<1>2. QED
  BY <1>1
  DEF Feed!Selected, Feed!PagedLists, Feed!VideoLists, Feed!Subscriptions, Feed!ChannelVideos,
      Feed!PublicVideos, Feed!SearchResults, Feed!StudioVideos, Feed!History, Feed!Comments,
      Feed!Playlists

AheadOf(view) ==
    {r \in Feed!Selected(db, Feed!RankingTime(view)) :
         \/ view.pages = <<>>
         \/ Feed!IsAfter(Feed!LastPage(view).next, Feed!KeyOf(db, r, Feed!RankingTime(view)))}

(* The last page of a view that has one.                                   *)
LEMMA LastPageIsPage ==
    ASSUME NEW view \in Feed!Views, view.pages # <<>>
    PROVE  /\ Len(view.pages) \in DOMAIN view.pages
           /\ 1 \in DOMAIN view.pages
           /\ Feed!LastPage(view) = view.pages[Len(view.pages)]
           /\ Feed!LastPage(view) \in Feed!PageRecords
           /\ view.pages[1] \in Feed!PageRecords
  BY DEF Feed!Views, Feed!LastPage

(* A view is ranked at a time that has been.                               *)
LEMMA RankingTimeIsTime ==
    ASSUME PagesTyped, NEW view \in Feed!Views
    PROVE  Feed!RankingTime(view) \in 0..MaxTime
  BY LastPageIsPage DEF PagesTyped, Feed!RankingTime, Feed!PageRecords

(* What a page has of the rows ahead, and what its cursor says of them.    *)
LEMMA NextPageFacts ==
    ASSUME PagesTyped, NEW view \in Feed!Views
    PROVE  LET p == Feed!NextPage(view)
               asOf == Feed!RankingTime(view)
           IN  /\ p \in Feed!PageRecords /\ p.asOf = asOf
               /\ \A i \in DOMAIN p.rows : p.rows[i] \in AheadOf(view)
               /\ \A i, j \in DOMAIN p.rows : p.rows[i] = p.rows[j] => i = j
               /\ p.next # <<>> =>
                     /\ p.next \in Keys
                     /\ \E r \in AheadOf(view) : p.next = Feed!KeyOf(db, r, asOf)
                     /\ \A i \in DOMAIN p.rows :
                           ~Feed!Before(p.next, Feed!KeyOf(db, p.rows[i], asOf))
               /\ \A r \in AheadOf(view) :
                     \/ \E i \in DOMAIN p.rows : p.rows[i] = r
                     \/ p.next # <<>> /\ Feed!Before(p.next, Feed!KeyOf(db, r, asOf))
<1> DEFINE p == Feed!NextPage(view)
           asOf == Feed!RankingTime(view)
           S == AheadOf(view)
           key == [r \in S |-> Feed!KeyOf(db, r, asOf)]
           rows == Feed!FirstRows(Limit, key)
           n == IF Limit < Cardinality(S) THEN Limit ELSE Cardinality(S)
<1>1. p = [rows |-> rows, asOf |-> asOf,
           next |-> IF Cardinality(S) > Limit
                    THEN Feed!KeyOf(db, rows[Len(rows)], asOf) ELSE <<>>]
  BY SameCardinality DEF Feed!NextPage, AheadOf
<1>2. asOf \in 0..MaxTime /\ asOf \in Int
  BY RankingTimeIsTime
<1>3. S \subseteq Feed!Rows
  BY SelectedAreRows DEF AheadOf, PagesTyped
<1>4. \A r \in S : Feed!KeyOf(db, r, asOf) \in Keys /\ Feed!KeyOf(db, r, asOf)[3] = r
  BY <1>2, <1>3, KeysOfRows DEF PagesTyped
<1> HIDE DEF asOf, S
<1>5. Keyed(S, key)
  BY <1>3, <1>4 DEF Keyed
<1>6. Limit \in Nat \ {0} /\ Cardinality(S) \in Nat
  BY <1>3, PagesAssumption, RowsAreFinite
<1>7. /\ n \in Nat /\ rows \in [1..n -> S]
      /\ \A i, j \in 1..n : rows[i] = rows[j] => i = j
      /\ \A i, j \in 1..n : i < j => Feed!Before(key[rows[i]], key[rows[j]])
      /\ \A r \in S : \/ \E i \in 1..n : rows[i] = r
                      \/ /\ n = Limit /\ Limit < Cardinality(S)
                         /\ \A i \in 1..n : Feed!Before(key[rows[i]], key[r])
  <2> HIDE DEF key
  <2>1. QED
    BY <1>5, <1>6, FirstRowsInOrder
<1> HIDE DEF rows, p
<1>8. rows \in Seq(Feed!Rows) /\ Len(rows) = n /\ DOMAIN rows = 1..n
  BY <1>3, <1>7
<1>9. ASSUME Cardinality(S) > Limit
      PROVE  /\ n = Limit /\ n \in 1..n /\ rows[n] \in S
             /\ p.next = Feed!KeyOf(db, rows[n], asOf) /\ p.next \in Keys
             /\ \A i \in 1..n : ~Feed!Before(p.next, Feed!KeyOf(db, rows[i], asOf))
             /\ \A r \in S : (\A i \in 1..n : rows[i] # r) =>
                                Feed!Before(p.next, Feed!KeyOf(db, r, asOf))
  <2>1. n = Limit /\ n \in 1..n /\ rows[n] \in S
    BY <1>6, <1>7, <1>9
  <2>2. p.next = Feed!KeyOf(db, rows[n], asOf) /\ p.next \in Keys
    BY <1>1, <1>4, <1>8, <1>9, <2>1
  <2>3. ASSUME NEW i \in 1..n PROVE ~Feed!Before(p.next, Feed!KeyOf(db, rows[i], asOf))
    <3>1. rows[i] \in S /\ Feed!KeyOf(db, rows[i], asOf) \in Keys
      BY <1>4, <1>7
    <3>2. CASE i = n
      BY <2>1, <2>2, <3>1, <3>2, BeforeIsIrreflexive
    <3>3. CASE i < n
      <4>1. Feed!Before(key[rows[i]], key[rows[n]])
        BY <1>7, <2>1, <3>3
      <4>2. QED
        BY <2>1, <2>2, <3>1, <4>1, BeforeIsIrreflexive
    <3>4. QED
      BY <1>7, <3>2, <3>3
  <2>4. ASSUME NEW r \in S, \A i \in 1..n : rows[i] # r
        PROVE  Feed!Before(p.next, Feed!KeyOf(db, r, asOf))
    <3>1. Feed!Before(key[rows[n]], key[r])
      <4> HIDE DEF key, n
      <4>1. QED
        BY <1>7, <2>1, <2>4
    <3>2. QED
      BY <2>1, <2>2, <3>1
  <2>5. QED
    BY <2>1, <2>2, <2>3, <2>4
<1>10. ASSUME ~(Cardinality(S) > Limit)
       PROVE  p.next = <<>> /\ \A r \in S : \E i \in 1..n : rows[i] = r
  <2> HIDE DEF n, key
  <2>1. p.next = <<>>
    BY <1>1, <1>10
  <2>2. QED
    BY <1>6, <1>7, <1>10, <2>1
<1>11. p \in Feed!PageRecords /\ p.asOf = asOf /\ p.rows = rows
  <2>1. p.next \in {<<>>} \cup (Int \X Nat \X Feed!Rows)
    BY <1>9, <1>10 DEF Keys
  <2>2. QED
    BY <1>1, <1>2, <1>8, <2>1 DEF Feed!PageRecords
<1>12. ASSUME p.next # <<>>
       PROVE  /\ p.next \in Keys
              /\ \E r \in S : p.next = Feed!KeyOf(db, r, asOf)
              /\ \A i \in DOMAIN p.rows : ~Feed!Before(p.next, Feed!KeyOf(db, p.rows[i], asOf))
  BY <1>8, <1>9, <1>10, <1>11, <1>12
<1>13. ASSUME NEW r \in S
       PROVE  \/ \E i \in DOMAIN p.rows : p.rows[i] = r
              \/ p.next # <<>> /\ Feed!Before(p.next, Feed!KeyOf(db, r, asOf))
  <2>1. CASE Cardinality(S) > Limit
    <3>1. p.next # <<>>
      BY <1>9, <2>1 DEF Keys
    <3>2. QED
      BY <1>8, <1>9, <1>11, <2>1, <3>1
  <2>2. CASE ~(Cardinality(S) > Limit)
    BY <1>8, <1>10, <1>11, <2>2
  <2>3. QED
    BY <2>1, <2>2
<1>14. QED
  BY <1>7, <1>8, <1>11, <1>12, <1>13 DEF p, asOf, S

(* A view with a next page has a cursor.                                   *)
LEMMA CursorIsKey ==
    ASSUME NEW view \in Feed!Views, Feed!HasNextPage(view)
    PROVE  Feed!LastPage(view).next \in Keys
  BY LastPageIsPage DEF Feed!HasNextPage, Feed!PageRecords, Keys

(* A row that is ahead of a view is not on it.                             *)
LEMMA AheadIsNew ==
    ASSUME PagesTyped, NEW view, ViewOK(view), Feed!HasNextPage(view),
           NEW r \in AheadOf(view), r \notin view.demoted
    PROVE  ~OnPages(view, r)
<1> DEFINE next == Feed!LastPage(view).next
           asOf == view.pages[1].asOf
<1>1. view.pages # <<>> /\ next # <<>>
  BY DEF Feed!HasNextPage
<1>2. Feed!RankingTime(view) = asOf
  BY <1>1 DEF ViewOK, OneRankingTime, Feed!RankingTime
<1>3. r \in Feed!Selected(db, asOf) /\ Feed!Before(next, Feed!KeyOf(db, r, asOf))
  BY <1>1, <1>2 DEF AheadOf, Feed!IsAfter
<1>4. r \in Feed!Rows
  BY <1>3, SelectedAreRows DEF PagesTyped
<1>5. list = "history" => db.touched[r] # 0
  BY <1>3 DEF Feed!Selected, Feed!History
<1>6. OnPages(view, r) => Passed(r, next, asOf)
  BY <1>1, <1>4 DEF ViewOK, CursorPassed
<1>7. QED
  BY <1>3, <1>5, <1>6 DEF Passed

(* The history pages by the time of the last look.                         *)
LEMMA HistoryCursor ==
    ASSUME PagesTyped, list = "history", NEW r \in Feed!Rows, NEW asOf
    PROVE  Feed!KeyOf(db, r, asOf)[1] = 0 /\ Feed!KeyOf(db, r, asOf)[2] <= clock
  BY DEF PagesTyped, DatesPast, Feed!KeyOf

(* The first page of a view.                                               *)
LEMMA FirstPageOK ==
    ASSUME PagesTyped, NEW view, ViewOK(view), view.pages = <<>>
    PROVE  ViewOK(Feed!Extended(view))
<1> DEFINE p == Feed!NextPage(view)
           new == Feed!Extended(view)
<1>1. new = [pages |-> <<p>>, steady |-> Feed!Selected(db, clock), demoted |-> {}]
  BY DEF Feed!Extended, Feed!NoView
<1>2. view \in Feed!Views /\ Feed!RankingTime(view) = clock
  BY DEF ViewOK, Feed!RankingTime
<1>3. AheadOf(view) = Feed!Selected(db, clock)
  BY <1>2 DEF AheadOf
<1>4. /\ p \in Feed!PageRecords /\ p.asOf = clock
      /\ \A i \in DOMAIN p.rows : p.rows[i] \in Feed!Selected(db, clock)
      /\ \A i, j \in DOMAIN p.rows : p.rows[i] = p.rows[j] => i = j
      /\ p.next # <<>> =>
            /\ p.next \in Keys
            /\ \E r \in Feed!Selected(db, clock) : p.next = Feed!KeyOf(db, r, clock)
            /\ \A i \in DOMAIN p.rows : ~Feed!Before(p.next, Feed!KeyOf(db, p.rows[i], clock))
      /\ \A r \in Feed!Selected(db, clock) :
            \/ \E i \in DOMAIN p.rows : p.rows[i] = r
            \/ p.next # <<>> /\ Feed!Before(p.next, Feed!KeyOf(db, r, clock))
  <2> HIDE DEF p
  <2>1. QED
    BY <1>2, <1>3, NextPageFacts DEF p
<1> HIDE DEF p, new
<1>5. Feed!Selected(db, clock) \subseteq Feed!Rows
  BY SelectedAreRows DEF PagesTyped
<1>6. /\ new.pages = <<p>> /\ new.pages # <<>> /\ DOMAIN new.pages = {1}
      /\ new.pages[1] = p /\ Feed!LastPage(new) = p
      /\ new.steady = Feed!Selected(db, clock)
  BY <1>1 DEF Feed!LastPage
<1>7. new \in Feed!Views
  BY <1>1, <1>4, <1>5 DEF Feed!Views
<1>8. OneRankingTime(new)
  BY <1>4, <1>6 DEF OneRankingTime, PagesTyped
<1>9. NoRowTwiceIn(new)
  BY <1>4, <1>6 DEF NoRowTwiceIn
<1>10. \A r : OnPages(new, r) <=> \E i \in DOMAIN p.rows : p.rows[i] = r
  BY <1>6 DEF OnPages
<1>11. CursorPassed(new)
  BY <1>4, <1>5, <1>6, <1>10, HistoryCursor DEF CursorPassed, Passed
<1>12. SteadyKept(new)
  BY <1>4, <1>6, <1>10 DEF SteadyKept
<1>13. QED
  BY <1>7, <1>8, <1>9, <1>11, <1>12 DEF ViewOK, new

(* A page more.                                                            *)
LEMMA NextPageOK ==
    ASSUME PagesTyped, NEW view, ViewOK(view), Feed!HasNextPage(view)
    PROVE  ViewOK(Feed!Extended(view))
<1> DEFINE p == Feed!NextPage(view)
           new == Feed!Extended(view)
           asOf == view.pages[1].asOf
           next == Feed!LastPage(view).next
           n == Len(view.pages)
<1>1. /\ view \in Feed!Views /\ view.pages # <<>> /\ next # <<>>
      /\ new = [view EXCEPT !.pages = Append(@, p)]
      /\ OneRankingTime(view) /\ CursorPassed(view) /\ SteadyKept(view)
      /\ NoRowTwiceIn(view)
  BY DEF ViewOK, Feed!HasNextPage, Feed!Extended
<1>2. Feed!RankingTime(view) = asOf /\ asOf \in 0..MaxTime
  BY <1>1, RankingTimeIsTime DEF OneRankingTime, Feed!RankingTime
<1>3. /\ p \in Feed!PageRecords /\ p.asOf = asOf
      /\ \A i \in DOMAIN p.rows : p.rows[i] \in AheadOf(view)
      /\ \A i, j \in DOMAIN p.rows : p.rows[i] = p.rows[j] => i = j
      /\ p.next # <<>> =>
            /\ p.next \in Keys
            /\ \E r \in AheadOf(view) : p.next = Feed!KeyOf(db, r, asOf)
            /\ \A i \in DOMAIN p.rows : ~Feed!Before(p.next, Feed!KeyOf(db, p.rows[i], asOf))
      /\ \A r \in AheadOf(view) :
            \/ \E i \in DOMAIN p.rows : p.rows[i] = r
            \/ p.next # <<>> /\ Feed!Before(p.next, Feed!KeyOf(db, r, asOf))
  <2> HIDE DEF p, asOf
  <2>1. QED
    BY <1>1, <1>2, NextPageFacts DEF p
<1>4. next \in Keys
  BY <1>1, CursorIsKey
<1> HIDE DEF p, new, next, asOf
<1>5. /\ n \in Nat \ {0} /\ DOMAIN view.pages = 1..n
      /\ new.pages = Append(view.pages, p) /\ new.pages # <<>>
      /\ Len(new.pages) = n + 1 /\ DOMAIN new.pages = 1..(n + 1)
      /\ \A i \in 1..n : new.pages[i] = view.pages[i]
      /\ new.pages[n + 1] = p /\ new.pages[1].asOf = asOf
      /\ Feed!LastPage(new) = p
      /\ new.steady = view.steady /\ new.demoted = view.demoted
  BY <1>1, <1>3 DEF Feed!Views, Feed!LastPage, asOf
<1> HIDE DEF n
<1>6. \A r \in AheadOf(view) :
         /\ r \in Feed!Rows /\ r \in Feed!Selected(db, asOf)
         /\ Feed!Before(next, Feed!KeyOf(db, r, asOf))
  BY <1>1, <1>2, SelectedAreRows DEF AheadOf, Feed!IsAfter, next, PagesTyped
<1>7. new \in Feed!Views
  <2>1. new.pages \in Seq(Feed!PageRecords)
    BY <1>1, <1>3, <1>5 DEF Feed!Views
  <2>2. new = [view EXCEPT !.pages = new.pages]
    BY <1>1, <1>5
  <2> HIDE DEF Feed!PageRecords
  <2>3. QED
    BY <1>1, <2>1, <2>2 DEF Feed!Views
<1>8. OneRankingTime(new)
  BY <1>1, <1>3, <1>5 DEF OneRankingTime, asOf
<1>9. \A r : OnPages(new, r) <=>
                 OnPages(view, r) \/ \E i \in DOMAIN p.rows : p.rows[i] = r
  BY <1>5 DEF OnPages
<1>10. NoRowTwiceIn(new)
  <2>1. DOMAIN new.pages = 1..(n + 1) /\ new.demoted = view.demoted
    BY <1>5
  <2>2. SUFFICES ASSUME NEW i \in 1..(n + 1), NEW j \in 1..(n + 1),
                        NEW k \in DOMAIN new.pages[i].rows, NEW l \in DOMAIN new.pages[j].rows,
                        new.pages[i].rows[k] = new.pages[j].rows[l],
                        new.pages[i].rows[k] \notin view.demoted
                 PROVE  i = j /\ k = l
    BY <2>1 DEF NoRowTwiceIn
  <2>3. ASSUME NEW h \in 1..n, NEW m \in DOMAIN view.pages[h].rows,
               view.pages[h].rows[m] \notin view.demoted
        PROVE  view.pages[h].rows[m] \notin AheadOf(view)
    <3>1. OnPages(view, view.pages[h].rows[m])
      BY <1>5 DEF OnPages
    <3>2. QED
      BY <1>1, <2>3, <3>1, AheadIsNew DEF Feed!HasNextPage
  <2>4. CASE i \in 1..n /\ j \in 1..n
    BY <1>1, <1>5, <2>2, <2>4 DEF NoRowTwiceIn
  <2>5. CASE i \in 1..n /\ j = n + 1
    BY <1>3, <1>5, <2>2, <2>3, <2>5
  <2>6. CASE i = n + 1 /\ j \in 1..n
    BY <1>3, <1>5, <2>2, <2>3, <2>6
  <2>7. CASE i = n + 1 /\ j = n + 1
    BY <1>3, <1>5, <2>2, <2>7
  <2>8. QED
    BY <1>5, <2>4, <2>5, <2>6, <2>7
<1>11. CursorPassed(new)
  <2>1. SUFFICES ASSUME p.next # <<>>
                 PROVE  /\ \A r \in Feed!Rows \ view.demoted :
                               OnPages(new, r) => Passed(r, p.next, asOf)
                        /\ list = "history" => p.next[1] = 0 /\ p.next[2] <= clock
    BY <1>5 DEF CursorPassed
  <2>2. PICK q \in AheadOf(view) : p.next = Feed!KeyOf(db, q, asOf)
    BY <1>3, <2>1
  <2>3. p.next \in Keys /\ Feed!Before(next, p.next)
    BY <1>3, <1>6, <2>1, <2>2
  <2>4. ASSUME NEW r \in Feed!Rows \ view.demoted, OnPages(new, r)
        PROVE  Passed(r, p.next, asOf)
    <3>1. Feed!KeyOf(db, r, asOf) \in Keys
      BY <1>2, KeysOfRows DEF PagesTyped
    <3>2. CASE OnPages(view, r)
      <4>1. Passed(r, next, asOf)
        BY <1>1, <1>5, <2>4, <3>2 DEF CursorPassed, next, asOf
      <4>2. Feed!Before(p.next, Feed!KeyOf(db, r, asOf))
               => Feed!Before(next, Feed!KeyOf(db, r, asOf))
        BY <1>4, <2>3, <3>1, BeforeIsTransitive
      <4>3. QED
        BY <4>1, <4>2 DEF Passed
    <3>3. CASE \E i \in DOMAIN p.rows : p.rows[i] = r
      BY <1>3, <2>1, <3>3 DEF Passed
    <3>4. QED
      BY <1>9, <2>4, <3>2, <3>3
  <2>5. list = "history" => p.next[1] = 0 /\ p.next[2] <= clock
    BY <1>6, <2>2, HistoryCursor
  <2>6. QED
    BY <2>4, <2>5
<1>12. SteadyKept(new)
  <2>1. SUFFICES ASSUME NEW r \in view.steady
                 PROVE  /\ r \in Feed!Selected(db, asOf)
                        /\ \/ OnPages(new, r)
                           \/ p.next # <<>> /\ Feed!Before(p.next, Feed!KeyOf(db, r, asOf))
    BY <1>5 DEF SteadyKept
  <2>2. r \in Feed!Selected(db, asOf)
        /\ (OnPages(view, r) \/ Feed!Before(next, Feed!KeyOf(db, r, asOf)))
    BY <1>1 DEF SteadyKept, next, asOf
  <2>3. CASE OnPages(view, r)
    BY <1>9, <2>2, <2>3
  <2>4. CASE Feed!Before(next, Feed!KeyOf(db, r, asOf))
    <3>1. r \in AheadOf(view)
      BY <1>2, <2>2, <2>4 DEF AheadOf, Feed!IsAfter, next
    <3>2. QED
      BY <1>3, <1>9, <2>2, <3>1
  <2>5. QED
    BY <2>2, <2>3, <2>4
<1>13. QED
  BY <1>7, <1>8, <1>10, <1>11, <1>12 DEF ViewOK, new

-----------------------------------------------------------------------------
(* The changes.                                                            *)

(* No change is dated later than its moment.  Dates of upload and of being *)
(* watched only go on; only a playlist cannot lose its date.               *)
Advances(new) ==
    /\ new \in Feed!Db
    /\ \A r \in Feed!Rows :
          /\ new.created[r] \in {db.created[r], Feed!Now}
          /\ new.published[r] <= Feed!Now
          /\ \/ new.touched[r] \in {db.touched[r], Feed!Now}
             \/ new.touched[r] = 0 /\ list # "playlists"

(* Every change advances the rows so.                                      *)
LEMMA ChangesAdvance ==
    ASSUME PagesTyped, Feed!Change
    PROVE  \E new : Feed!Becomes(new) /\ Advances(new)
<1> USE PagesAssumption DEF PagesTyped
<1> DEFINE Done == \E new : Feed!Becomes(new) /\ Advances(new)
<1>1. ASSUME NEW new \in Feed!Db, Feed!Becomes(new), Advances(new) PROVE Done
  BY <1>1
<1>2. /\ Feed!Now <= MaxTime => Feed!Now \in 0..MaxTime
      /\ clock \in Nat /\ Feed!Now = clock + 1
      /\ \A r \in Feed!Rows : db.published[r] \in 0..MaxTime /\ db.published[r] <= Feed!Now
  BY DbShape DEF Feed!Now, DatesPast
<1>3. ASSUME NEW f \in SUBSET Feed!Channels, Feed!Becomes([db EXCEPT !.follows = f])
      PROVE  Done
  <2>1. Advances([db EXCEPT !.follows = f])
    BY <1>2 DEF Advances, Feed!Db
  <2>2. QED
    BY <1>3, <2>1
<1>4. ASSUME NEW r \in Feed!Rows, Feed!Upload(r) PROVE Done
  <2>1. PICK new : /\ new = [db EXCEPT !.state[r] = "PROCESSING", !.created[r] = Feed!Now]
                   /\ Feed!Becomes(new)
    BY <1>4 DEF Feed!Upload
  <2>2. Feed!Now \in 0..MaxTime
    BY <1>2, <2>1 DEF Feed!Becomes
  <2>3. Advances(new)
    BY <1>2, <2>1, <2>2 DEF Advances, Feed!Db, Feed!States
  <2>4. QED
    BY <2>1, <2>3
<1>5. ASSUME NEW r \in Feed!Rows, NEW visibility \in {"PUBLIC", "UNLISTED", "PRIVATE"},
             NEW date, date \in 0..clock \cup {db.published[r], Feed!Now},
             Feed!Becomes([db EXCEPT !.state[r] = visibility, !.published[r] = date])
      PROVE  Done
  <2> DEFINE new == [db EXCEPT !.state[r] = visibility, !.published[r] = date]
  <2>1. Feed!Now \in 0..MaxTime
    BY <1>2, <1>5 DEF Feed!Becomes
  <2>2. date \in 0..MaxTime /\ date <= Feed!Now
    BY <1>2, <1>5, <2>1
  <2>3. new \in Feed!Db
    BY <2>2 DEF Feed!Db, Feed!States
  <2>4. Advances(new)
    BY <1>2, <2>2, <2>3 DEF Advances, Feed!Db
  <2> HIDE DEF new
  <2>5. QED
    BY <1>5, <2>4 DEF new
<1>6. ASSUME NEW r \in Feed!Rows, Feed!DeleteVideo(r) PROVE Done
  <2>1. PICK new : /\ new = [db EXCEPT !.state[r] = "deleted", !.touched[r] = 0]
                   /\ Feed!Becomes(new) /\ list # "playlists"
    BY <1>6 DEF Feed!DeleteVideo, Feed!VideoLists
  <2>2. Advances(new)
    <3>1. 0 \in 0..MaxTime
      OBVIOUS
    <3>2. new \in Feed!Db
      BY <2>1, <3>1 DEF Feed!Db, Feed!States
    <3>3. QED
      BY <1>2, <2>1, <3>2 DEF Advances, Feed!Db
  <2>3. QED
    BY <2>1, <2>2
<1>7. ASSUME NEW r \in Feed!Rows, NEW date \in {0, Feed!Now}, date = 0 => list # "playlists",
             Feed!Becomes([db EXCEPT !.touched[r] = date])
      PROVE  Done
  <2>1. Feed!Now \in 0..MaxTime
    BY <1>2, <1>7 DEF Feed!Becomes
  <2>2. Advances([db EXCEPT !.touched[r] = date])
    BY <1>2, <1>7, <2>1 DEF Advances, Feed!Db
  <2>3. QED
    BY <1>7, <2>2
<1>8. ASSUME NEW r \in Feed!Rows, Feed!PostComment(r) PROVE Done
  <2>1. PICK new : /\ new = [db EXCEPT !.state[r] = "PUBLIC", !.created[r] = Feed!Now]
                   /\ Feed!Becomes(new)
    BY <1>8 DEF Feed!PostComment
  <2>2. Feed!Now \in 0..MaxTime
    BY <1>2, <2>1 DEF Feed!Becomes
  <2>3. Advances(new)
    BY <1>2, <2>1, <2>2 DEF Advances, Feed!Db, Feed!States
  <2>4. QED
    BY <2>1, <2>3
<1>9. ASSUME NEW r \in Feed!Rows, Feed!Becomes([db EXCEPT !.state[r] = "deleted"]) PROVE Done
  <2>1. Advances([db EXCEPT !.state[r] = "deleted"])
    BY <1>2 DEF Advances, Feed!Db, Feed!States
  <2>2. QED
    BY <1>9, <2>1
<1>10. ASSUME NEW r \in Feed!Rows, Feed!CreatePlaylist(r) PROVE Done
  <2>1. PICK new : /\ new = [db EXCEPT !.state[r] = "PUBLIC", !.touched[r] = Feed!Now]
                   /\ Feed!Becomes(new)
    BY <1>10 DEF Feed!CreatePlaylist
  <2>2. Feed!Now \in 0..MaxTime
    BY <1>2, <2>1 DEF Feed!Becomes
  <2>3. Advances(new)
    BY <1>2, <2>1, <2>2 DEF Advances, Feed!Db, Feed!States
  <2>4. QED
    BY <2>1, <2>3
<1> HIDE DEF Done
<1>11. QED
  <2>1. ASSUME NEW c \in Feed!Channels, Feed!Subscribe(c) \/ Feed!Unsubscribe(c) PROVE Done
    <3>1. db.follows \subseteq Feed!Channels
      BY DEF Feed!Db
    <3>2. PICK f \in SUBSET Feed!Channels : Feed!Becomes([db EXCEPT !.follows = f])
      BY <2>1, <3>1 DEF Feed!Subscribe, Feed!Unsubscribe
    <3>3. QED
      BY <1>3, <3>2
  <2>2. ASSUME NEW r \in Feed!Rows,
               \/ Feed!Watch(r) \/ Feed!Forget(r) \/ Feed!ChangePlaylist(r)
        PROVE  Done
    BY <1>7, <2>2 DEF Feed!Watch, Feed!Forget, Feed!ChangePlaylist, Feed!Now
  <2>3. ASSUME NEW r \in Feed!Rows, Feed!DeleteComment(r) \/ Feed!DeletePlaylist(r)
        PROVE  Done
    BY <1>9, <2>3 DEF Feed!DeleteComment, Feed!DeletePlaylist
  <2>4. ASSUME NEW r \in Feed!Rows, Feed!Release(r) PROVE Done
    <3>1. PICK visibility \in {"PUBLIC", "UNLISTED", "PRIVATE"} :
             Feed!Becomes([db EXCEPT !.state[r] = visibility,
                             !.published[r] = IF visibility = "PUBLIC" /\ @ = 0
                                              THEN Feed!Now ELSE @])
      BY <2>4 DEF Feed!Release
    <3> DEFINE date == IF visibility = "PUBLIC" /\ db.published[r] = 0 THEN Feed!Now
                       ELSE db.published[r]
    <3>2. Feed!Becomes([db EXCEPT !.state[r] = visibility, !.published[r] = date])
      BY <3>1
    <3>3. date \in {db.published[r], Feed!Now}
      OBVIOUS
    <3> HIDE DEF date
    <3>4. QED
      BY <1>5, <3>2, <3>3
  <2>5. ASSUME NEW r \in Feed!Rows, Feed!LateSave(r) PROVE Done
    <3>1. PICK visibility \in {"PUBLIC", "UNLISTED", "PRIVATE"},
               date \in {0} \cup db.created[r]..clock :
             Feed!Becomes([db EXCEPT !.state[r] = visibility, !.published[r] = date])
      BY <2>5 DEF Feed!LateSave
    <3>2. date \in 0..clock
      BY <1>2, DbShape
    <3>3. QED
      BY <1>5, <3>1, <3>2
  <2>6. QED
    BY <1>4, <1>6, <1>8, <1>10, <2>1, <2>2, <2>3, <2>4, <2>5 DEF Feed!Change, Done

(* A row that changes keeps its key, or comes before it, unless the change *)
(* demotes it.                                                             *)
LEMMA KeysOnlyGrow ==
    ASSUME PagesTyped, NEW new, Advances(new), NEW r \in Feed!Rows, NEW asOf \in 0..clock,
           r \notin Feed!DatedBack(new), r \notin Feed!Unboosted(new, asOf),
           list = "history" => new.touched[r] \in {db.touched[r], Feed!Now}
    PROVE  LET old == Feed!KeyOf(db, r, asOf)
               key == Feed!KeyOf(new, r, asOf)
           IN  key = old \/ Feed!Before(key, old)
<1> USE DEF PagesTyped
<1>1. /\ db \in Feed!Db /\ new \in Feed!Db /\ clock \in Nat /\ asOf \in Nat /\ asOf <= clock
      /\ Feed!Now = clock + 1
  BY PagesAssumption DEF Advances, Feed!Now
<1>2. /\ db.created[r] \in Nat /\ db.published[r] \in Nat /\ db.touched[r] \in Nat
      /\ db.created[r] <= clock /\ db.published[r] <= clock /\ db.touched[r] <= clock
      /\ Weight[r] \in Nat
  BY <1>1, DbShape, RowsAssumption, PagesAssumption DEF DatesPast, Feed!Rows
<1>3. /\ new.created[r] \in {db.created[r], clock + 1}
      /\ new.published[r] \in Nat /\ new.published[r] >= db.published[r]
      /\ \/ new.touched[r] \in {db.touched[r], clock + 1}
         \/ new.touched[r] = 0 /\ list # "playlists"
  <2>1. new.published[r] \in Nat
    BY <1>1, DbShape, PagesAssumption
  <2>2. new.published[r] >= db.published[r]
    BY <1>2, <2>1 DEF Feed!DatedBack
  <2>3. QED
    BY <1>1, <2>1, <2>2 DEF Advances
<1>4. /\ Feed!Freshness(asOf, db.published[r]) \in Nat
      /\ Feed!Freshness(asOf, new.published[r]) \in Nat
      /\ Feed!Freshness(asOf, new.published[r]) >= Feed!Freshness(asOf, db.published[r])
  BY <1>1, <1>2, <1>3 DEF Feed!Freshness
<1>5. CASE list = "home"
  <2>1. Feed!WatchedRecently(new, r, asOf) => Feed!WatchedRecently(db, r, asOf)
    BY <1>1, <1>2, <1>3 DEF Feed!WatchedRecently
  <2>2. ChannelOf[r] \in Feed!Subscribed(db, asOf) => ChannelOf[r] \in Feed!Subscribed(new, asOf)
    BY <1>5 DEF Feed!Unboosted
  <2>3. /\ Feed!FeedScore(db, r, asOf) \in Int /\ Feed!FeedScore(new, r, asOf) \in Int
        /\ Feed!FeedScore(new, r, asOf) >= Feed!FeedScore(db, r, asOf)
    BY <1>2, <1>4, <2>1, <2>2 DEF Feed!FeedScore
  <2>4. QED
    BY <1>2, <1>3, <1>5, <2>3 DEF Feed!KeyOf, Feed!Before
<1>6. CASE list = "search"
  <2>1. /\ Feed!SearchRank(db, r, asOf) \in Int /\ Feed!SearchRank(new, r, asOf) \in Int
        /\ Feed!SearchRank(new, r, asOf) >= Feed!SearchRank(db, r, asOf)
    BY <1>2, <1>4 DEF Feed!SearchRank
  <2>2. QED
    BY <1>2, <1>3, <1>6, <2>1 DEF Feed!KeyOf, Feed!Before
<1>7. CASE list \in {"subscriptions", "channel", "public"}
  BY <1>1, <1>2, <1>3, <1>7 DEF Feed!KeyOf, Feed!Before
<1>8. CASE list \in {"studio", "comments"}
  BY <1>1, <1>2, <1>3, <1>8 DEF Feed!KeyOf, Feed!Before
<1>9. CASE list \in {"history", "playlists"}
  BY <1>1, <1>2, <1>3, <1>9 DEF Feed!KeyOf, Feed!Before
<1>10. QED
  BY <1>5, <1>6, <1>7, <1>8, <1>9 DEF Feed!PagedLists, Feed!VideoLists

(* What a change does to a row that the cursor has passed.                 *)
LEMMA PassedStaysPassed ==
    ASSUME PagesTyped, NEW new, Advances(new), NEW r \in Feed!Rows, NEW asOf \in 0..clock,
           NEW cursor \in Keys, Passed(r, cursor, asOf),
           r \notin Feed!DatedBack(new), r \notin Feed!Unboosted(new, asOf),
           list = "history" => cursor[1] = 0 /\ cursor[2] <= clock
    PROVE  \/ list = "history" /\ new.touched[r] = 0
           \/ ~Feed!Before(cursor, Feed!KeyOf(new, r, asOf))
<1>1. asOf \in Int /\ clock \in Nat /\ Feed!Now = clock + 1
  BY PagesAssumption DEF PagesTyped, Feed!Now
<1>2. Feed!KeyOf(db, r, asOf) \in Keys /\ Feed!KeyOf(new, r, asOf) \in Keys
  BY <1>1, KeysOfRows DEF PagesTyped, Advances
<1>3. \/ new.touched[r] \in {db.touched[r], Feed!Now}
      \/ new.touched[r] = 0
  BY DEF Advances
<1>4. CASE list = "history" /\ new.touched[r] = 0
  BY <1>4
<1>5. CASE list = "history" /\ new.touched[r] = Feed!Now
  BY <1>1, <1>5 DEF Feed!KeyOf, Feed!Before, Keys
<1>6. CASE list = "history" => new.touched[r] = db.touched[r] /\ new.touched[r] # 0
  <2>1. ~Feed!Before(cursor, Feed!KeyOf(db, r, asOf))
    BY <1>6 DEF Passed
  <2>2. \/ Feed!KeyOf(new, r, asOf) = Feed!KeyOf(db, r, asOf)
        \/ Feed!Before(Feed!KeyOf(new, r, asOf), Feed!KeyOf(db, r, asOf))
    BY <1>6, KeysOnlyGrow
  <2>3. QED
    BY <1>2, <2>1, <2>2, BeforeIsTransitive
<1>7. QED
  BY <1>3, <1>4, <1>5, <1>6

(* What a list selects depends on the list and not on the browser.         *)
LEMMA SelectionOfList ==
    ASSUME list' = list
    PROVE  \A d, r, asOf :
               /\ Feed!KeyOf(d, r, asOf)' = Feed!KeyOf(d, r, asOf)
               /\ Feed!Selected(d, asOf)' = Feed!Selected(d, asOf)
  BY DEF Feed!KeyOf, Feed!Selected

(* A view that is left alone.                                              *)
LEMMA ViewStays ==
    ASSUME UNCHANGED <<list, clock, db>>, NEW view, ViewOK(view)
    PROVE  ViewOK(view)'
<1>1. /\ \A r, asOf : Feed!KeyOf(db, r, asOf)' = Feed!KeyOf(db, r, asOf)
      /\ \A asOf : Feed!Selected(db, asOf)' = Feed!Selected(db, asOf)
  BY SelectionOfList
<1>2. OneRankingTime(view)' = OneRankingTime(view)
  BY DEF OneRankingTime
<1>3. CursorPassed(view)' = CursorPassed(view)
  BY <1>1, <1>2 DEF CursorPassed, Passed
<1>4. SteadyKept(view)' = SteadyKept(view)
  BY <1>1 DEF SteadyKept
<1>5. QED
  BY <1>2, <1>3, <1>4 DEF ViewOK

(* A change leaves the pages as they are; what it does to their rows keeps *)
(* the cursor past them.                                                   *)
LEMMA ChangeKeepsView ==
    ASSUME PagesTyped, NEW new, Advances(new), Feed!Becomes(new),
           NEW view, ViewOK(view), NEW later, later = Feed!Disturbed(view, new)
    PROVE  ViewOK(later)'
<1> DEFINE asOf == view.pages[1].asOf
           next == Feed!LastPage(view).next
<1>1. list' = list /\ db' = new /\ clock' = Feed!Now /\ Feed!Now = clock + 1 /\ clock \in Nat
  BY PagesAssumption DEF Feed!Becomes, Feed!Now, PagesTyped
<1>2. CASE view.pages = <<>>
  BY <1>2 DEF ViewOK, Feed!Disturbed
<1>3. CASE view.pages # <<>>
  <2>1. /\ view \in Feed!Views /\ OneRankingTime(view) /\ CursorPassed(view) /\ SteadyKept(view)
        /\ NoRowTwiceIn(view)
    BY <1>3 DEF ViewOK
  <2>2. asOf \in 0..clock /\ asOf \in Int
    BY <1>1, <1>3, <2>1, LastPageIsPage, PagesAssumption
    DEF OneRankingTime, Feed!PageRecords, PagesTyped
  <2>3. /\ later.pages = view.pages /\ Feed!LastPage(later) = Feed!LastPage(view)
        /\ later.steady = {r \in view.steady \cap Feed!Selected(new, asOf) :
                              Feed!KeyOf(new, r, asOf) = Feed!KeyOf(db, r, asOf)}
        /\ later.demoted =
              view.demoted \cup Feed!DatedBack(new) \cup Feed!Unboosted(new, asOf)
        /\ later \in Feed!Views
    <3>1. later = [view EXCEPT
                     !.steady = {r \in view.steady \cap Feed!Selected(new, asOf) :
                                    Feed!KeyOf(new, r, asOf) = Feed!KeyOf(db, r, asOf)},
                     !.demoted =
                        view.demoted \cup Feed!DatedBack(new) \cup Feed!Unboosted(new, asOf)]
      BY <1>3 DEF Feed!Disturbed
    <3>2. Feed!DatedBack(new) \subseteq Feed!Rows /\ Feed!Unboosted(new, asOf) \subseteq Feed!Rows
      BY DEF Feed!DatedBack, Feed!Unboosted
    <3> HIDE DEF asOf
    <3> HIDE DEF Feed!PageRecords
    <3>3. QED
      BY <2>1, <3>1, <3>2 DEF Feed!Views, Feed!LastPage
  <2>4. \A r : OnPages(later, r) <=> OnPages(view, r)
    BY <2>3 DEF OnPages
  <2>5. \A r : Feed!KeyOf(db, r, asOf)' = Feed!KeyOf(new, r, asOf)
    BY <1>1, SelectionOfList
  <2>6. Feed!Selected(db, asOf)' = Feed!Selected(new, asOf)
    BY <1>1, SelectionOfList
  <2> HIDE DEF asOf, next
  <2>7. OneRankingTime(later)'
    BY <1>1, <2>1, <2>2, <2>3 DEF OneRankingTime, asOf
  <2>8. \A r \in Feed!Rows \ later.demoted :
           r \notin view.demoted /\ r \notin Feed!DatedBack(new) /\ r \notin Feed!Unboosted(new, asOf)
    BY <2>3
  <2>9. NoRowTwiceIn(later)
    <3>1. \A r : r \notin later.demoted => r \notin view.demoted
      BY <2>3
    <3>2. QED
      BY <2>1, <2>3, <3>1 DEF NoRowTwiceIn
  <2>10. CursorPassed(later)'
    <3>1. SUFFICES ASSUME next # <<>>
                   PROVE  /\ \A r \in Feed!Rows \ later.demoted :
                                OnPages(later, r) => Passed(r, next, asOf)'
                          /\ list = "history" => next[1] = 0 /\ next[2] <= clock + 1
      BY <1>1, <2>3 DEF CursorPassed, next, asOf
    <3>2. next \in Keys
      BY <1>3, <2>1, <3>1, CursorIsKey DEF Feed!HasNextPage, next
    <3>3. list = "history" => next[1] = 0 /\ next[2] <= clock
      BY <2>1, <3>1 DEF CursorPassed, next
    <3>4. ASSUME NEW r \in Feed!Rows \ later.demoted, OnPages(later, r)
          PROVE  Passed(r, next, asOf)'
      <4>1. Passed(r, next, asOf)
        BY <2>1, <2>4, <2>8, <3>1, <3>4 DEF CursorPassed, next, asOf
      <4>2. \/ list = "history" /\ new.touched[r] = 0
            \/ ~Feed!Before(next, Feed!KeyOf(new, r, asOf))
        BY <2>2, <2>8, <3>2, <3>3, <3>4, <4>1, PassedStaysPassed
      <4>3. QED
        BY <1>1, <2>5, <4>2 DEF Passed
    <3>5. next[2] \in Nat
      BY <3>2 DEF Keys
    <3>6. QED
      BY <1>1, <3>3, <3>4, <3>5
  <2>11. SteadyKept(later)'
    <3>1. SUFFICES ASSUME NEW r \in later.steady
                   PROVE  /\ r \in Feed!Selected(db, asOf)'
                          /\ \/ OnPages(later, r)
                             \/ next # <<>> /\ Feed!Before(next, Feed!KeyOf(db, r, asOf)')
      BY <2>3 DEF SteadyKept, asOf, next
    <3>2. r \in view.steady /\ r \in Feed!Selected(new, asOf)
          /\ Feed!KeyOf(new, r, asOf) = Feed!KeyOf(db, r, asOf)
      BY <2>3
    <3>3. \/ OnPages(view, r)
          \/ next # <<>> /\ Feed!Before(next, Feed!KeyOf(db, r, asOf))
      BY <2>1, <3>2 DEF SteadyKept, asOf, next
    <3>4. QED
      BY <2>4, <2>5, <2>6, <3>2, <3>3
  <2>12. QED
    BY <2>3, <2>7, <2>9, <2>10, <2>11 DEF ViewOK
<1>4. QED
  BY <1>2, <1>3

-----------------------------------------------------------------------------
(* The list as a whole.                                                    *)

(* A view without pages is as it should be.                                *)
LEMMA NoViewOK == ViewOK(Feed!NoView)
  BY DEF ViewOK, Feed!NoView, Feed!Views

(* The pages are as they should be initially.                              *)
LEMMA PagesStart == Feed!Init => PagesInv
<1> SUFFICES ASSUME Feed!Init PROVE PagesInv
  OBVIOUS
<1>1. PICK dates \in FirstDates, f \in SUBSET Feed!Channels :
         db = [state |-> [r \in Feed!Rows |-> IF dates.created[r] = 0 THEN "none" ELSE "PUBLIC"],
               created |-> dates.created, published |-> dates.published,
               touched |-> dates.published, follows |-> f]
  BY DEF Feed!Init
<1>2. /\ dates.created \in [Feed!Rows -> 0..2] /\ dates.created \in [Feed!Rows -> 0..MaxTime]
      /\ dates.published \in [Feed!Rows -> 0..2] /\ dates.published \in [Feed!Rows -> 0..MaxTime]
  <2>1. dates \in [created : [Feed!Rows -> 0..2], published : [Feed!Rows -> 0..2]]
    BY RowsAssumption DEF Feed!Rows
  <2>2. dates.created \in [Feed!Rows -> 0..2] /\ dates.published \in [Feed!Rows -> 0..2]
    BY <2>1
  <2>3. QED
    BY <2>2, PagesAssumption
<1>3. list \in Feed!PagedLists /\ clock = 2 /\ clock \in 0..MaxTime
  BY PagesAssumption DEF Feed!Init
<1>4. db \in Feed!Db
  BY <1>1, <1>2 DEF Feed!Db, Feed!States
<1>5. DatesPast
  BY <1>1, <1>2, <1>3 DEF DatesPast
<1>6. ViewOK(shown) /\ ViewOK(building)
  BY NoViewOK DEF Feed!Init
<1>7. RequestsOK
  BY DEF Feed!Init, RequestsOK, Feed!NoView
<1>8. QED
  BY <1>3, <1>4, <1>5, <1>6, <1>7 DEF PagesInv, PagesTyped

(* Steps that leave the rows alone.                                        *)
LEMMA TypedStays ==
    ASSUME PagesTyped, UNCHANGED <<list, clock, db>>
    PROVE  PagesTyped'
  BY DEF PagesTyped, DatesPast

(* A view stays as it should be while only the browser moves.              *)
LEMMA ViewsStay ==
    ASSUME UNCHANGED <<list, clock, db>>, NEW view, ViewOK(view)
    PROVE  /\ shown' = view => ViewOK(shown)'
           /\ building' = view => ViewOK(building)'
<1>1. ViewOK(view)'
  BY ViewStays
<1>2. QED
  BY <1>1

(* One more page, the first or another.                                    *)
LEMMA ExtendedOK ==
    ASSUME PagesTyped, NEW view, ViewOK(view), view.pages = <<>> \/ Feed!HasNextPage(view)
    PROVE  ViewOK(Feed!Extended(view))
  BY FirstPageOK, NextPageOK

(* The steps of the browser keep the invariant.                            *)
LEMMA BrowserKeepsPages ==
    ASSUME PagesInv, Feed!Browser
    PROVE  PagesInv'
<1>1. UNCHANGED <<list, clock, db>>
  BY DEF Feed!Browser, Feed!Refetch, Feed!LoadMore, Feed!MorePages, Feed!RefetchedPage,
         Feed!RequestFails
<1>2. PagesTyped'
  BY <1>1, TypedStays DEF PagesInv
<1>3. ViewOK(shown) /\ ViewOK(building) /\ ViewOK(Feed!NoView) /\ RequestsOK /\ PagesTyped
  BY NoViewOK DEF PagesInv
<1>4. Feed!NoView.pages = <<>>
  BY DEF Feed!NoView
<1>5. CASE Feed!Refetch
  BY <1>1, <1>2, <1>3, <1>4, <1>5, ViewsStay DEF Feed!Refetch, PagesInv, RequestsOK
<1>6. CASE Feed!LoadMore
  BY <1>1, <1>2, <1>3, <1>4, <1>6, ViewsStay
  DEF Feed!LoadMore, PagesInv, RequestsOK, Feed!HasNextPage, Feed!LastPage
<1>7. CASE Feed!RequestFails
  BY <1>1, <1>2, <1>3, <1>4, <1>7, ViewsStay DEF Feed!RequestFails, PagesInv, RequestsOK
<1>8. CASE Feed!MorePages
  <2>1. ViewOK(Feed!Extended(shown))
    BY <1>3, <1>8, ExtendedOK DEF Feed!MorePages, RequestsOK
  <2>2. ViewOK(shown)' /\ ViewOK(building)'
    BY <1>1, <1>3, <1>8, <2>1, ViewsStay DEF Feed!MorePages
  <2>3. RequestsOK'
    BY <1>3, <1>8 DEF Feed!MorePages, RequestsOK
  <2>4. QED
    BY <1>2, <2>2, <2>3 DEF PagesInv
<1>9. CASE Feed!RefetchedPage
  <2> DEFINE built == Feed!Extended(building)
  <2>1. ViewOK(built)
    BY <1>3, <1>9, ExtendedOK DEF Feed!RefetchedPage, RequestsOK
  <2>2. \/ building' = built /\ UNCHANGED <<shown, request>> /\ Feed!HasNextPage(built)
        \/ shown' = built /\ building' = Feed!NoView /\ request' = "none"
    BY <1>9 DEF Feed!RefetchedPage
  <2>3. request = "refetch"
    BY <1>9 DEF Feed!RefetchedPage
  <2> HIDE DEF built
  <2>4. ViewOK(shown)' /\ ViewOK(building)'
    BY <1>1, <1>3, <2>1, <2>2, ViewsStay
  <2>5. RequestsOK'
    BY <1>3, <1>4, <2>2, <2>3 DEF RequestsOK, Feed!HasNextPage, Feed!LastPage
  <2>6. QED
    BY <1>2, <2>4, <2>5 DEF PagesInv
<1>10. QED
  BY <1>5, <1>6, <1>7, <1>8, <1>9 DEF Feed!Browser

(* So do the changes of the rows.                                          *)
LEMMA ChangesKeepPages ==
    ASSUME PagesInv, Feed!Change
    PROVE  PagesInv'
<1>1. PICK new : Feed!Becomes(new) /\ Advances(new)
  BY ChangesAdvance DEF PagesInv
<1>2. /\ list' = list /\ db' = new /\ clock' = clock + 1 /\ request' = request
      /\ clock \in Nat /\ clock + 1 <= MaxTime
      /\ shown' = Feed!Disturbed(shown, new) /\ building' = Feed!Disturbed(building, new)
  BY <1>1, PagesAssumption DEF Feed!Becomes, Feed!Now, PagesInv, PagesTyped
<1>3. PagesTyped'
  <2>1. clock' \in 0..MaxTime /\ db' \in Feed!Db /\ list' \in Feed!PagedLists
    BY <1>1, <1>2, PagesAssumption DEF Advances, PagesInv, PagesTyped
  <2>2. ASSUME NEW r \in Feed!Rows
        PROVE  new.created[r] <= clock + 1 /\ new.published[r] <= clock + 1
               /\ new.touched[r] <= clock + 1
    <3>1. /\ db.created[r] \in Nat /\ db.published[r] \in Nat /\ db.touched[r] \in Nat
          /\ db.created[r] <= clock /\ db.published[r] <= clock /\ db.touched[r] <= clock
      BY DbShape, PagesAssumption DEF PagesInv, PagesTyped, DatesPast
    <3>2. QED
      BY <1>1, <1>2, <3>1 DEF Advances, Feed!Now
  <2>3. DatesPast'
    BY <1>2, <2>2 DEF DatesPast
  <2>4. QED
    BY <2>1, <2>3 DEF PagesTyped
<1>4. ViewOK(shown)' /\ ViewOK(building)'
  <2>1. PICK a, b : a = shown' /\ b = building'
    OBVIOUS
  <2>2. ViewOK(a)' /\ ViewOK(b)'
    BY <1>1, <1>2, <2>1, ChangeKeepsView DEF PagesInv
  <2>3. QED
    BY <2>1, <2>2
<1>5. shown'.pages = shown.pages /\ building'.pages = building.pages
  BY <1>2 DEF Feed!Disturbed, PagesInv, ViewOK, Feed!Views
<1>6. RequestsOK'
  BY <1>2, <1>5 DEF PagesInv, RequestsOK, Feed!HasNextPage, Feed!LastPage
<1>7. QED
  BY <1>3, <1>4, <1>6 DEF PagesInv

(* So does every step.                                                     *)
LEMMA PagesStep == PagesInv /\ [Feed!Next]_pageVars => PagesInv'
<1> SUFFICES ASSUME PagesInv, [Feed!Next]_pageVars PROVE PagesInv'
  OBVIOUS
<1>1. CASE Feed!Next
  BY <1>1, BrowserKeepsPages, ChangesKeepPages DEF Feed!Next
<1>2. CASE UNCHANGED pageVars
  <2>1. UNCHANGED <<list, clock, db>> /\ UNCHANGED <<shown, building, request>>
    BY <1>2 DEF pageVars
  <2>2. PagesTyped' /\ ViewOK(shown)' /\ ViewOK(building)'
    BY <2>1, TypedStays, ViewsStay DEF PagesInv
  <2>3. RequestsOK'
    BY <2>1 DEF PagesInv, RequestsOK, Feed!HasNextPage, Feed!LastPage
  <2>4. QED
    BY <2>2, <2>3 DEF PagesInv
<1>3. QED
  BY <1>1, <1>2

(* The invariant implies what is promised of the lists.                    *)
LEMMA PagesSafe == PagesInv => Feed!TypeOK /\ Feed!NoRowTwice /\ Feed!NothingSkipped
<1> SUFFICES ASSUME PagesInv PROVE Feed!TypeOK /\ Feed!NoRowTwice /\ Feed!NothingSkipped
  OBVIOUS
<1>1. Feed!TypeOK
  BY DEF PagesInv, PagesTyped, ViewOK, RequestsOK, Feed!TypeOK, Feed!HasNextPage
<1>2. Feed!NoRowTwice
  <2>1. CASE shown.pages = <<>>
    BY <2>1 DEF Feed!NoRowTwice
  <2>2. CASE shown.pages # <<>>
    BY <2>2 DEF PagesInv, ViewOK, NoRowTwiceIn, Feed!NoRowTwice
  <2>3. QED
    BY <2>1, <2>2
<1>3. Feed!NothingSkipped
  <2>1. SUFFICES ASSUME shown.pages # <<>>, NEW r \in shown.steady
                 PROVE  \/ r \in Feed!RowsOf(shown)
                        \/ /\ Feed!HasNextPage(shown)
                           /\ Feed!Before(Feed!LastPage(shown).next,
                                          Feed!KeyOf(db, r, shown.pages[1].asOf))
    BY DEF Feed!NothingSkipped
  <2>2. OnPages(shown, r) => r \in Feed!RowsOf(shown)
    BY DEF OnPages, Feed!RowsOf, Feed!Range
  <2>3. QED
    BY <2>1, <2>2 DEF PagesInv, ViewOK, SteadyKept, Feed!HasNextPage
<1>4. QED
  BY <1>1, <1>2, <1>3

-----------------------------------------------------------------------------
(* The player and the tracking.                                            *)

TrackingRecords ==
    [watched : 0..Session!QualifyingSeconds, previous : Session!Positions \cup {None},
     saved : Session!Positions \cup {None}, viewSent : BOOLEAN]

PlayerTyped ==
    /\ attachment \in Session!Attachments
    /\ loader \in [Session!Attachments -> {"none", "native", "importing", "live", "gone"}]
    /\ screen \in {"loading", "ready", "playing", "error", "closed"}
    /\ recoveries \in [network : 0..Limits.network, media : 0..Limits.media]
    /\ playhead \in Session!Positions /\ rewound \in BOOLEAN
    /\ resumeAt \in Session!Positions \cup {None}
    /\ last \in [video : Titles \cup {None}, seconds : Session!Positions]

RequestsTyped ==
    /\ saving \subseteq [video : Titles, position : Session!Positions,
                         before : Session!Positions \cup {None}]
    /\ saves \in 0..MaxSaves
    /\ viewing \subseteq [video : Titles, watched : 0..Session!QualifyingSeconds]

ApiTyped ==
    /\ history \in [Titles -> Session!Positions \cup {None}]
    /\ viewed \subseteq Titles

TrackingTyped ==
    /\ tracking \in TrackingRecords
    /\ forward \in 0..Session!QualifyingSeconds /\ seen \subseteq Titles

PageTyped == video \in Titles /\ initial \in Session!Positions

SessionTyped == PageTyped /\ PlayerTyped /\ TrackingTyped /\ RequestsTyped /\ ApiTyped

(* The type invariant of a session, in its parts.                          *)
LEMMA SessionTypedIsTypeOK == SessionTyped <=> Session!TypeOK
  BY DEF SessionTyped, PageTyped, PlayerTyped, TrackingTyped, TrackingRecords, RequestsTyped,
         ApiTyped, Session!TypeOK

(* A counted view was played for.  What the tracking counts for the video  *)
(* on the page is what was played since it was opened, and a view is only  *)
(* reported once that is enough.                                           *)
Earned ==
    /\ forward = tracking.watched
    /\ \A w \in viewing : w.video \in seen
    /\ Session!ViewNeedsWatching

SessionInv == SessionTyped /\ Session!OnlyCurrentPlays /\ Earned

(* The numbers the session computes with.                                  *)
LEMMA ThresholdIsNumber == Session!QualifyingSeconds \in Nat
  BY SessionAssumption DEF Session!QualifyingSeconds, Session!Least

LEMMA PositionsAreNumbers ==
    /\ Session!Positions = 0..Duration /\ Duration \in Nat
    /\ 0 \in Session!Positions
    /\ Session!Attachments = 1..MaxAttachments /\ MaxAttachments \in Nat \ {0}
  BY SessionAssumption DEF Session!Positions, Session!Attachments

LEMMA ResumesAtPosition ==
    ASSUME ApiTyped, NEW v \in Titles
    PROVE  Session!ResumePosition(v) \in Session!Positions
  BY PositionsAreNumbers DEF Session!ResumePosition, ApiTyped

(* Disposing of the run before leaves the element to the next one.         *)
LEMMA AttachKeepsPlayer ==
    ASSUME PlayerTyped, Session!OnlyCurrentPlays, NEW from \in Session!Positions,
           Session!Attach(from)
    PROVE  /\ rewound' \in BOOLEAN
              /\ last' \in [video : Titles \cup {None}, seconds : Session!Positions]
                 => PlayerTyped'
           /\ Session!OnlyCurrentPlays'
<1>1. attachment' \in Session!Attachments /\ attachment' = attachment + 1
  BY PositionsAreNumbers DEF PlayerTyped, Session!Attach
<1>2. PICK how \in {"native", "importing"} :
          loader' = [loader EXCEPT ![attachment + 1] = how, ![attachment] = Session!Disposed]
  BY DEF Session!Attach
<1>3. Session!Disposed \in {"importing", "gone"}
  BY DEF Session!Disposed
<1>4. loader' \in [Session!Attachments -> {"none", "native", "importing", "live", "gone"}]
  BY <1>1, <1>2, <1>3 DEF PlayerTyped
<1>5. /\ screen' = "loading" /\ playhead' \in Session!Positions
      /\ resumeAt' \in Session!Positions
      /\ recoveries' \in [network : 0..Limits.network, media : 0..Limits.media]
  BY SessionAssumption, PositionsAreNumbers DEF Session!Attach, Session!NoRecoveries
<1>6. Session!OnlyCurrentPlays'
  <2> SUFFICES ASSUME NEW n \in Session!Attachments, loader'[n] \in {"live", "native"}
               PROVE  n = attachment' /\ screen' # "closed"
    BY DEF Session!OnlyCurrentPlays
  <2>1. n # attachment
    BY <1>1, <1>2, <1>3, PositionsAreNumbers DEF PlayerTyped
  <2>2. CASE n = attachment + 1
    BY <1>1, <1>5, <2>2
  <2>3. CASE n # attachment + 1
    BY <1>2, <2>1, <2>3 DEF PlayerTyped, Session!OnlyCurrentPlays
  <2>4. QED
    BY <2>2, <2>3
<1>7. QED
  BY <1>1, <1>4, <1>5, <1>6 DEF PlayerTyped

(* What save does to the refs and the requests.                            *)
LEMMA SaveKeeps ==
    ASSUME PageTyped, RequestsTyped, NEW p \in Session!Positions, NEW t \in TrackingRecords,
           Session!Save(t, p)
    PROVE  /\ tracking' \in TrackingRecords
           /\ tracking'.watched = t.watched
           /\ saving' \subseteq [video : Titles, position : Session!Positions,
                                 before : Session!Positions \cup {None}]
           /\ saves' \in 0..MaxSaves
<1>1. CASE Session!NeedsSave(p) /\ saves < MaxSaves
  <2>1. /\ tracking' = [t EXCEPT !.saved = p]
        /\ saving' = saving \cup {[video |-> video, position |-> p, before |-> t.saved]}
        /\ saves' = saves + 1
    BY <1>1 DEF Session!Save
  <2>2. tracking' \in TrackingRecords /\ tracking'.watched = t.watched
    BY <2>1 DEF TrackingRecords
  <2>3. t.saved \in Session!Positions \cup {None}
    BY DEF TrackingRecords
  <2>4. saving' \subseteq [video : Titles, position : Session!Positions,
                           before : Session!Positions \cup {None}]
    BY <2>1, <2>3 DEF RequestsTyped, PageTyped
  <2>5. saves' \in 0..MaxSaves
    BY <1>1, <2>1, SessionAssumption DEF RequestsTyped
  <2>6. QED
    BY <2>2, <2>4, <2>5
<1>2. CASE ~(Session!NeedsSave(p) /\ saves < MaxSaves)
  BY <1>2 DEF Session!Save, RequestsTyped
<1>3. QED
  BY <1>1, <1>2

(* An event is counted for the video on the page, in the tracking as in    *)
(* the history variables.                                                  *)
LEMMA ProgressKeeps ==
    ASSUME SessionTyped, Earned, NEW p \in Session!Positions, Session!TimeUpdate(p),
           viewed' = viewed
    PROVE  /\ TrackingTyped' /\ RequestsTyped' /\ Earned'
           /\ last' \in [video : Titles \cup {None}, seconds : Session!Positions]
<1> USE DEF SessionTyped
<1> DEFINE played == IF Session!IsPlayback(Session!Moved(p)) THEN Session!Moved(p) ELSE 0
           watched == Session!Least(Session!QualifyingSeconds, tracking.watched + played)
           send == ~tracking.viewSent /\ watched >= Session!QualifyingSeconds
           t == [tracking EXCEPT !.watched = watched, !.previous = p, !.viewSent = @ \/ send]
           f == Session!Least(Session!QualifyingSeconds, forward + played)
<1>1. played \in Nat
  BY PositionsAreNumbers DEF Session!IsPlayback, Session!Moved, TrackingTyped, TrackingRecords
<1>2. watched \in 0..Session!QualifyingSeconds /\ f = watched
  BY <1>1, ThresholdIsNumber DEF Session!Least, TrackingTyped, TrackingRecords, Earned
<1>3. /\ viewing' = IF send THEN viewing \cup {[video |-> video, watched |-> watched]} ELSE viewing
      /\ Session!Save(t, p) \/ (tracking' = t /\ UNCHANGED <<saving, saves>>)
      /\ forward' = f
      /\ seen' = IF f = Session!QualifyingSeconds THEN seen \cup {video} ELSE seen
      /\ last' = [video |-> video, seconds |-> p]
  BY DEF Session!TimeUpdate, Session!Progress
<1>4. t \in TrackingRecords /\ t.watched = watched
  <2> HIDE DEF watched, send
  <2> QED
    BY <1>2 DEF TrackingTyped, TrackingRecords
<1> HIDE DEF t
<1>5. /\ tracking' \in TrackingRecords /\ tracking'.watched = watched
      /\ saving' \subseteq [video : Titles, position : Session!Positions,
                            before : Session!Positions \cup {None}]
      /\ saves' \in 0..MaxSaves
  <2>1. CASE Session!Save(t, p)
    BY <1>4, <2>1, SaveKeeps
  <2>2. CASE tracking' = t /\ UNCHANGED <<saving, saves>>
    BY <1>4, <2>2 DEF RequestsTyped
  <2>3. QED
    BY <1>3, <2>1, <2>2
<1>6. send => f = Session!QualifyingSeconds
  BY <1>2, ThresholdIsNumber
<1> HIDE DEF send, f, watched
<1>7. /\ viewing' \subseteq [video : Titles, watched : 0..Session!QualifyingSeconds]
      /\ seen' \subseteq Titles /\ seen \subseteq seen'
  BY <1>2, <1>3 DEF RequestsTyped, TrackingTyped, PageTyped
<1>8. \A w \in viewing' : w.video \in seen'
  <2>1. \A w \in viewing : w.video \in seen'
    BY <1>7 DEF Earned
  <2>2. send => video \in seen'
    BY <1>3, <1>6
  <2>3. QED
    BY <1>3, <2>1, <2>2
<1>9. Earned'
  BY <1>2, <1>3, <1>5, <1>7, <1>8 DEF Earned, Session!ViewNeedsWatching
<1>10. TrackingTyped' /\ RequestsTyped'
  BY <1>2, <1>3, <1>5, <1>7 DEF TrackingTyped, RequestsTyped
<1>11. QED
  BY <1>3, <1>9, <1>10 DEF PageTyped

(* Attaching a source leaves the requests alone, and counts go on or start *)
(* anew.                                                                   *)
LEMMA AttachKeepsSession ==
    ASSUME SessionInv, NEW from \in Session!Positions, Session!Attach(from),
           PageTyped', rewound' \in BOOLEAN,
           last' \in [video : Titles \cup {None}, seconds : Session!Positions],
           UNCHANGED <<saving, saves, viewing, history, viewed, seen>>,
           \/ UNCHANGED <<tracking, forward>>
           \/ tracking' = Session!NothingTracked /\ forward' = 0
    PROVE  SessionInv'
<1>1. PlayerTyped' /\ Session!OnlyCurrentPlays'
  BY AttachKeepsPlayer DEF SessionInv, SessionTyped
<1>2. /\ Session!NothingTracked \in TrackingRecords /\ Session!NothingTracked.watched = 0
      /\ 0 \in 0..Session!QualifyingSeconds
  BY ThresholdIsNumber DEF Session!NothingTracked, TrackingRecords
<1>3. TrackingTyped' /\ Earned'
  BY <1>2 DEF SessionInv, SessionTyped, TrackingTyped, Earned, Session!ViewNeedsWatching
<1>4. RequestsTyped' /\ ApiTyped'
  BY DEF SessionInv, SessionTyped, RequestsTyped, ApiTyped
<1>5. QED
  BY <1>1, <1>3, <1>4 DEF SessionInv, SessionTyped

(* An event moves the element at most.                                     *)
LEMMA ProgressKeepsSession ==
    ASSUME SessionInv, NEW p \in Session!Positions, Session!TimeUpdate(p),
           UNCHANGED <<video, initial, attachment, loader, recoveries, history, viewed>>,
           playhead' \in Session!Positions, rewound' \in BOOLEAN,
           resumeAt' \in Session!Positions \cup {None},
           screen' = screen \/ (screen # "closed" /\ screen' = "playing")
    PROVE  SessionInv'
<1>1. /\ TrackingTyped' /\ RequestsTyped' /\ Earned'
      /\ last' \in [video : Titles \cup {None}, seconds : Session!Positions]
  BY ProgressKeeps DEF SessionInv
<1>2. PageTyped' /\ ApiTyped'
  BY DEF SessionInv, SessionTyped, PageTyped, ApiTyped
<1>3. PlayerTyped'
  BY <1>1 DEF SessionInv, SessionTyped, PlayerTyped
<1>4. Session!OnlyCurrentPlays'
  BY DEF SessionInv, Session!OnlyCurrentPlays
<1>5. QED
  BY <1>1, <1>2, <1>3, <1>4 DEF SessionInv, SessionTyped

(* Steps of the player that report nothing.                                *)
LEMMA PlayerKeepsSession ==
    ASSUME SessionInv, PlayerTyped', Session!OnlyCurrentPlays', PageTyped',
           UNCHANGED <<tracking, saving, saves, viewing, history, viewed, forward, seen>>
    PROVE  SessionInv'
<1>1. TrackingTyped' /\ RequestsTyped' /\ ApiTyped' /\ Earned'
  BY DEF SessionInv, SessionTyped, TrackingTyped, RequestsTyped, ApiTyped, Earned,
         Session!ViewNeedsWatching
<1>2. QED
  BY <1>1 DEF SessionInv, SessionTyped

(* Answers change neither the player nor what was played.                  *)
LEMMA AnswerKeepsSession ==
    ASSUME SessionInv, RequestsTyped', ApiTyped', tracking' \in TrackingRecords,
           tracking'.watched = tracking.watched, viewing' \subseteq viewing, viewed' \subseteq seen,
           UNCHANGED <<video, initial, attachment, loader, screen, recoveries, playhead, rewound,
                       resumeAt, last, forward, seen>>
    PROVE  SessionInv'
<1>1. PageTyped' /\ PlayerTyped' /\ Session!OnlyCurrentPlays'
  BY DEF SessionInv, SessionTyped, PageTyped, PlayerTyped, Session!OnlyCurrentPlays
<1>2. TrackingTyped' /\ Earned'
  BY DEF SessionInv, SessionTyped, TrackingTyped, Earned, Session!ViewNeedsWatching
<1>3. QED
  BY <1>1, <1>2 DEF SessionInv, SessionTyped

(* The session is as it should be initially.                               *)
LEMMA SessionStart == Session!Init => SessionInv
<1> SUFFICES ASSUME Session!Init PROVE SessionInv
  OBVIOUS
<1>1. ApiTyped
  <2>1. Duration \div 2 \in 0..Duration
    BY PositionsAreNumbers
  <2>2. QED
    BY <2>1, PositionsAreNumbers DEF Session!Init, ApiTyped
<1>2. PageTyped
  BY <1>1, ResumesAtPosition DEF Session!Init, PageTyped
<1>3. PlayerTyped /\ Session!OnlyCurrentPlays
  <2>1. /\ recoveries \in [network : 0..Limits.network, media : 0..Limits.media]
        /\ last \in [video : Titles \cup {None}, seconds : Session!Positions]
    BY SessionAssumption, PositionsAreNumbers DEF Session!Init, Session!NoRecoveries
  <2>2. PICK how \in {"native", "importing"} :
           loader = [n \in Session!Attachments |-> IF n = 1 THEN how ELSE "none"]
    BY DEF Session!Init
  <2>3. PlayerTyped
    <3>1. attachment \in Session!Attachments
      BY PositionsAreNumbers DEF Session!Init
    <3>2. loader \in [Session!Attachments -> {"none", "native", "importing", "live", "gone"}]
      BY <2>2
    <3>3. resumeAt \in Session!Positions /\ playhead \in Session!Positions
      BY <1>2, PositionsAreNumbers DEF Session!Init, PageTyped
    <3>4. QED
      BY <2>1, <3>1, <3>2, <3>3 DEF Session!Init, PlayerTyped
  <2>4. Session!OnlyCurrentPlays
    BY <2>2 DEF Session!Init, Session!OnlyCurrentPlays
  <2>5. QED
    BY <2>3, <2>4
<1>4. TrackingTyped /\ RequestsTyped /\ Earned
  BY ThresholdIsNumber, SessionAssumption
  DEF Session!Init, Session!NothingTracked, TrackingTyped, TrackingRecords, RequestsTyped, Earned,
      Session!ViewNeedsWatching
<1>5. QED
  BY <1>1, <1>2, <1>3, <1>4 DEF SessionInv, SessionTyped

(* Every step keeps the invariant of the session.                          *)
LEMMA SessionStep == SessionInv /\ [Session!Next]_sessionVars => SessionInv'
<1> SUFFICES ASSUME SessionInv, [Session!Next]_sessionVars PROVE SessionInv'
  OBVIOUS
<1>1. /\ PageTyped /\ PlayerTyped /\ TrackingTyped /\ RequestsTyped /\ ApiTyped
      /\ Session!OnlyCurrentPlays /\ Earned
  BY DEF SessionInv, SessionTyped
<1>2. \A v \in Titles : Session!ResumePosition(v) \in Session!Positions
  BY <1>1, ResumesAtPosition
<1>3. video \in Titles /\ initial \in Session!Positions
  BY <1>1 DEF PageTyped
<1>4. last.seconds \in Session!Positions
  BY <1>1 DEF PlayerTyped
<1>5. CASE Session!Refetch
  <2>1. PageTyped'
    BY <1>2, <1>3, <1>5 DEF Session!Refetch, PageTyped
  <2>2. CASE screen = "closed"
    BY <1>1, <1>2, <1>3, <1>5, <2>1, <2>2, AttachKeepsSession
    DEF Session!Refetch, Session!requests, Session!api, Session!log, PlayerTyped
  <2>3. CASE screen # "closed"
    <3>1. PlayerTyped' /\ Session!OnlyCurrentPlays'
      BY <1>1, <1>5, <2>3
      DEF Session!Refetch, Session!player, PlayerTyped, Session!OnlyCurrentPlays
    <3>2. QED
      BY <1>5, <2>1, <3>1, PlayerKeepsSession
      DEF Session!Refetch, Session!requests, Session!api, Session!log
  <2>4. QED
    BY <2>2, <2>3
<1>6. CASE Session!RefetchFails
  <2>1. Session!Disposed \in {"importing", "gone"}
    BY DEF Session!Disposed
  <2>2. /\ recoveries' \in [network : 0..Limits.network, media : 0..Limits.media]
        /\ last' \in [video : Titles \cup {None}, seconds : Session!Positions]
    BY <1>6, SessionAssumption, PositionsAreNumbers DEF Session!RefetchFails, Session!NoRecoveries
  <2>3. PlayerTyped'
    BY <1>1, <1>6, <2>1, <2>2, PositionsAreNumbers DEF Session!RefetchFails, PlayerTyped
  <2>4. Session!OnlyCurrentPlays'
    BY <1>1, <1>6, <2>1 DEF Session!RefetchFails, PlayerTyped, Session!OnlyCurrentPlays
  <2>5. QED
    BY <1>1, <1>6, <2>3, <2>4, PlayerKeepsSession
    DEF Session!RefetchFails, Session!requests, Session!api, Session!log, PageTyped
<1>7. CASE Session!RetryPlayback
  <2>1. PICK from \in Session!Positions : Session!Attach(from)
    BY <1>3, <1>4, <1>7 DEF Session!RetryPlayback
  <2>2. QED
    BY <1>1, <1>7, <2>1, AttachKeepsSession
    DEF Session!RetryPlayback, Session!requests, Session!api, Session!log, PageTyped, PlayerTyped
<1>8. CASE Session!Loaded
  <2>1. CASE resumeAt > 0 /\ resumeAt < Duration - 1
    <3>1. resumeAt \in Session!Positions /\ Session!TimeUpdate(resumeAt) /\ playhead' = resumeAt
      BY <1>1, <1>8, <2>1 DEF Session!Loaded, Session!Move, PlayerTyped
    <3>2. QED
      BY <1>1, <1>8, <3>1, ProgressKeepsSession DEF Session!Loaded, Session!api, PlayerTyped
  <2>2. CASE ~(resumeAt > 0 /\ resumeAt < Duration - 1)
    <3>1. PlayerTyped' /\ Session!OnlyCurrentPlays' /\ PageTyped'
      BY <1>1, <1>8, <2>2 DEF Session!Loaded, PlayerTyped, Session!OnlyCurrentPlays, PageTyped
    <3>2. QED
      BY <1>8, <2>2, <3>1, PlayerKeepsSession
      DEF Session!Loaded, Session!requests, Session!api, Session!log
  <2>3. QED
    BY <2>1, <2>2
<1>9. CASE Session!CanPlay \/ Session!Waiting \/ Session!Unplayable
  <2>1. PlayerTyped' /\ Session!OnlyCurrentPlays' /\ PageTyped'
    BY <1>1, <1>9
    DEF Session!CanPlay, Session!Waiting, Session!Unplayable, Session!Attached, PlayerTyped,
        Session!OnlyCurrentPlays, PageTyped
  <2>2. QED
    BY <1>9, <2>1, PlayerKeepsSession
    DEF Session!CanPlay, Session!Waiting, Session!Unplayable, Session!requests, Session!api,
        Session!log
<1>10. CASE Session!Rewound
  BY <1>1, <1>10, ProgressKeepsSession DEF Session!Rewound, Session!api, PlayerTyped
<1>11. CASE Session!Play
  <2>1. playhead + 1 \in Session!Positions
    BY <1>1, <1>11, PositionsAreNumbers DEF Session!Play, PlayerTyped
  <2>2. QED
    BY <1>1, <1>11, <2>1, ProgressKeepsSession
    DEF Session!Play, Session!Move, Session!api, PlayerTyped
<1>12. CASE Session!SavePosition
  <2>1. PICK p \in Session!Positions : Session!Save(tracking, p)
    BY <1>1, <1>12, PositionsAreNumbers
    DEF Session!SavePosition, PlayerTyped, TrackingTyped, TrackingRecords
  <2>2. /\ tracking' \in TrackingRecords /\ tracking'.watched = tracking.watched
        /\ saving' \subseteq [video : Titles, position : Session!Positions,
                              before : Session!Positions \cup {None}]
        /\ saves' \in 0..MaxSaves
    BY <1>1, <2>1, SaveKeeps DEF TrackingTyped
  <2>3. RequestsTyped' /\ ApiTyped'
    BY <1>1, <1>12, <2>2 DEF Session!SavePosition, Session!api, RequestsTyped, ApiTyped
  <2>4. viewed \subseteq seen
    BY <1>1 DEF Earned, Session!ViewNeedsWatching
  <2>5. QED
    BY <1>12, <2>2, <2>3, <2>4, AnswerKeepsSession
    DEF Session!SavePosition, Session!player, Session!api, Session!log
<1>13. ASSUME NEW v \in Titles, Session!Open(v) PROVE SessionInv'
  <2>1. Session!ResumePosition(v) \in Session!Positions
    BY <1>2
  <2>2. /\ rewound' \in BOOLEAN
        /\ last' \in [video : Titles \cup {None}, seconds : Session!Positions]
    <3>1. rewound' = FALSE \/ rewound' = (rewound \/ playhead > 0)
      BY <1>13 DEF Session!Open
    <3>2. last' = [video |-> None, seconds |-> 0] \/ last' = last
      BY <1>13 DEF Session!Open
    <3>3. last' \in [video : Titles \cup {None}, seconds : Session!Positions]
      BY <1>1, <3>2, PositionsAreNumbers DEF PlayerTyped
    <3>4. QED
      BY <3>1, <3>3
  <2>3. QED
    BY <1>13, <2>1, <2>2, AttachKeepsSession
    DEF Session!Open, Session!TrackingAnew, Session!requests, Session!api, PageTyped
<1>14. ASSUME NEW p \in Session!Positions, Session!Seek(p) PROVE SessionInv'
  BY <1>1, <1>14, ProgressKeepsSession DEF Session!Seek, Session!Move, Session!api, PlayerTyped
<1>15. ASSUME NEW n \in Session!Attachments, Session!Imported(n) PROVE SessionInv'
  <2>1. PlayerTyped' /\ Session!OnlyCurrentPlays' /\ PageTyped'
    BY <1>1, <1>15
    DEF Session!Imported, Session!StillWanted, PlayerTyped, Session!OnlyCurrentPlays, PageTyped
  <2>2. QED
    BY <1>15, <2>1, PlayerKeepsSession
    DEF Session!Imported, Session!requests, Session!api, Session!log
<1>16. ASSUME NEW type \in {"network", "media", "other"}, Session!FatalError(type)
       PROVE  SessionInv'
  <2>1. recoveries' \in [network : 0..Limits.network, media : 0..Limits.media]
    <3>1. CASE type \in DOMAIN Limits /\ recoveries[type] < Limits[type]
      <4>1. type \in {"network", "media"}
        BY <3>1, SessionAssumption
      <4>2. recoveries' = [recoveries EXCEPT ![type] = @ + 1]
        BY <1>16, <3>1 DEF Session!FatalError
      <4>3. QED
        BY <1>1, <3>1, <4>1, <4>2, SessionAssumption DEF PlayerTyped
    <3>2. CASE ~(type \in DOMAIN Limits /\ recoveries[type] < Limits[type])
      BY <1>1, <1>16, <3>2 DEF Session!FatalError, PlayerTyped
    <3>3. QED
      BY <3>1, <3>2
  <2>2. PlayerTyped' /\ Session!OnlyCurrentPlays' /\ PageTyped'
    BY <1>1, <1>16, <2>1
    DEF Session!FatalError, PlayerTyped, Session!OnlyCurrentPlays, PageTyped
  <2>3. QED
    BY <1>16, <2>2, PlayerKeepsSession
    DEF Session!FatalError, Session!requests, Session!api, Session!log
<1>17. ASSUME NEW s \in saving, Session!SaveReturns(s) PROVE SessionInv'
  <2>1. s \in [video : Titles, position : Session!Positions,
               before : Session!Positions \cup {None}]
    BY <1>1 DEF RequestsTyped
  <2>2. PICK stored \in BOOLEAN, answered \in BOOLEAN :
           /\ history' = IF stored THEN [history EXCEPT ![s.video] = s.position] ELSE history
           /\ tracking' = IF ~answered /\ tracking.saved = s.position
                          THEN [tracking EXCEPT !.saved = s.before] ELSE tracking
    BY <1>17 DEF Session!SaveReturns
  <2>3. tracking' \in TrackingRecords /\ tracking'.watched = tracking.watched
    BY <1>1, <2>1, <2>2 DEF TrackingTyped, TrackingRecords
  <2>4. ApiTyped'
    BY <1>1, <1>17, <2>1, <2>2 DEF Session!SaveReturns, ApiTyped
  <2>5. RequestsTyped' /\ viewed \subseteq seen
    BY <1>1, <1>17 DEF Session!SaveReturns, RequestsTyped, Earned, Session!ViewNeedsWatching
  <2>6. QED
    BY <1>17, <2>3, <2>4, <2>5, AnswerKeepsSession
    DEF Session!SaveReturns, Session!player, Session!log
<1>18. ASSUME NEW w \in viewing, Session!ViewReturns(w) PROVE SessionInv'
  <2>1. w.video \in seen
    BY <1>1 DEF Earned
  <2>2. tracking' \in TrackingRecords /\ tracking'.watched = tracking.watched
    BY <1>1, <1>18 DEF Session!ViewReturns, TrackingTyped, TrackingRecords
  <2>3. viewed' \subseteq seen /\ seen \subseteq Titles
    BY <1>1, <1>18, <2>1
    DEF Session!ViewReturns, Earned, Session!ViewNeedsWatching, TrackingTyped
  <2>4. RequestsTyped' /\ ApiTyped' /\ viewing' \subseteq viewing
    BY <1>1, <1>18, <2>3 DEF Session!ViewReturns, RequestsTyped, ApiTyped
  <2>5. QED
    BY <1>18, <2>2, <2>3, <2>4, AnswerKeepsSession
    DEF Session!ViewReturns, Session!player, Session!log
<1>19. CASE UNCHANGED sessionVars
  <2>1. PlayerTyped' /\ Session!OnlyCurrentPlays' /\ PageTyped'
    BY <1>1, <1>19 DEF sessionVars, PlayerTyped, Session!OnlyCurrentPlays, PageTyped
  <2>2. QED
    BY <1>19, <2>1, PlayerKeepsSession DEF sessionVars
<1>20. QED
  BY <1>5, <1>6, <1>7, <1>8, <1>9, <1>10, <1>11, <1>12, <1>13, <1>14, <1>15, <1>16, <1>17,
     <1>18, <1>19 DEF Session!Next

-----------------------------------------------------------------------------
(* The three parts together.                                               *)

PartsInv ==
    /\ subject = "pages" => PagesInv
    /\ subject = "session" => SessionInv

(* Whichever part moves, each part keeps its invariant.                    *)
LEMMA PartsHold == ViewerSpec => []PartsInv
<1>1. ViewerInit => PartsInv
  BY PagesStart, SessionStart DEF ViewerInit, PartsInv
<1>2. PartsInv /\ [ViewerNext]_allVars => PartsInv'
  <2> SUFFICES ASSUME PartsInv, [ViewerNext]_allVars PROVE PartsInv'
    OBVIOUS
  <2>1. subject' = subject
    BY DEF ViewerNext, allVars
  <2>2. ASSUME subject = "pages" PROVE PagesInv'
    <3>1. [Feed!Next]_pageVars
      BY <2>2 DEF ViewerNext, allVars
    <3>2. QED
      BY <2>2, <3>1, PagesStep DEF PartsInv
  <2>3. ASSUME subject = "session" PROVE SessionInv'
    <3>1. [Session!Next]_sessionVars
      BY <2>3 DEF ViewerNext, allVars
    <3>2. QED
      BY <2>3, <3>1, SessionStep DEF PartsInv
  <2>4. QED
    BY <2>1, <2>2, <2>3 DEF PartsInv
<1>3. QED
  BY <1>1, <1>2, PTL DEF ViewerSpec

(* While another part moves, the playlists stay as they were.              *)
LEMMA PlaylistsBehave == ViewerSpec => Spec
<1>1. ViewerInit => Init
  BY DEF ViewerInit, NoPlaylists, Init
<1>2. [ViewerNext]_allVars => [Next]_vars
  BY DEF ViewerNext, allVars
<1>3. QED
  BY <1>1, <1>2, PTL DEF ViewerSpec, Spec

(* Every part keeps to its types.                                          *)
THEOREM ViewerTypesOK == ViewerSpec => []AllTypesOK
<1>1. TypeOK /\ PartsInv => AllTypesOK
  BY PagesSafe, SessionTypedIsTypeOK DEF PartsInv, SessionInv, AllTypesOK
<1>2. QED
  BY <1>1, PartsHold, PlaylistsBehave, TypesOK, PTL

(* No list shows a row twice, however its rows come, go and move between   *)
(* two pages and while it is fetched again, unless since the first page    *)
(* overlapping saves dated that very row back, or its channel lost its     *)
(* last video among the home feed's subscription rows (feeds.service.ts,   *)
(* search.service.ts and the keysets of the other lists).                  *)
THEOREM RowsAreShownOnce == ViewerSpec => []NoRowTwice
<1>1. PartsInv => NoRowTwice
  BY PagesSafe DEF PartsInv, NoRowTwice
<1>2. QED
  BY <1>1, PartsHold, PTL

(* A row that was in the list since its first page, and kept its place, is *)
(* on the screen or ahead of the cursor (the same keysets).                *)
THEOREM NoRowIsSkipped == ViewerSpec => []NothingSkipped
<1>1. PartsInv => NothingSkipped
  BY PagesSafe DEF PartsInv, NothingSkipped
<1>2. QED
  BY <1>1, PartsHold, PTL

(* However late an import of hls.js arrives, no earlier source gets the    *)
(* media element (hls-video-player.tsx: disposed, and destroyHls in the    *)
(* cleanup).                                                               *)
THEOREM OneSourceHasTheElement == ViewerSpec => []OnlyCurrentPlays
<1>1. PartsInv => OnlyCurrentPlays
  BY DEF PartsInv, SessionInv, OnlyCurrentPlays
<1>2. QED
  BY <1>1, PartsHold, PTL

(* A view is counted only for a video that was played long enough since it *)
(* was opened, whatever the viewer does and whichever answer is lost       *)
(* (useWatchTracking; recordView, isViewEligible).                         *)
THEOREM ViewsAreEarned == ViewerSpec => []ViewNeedsWatching
<1>1. PartsInv => ViewNeedsWatching
  BY DEF PartsInv, SessionInv, Earned, ViewNeedsWatching
<1>2. QED
  BY <1>1, PartsHold, PTL
=============================================================================
