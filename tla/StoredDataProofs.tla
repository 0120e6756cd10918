---------------------------- MODULE StoredDataProofs ---------------------------
(***************************************************************************)
(* Theorems about what is fetched and stored.                              *)
(*                                                                         *)
(* NavHistory: for any history, page sizes, windows of daily syncs and of  *)
(* backfills, and any source that goes on publishing and revising while it *)
(* is read. A day has been fetched as soon as the pages that were read     *)
(* reach past the days that are newer, and there can only be more of these.*)
(* A window changes what a return follows only at its first row and at the *)
(* first row after it.                                                     *)
(*                                                                         *)
(* PurchaseLimits: for any shares, notices, pages and days, what is stored *)
(* of a notice or a page is stated by it, and a share the audit is silent  *)
(* about is covered by the newest snapshot.                                *)
(*                                                                         *)
(* RawArchive and Startup, what must survive processes that die: the files *)
(* and rows of the archive, for any number of processes, contents and      *)
(* attempts, and the schema, for any containers, releases and edits.       *)
(* ArchiveIsWhole is inductive together with the types: they say of a      *)
(* process past "received" what it says of a row. Of the schema it is this *)
(* that what nobody edited is what the revision released, which a          *)
(* migration carries from one revision to the next, and that a revision    *)
(* never decreases, so that nothing migrates below a container that serves.*)
(***************************************************************************)
EXTENDS NavHistory, PurchaseLimits, RawArchive, Startup,
        FiniteSetTheorems, WellFoundedInduction, TLAPS

-----------------------------------------------------------------------------
(* The least and the greatest of a set of numbers.                          *)

\* A set of naturals that is not empty has a least element.
LEMMA LeastNatural ==
  ASSUME NEW S \in SUBSET Nat, S # {}
  PROVE  \E m \in S : \A n \in S : m <= n
<1>1. IsWellFoundedOn(OpToRel(<, Nat), Nat)  BY NatLessThanWellFounded
<1>2. PICK m \in S : \A n \in S : ~ (<<n, m>> \in OpToRel(<, Nat))
  BY <1>1, WFMin
<1>3. \A n \in S : ~ (n < m)  BY <1>2 DEF OpToRel
<1> QED  BY <1>3

LEMMA LastOfSome ==
  ASSUME NEW n \in Nat, NEW S \in SUBSET (1..n), S # {}
  PROVE  Max(S) \in S /\ \A e \in S : e <= Max(S)
<1>1. S \subseteq 1..n  OBVIOUS
<1> DEFINE back == {k \in 0..n : n - k \in S}
<1>2. PICK d \in S : TRUE  OBVIOUS
<1>3. n - d \in back
  <2>1. d \in 1..n  BY <1>1, <1>2
  <2>2. n - d \in 0..n /\ n - (n - d) = d  BY <1>1, <2>1
  <2> QED  BY <1>2, <2>2
<1>4. PICK m \in back : \A k \in back : m <= k
  <2>1. \A k \in back : k \in Nat  OBVIOUS
  <2>2. back \in SUBSET Nat  BY <2>1
  <2>3. back # {}  BY <1>3
  <2> HIDE DEF back
  <2> QED  BY <2>2, <2>3, LeastNatural
<1>5. ASSUME NEW e \in S  PROVE n - m >= e
  <2>1. e \in 1..n  BY <1>1, <1>5
  <2>2. n - e \in 0..n /\ n - (n - e) = e  BY <1>1, <2>1
  <2>3. n - e \in back  BY <1>5, <2>2
  <2>4. m <= n - e /\ m \in 0..n  BY <1>4, <2>3
  <2> QED  BY <1>1, <2>1, <2>4
<1>6. \E x \in S : \A y \in S : x >= y  BY <1>4, <1>5
<1>7. Max(S) \in S /\ \A y \in S : Max(S) >= y  BY <1>6 DEF Max
<1>8. S \subseteq Nat  BY <1>1
<1> QED  BY <1>7, <1>8

-----------------------------------------------------------------------------
(* NavHistory: days, and the first and the last of a set of them.           *)

LEMMA HistoryIsFinite ==
  /\ IsFiniteSet(HistoryDays) /\ HistoryDays \subseteq Nat
  /\ \E n \in Nat : HistoryDays = 1..n
<1>1. Cardinality(HistoryDays) \in Nat  BY FS_CardinalityType, NavAssumption
<1> QED  BY <1>1, NavAssumption

LEMMA FirstDay ==
  ASSUME NEW S \in SUBSET HistoryDays, S # {}
  PROVE  Min(S) \in S /\ \A e \in S : Min(S) <= e
<1>1. S \subseteq Nat  BY HistoryIsFinite
<1>2. \E x \in S : \A y \in S : x =< y  BY <1>1, LeastNatural
<1> QED  BY <1>2 DEF Min

LEMMA LastDay ==
  ASSUME NEW S \in SUBSET HistoryDays, S # {}
  PROVE  Max(S) \in S /\ \A e \in S : e <= Max(S)
BY HistoryIsFinite, LastOfSome

\* The last of two sets that have the same days from one of them on is the same.
LEMMA SameLastDay ==
  ASSUME NEW S \in SUBSET HistoryDays, NEW T \in SUBSET HistoryDays, S # {}, S \subseteq T,
         \A e \in T \ S : \E d \in S : e < d
  PROVE  Max(T) = Max(S)
<1>1. Max(S) \in S /\ \A e \in S : e <= Max(S)  BY LastDay
<1>2. Max(T) \in T /\ \A e \in T : e <= Max(T)  BY LastDay
<1>3. Max(S) \in Nat /\ Max(T) \in Nat /\ S \subseteq Nat /\ T \subseteq Nat
  BY <1>1, <1>2, HistoryIsFinite
<1>4. Max(S) <= Max(T)  BY <1>1, <1>2
<1>5. Max(T) <= Max(S)  BY <1>1, <1>2, <1>3
<1> QED  BY <1>3, <1>4, <1>5

-----------------------------------------------------------------------------
(* How far back the pages reach.                                            *)

\* Days that are added to those shown leave no day with fewer newer ones.
LEMMA MoreAreNewer ==
  ASSUME NEW A \in SUBSET HistoryDays, NEW B \in SUBSET HistoryDays, A \subseteq B, NEW d
  PROVE  /\ Cardinality({e \in A : e > d}) \in Nat /\ Cardinality({e \in B : e > d}) \in Nat
         /\ Cardinality({e \in A : e > d}) <= Cardinality({e \in B : e > d})
<1> DEFINE a == {e \in A : e > d}
           b == {e \in B : e > d}
<1>1. a \subseteq b /\ a \subseteq HistoryDays /\ b \subseteq HistoryDays  OBVIOUS
<1> HIDE DEF a, b
<1>2. IsFiniteSet(a) /\ IsFiniteSet(b)  BY <1>1, HistoryIsFinite, FS_Subset
<1>3. Cardinality(a) <= Cardinality(b)  BY <1>1, <1>2, FS_Subset
<1>4. Cardinality(a) \in Nat /\ Cardinality(b) \in Nat  BY <1>2, FS_CardinalityType
<1> QED  BY <1>3, <1>4 DEF a, b

\* A day that is shown is not newer than itself.
LEMMA NewerAreFewer ==
  ASSUME NEW A \in SUBSET HistoryDays, NEW d \in A
  PROVE  /\ Cardinality(A) \in Nat /\ Cardinality({e \in A : e > d}) \in Nat
         /\ Cardinality({e \in A : e > d}) < Cardinality(A)
<1> DEFINE a == {e \in A : e > d}
<1>1. d \in Nat  BY HistoryIsFinite
<1>2. a \subseteq A /\ a # A  BY <1>1
<1> HIDE DEF a
<1>3. IsFiniteSet(A)  BY HistoryIsFinite, FS_Subset
<1>4. IsFiniteSet(a) /\ Cardinality(a) <= Cardinality(A) /\ Cardinality(a) # Cardinality(A)
  BY <1>2, <1>3, FS_Subset
<1>5. Cardinality(a) \in Nat /\ Cardinality(A) \in Nat  BY <1>3, <1>4, FS_CardinalityType
<1> QED  BY <1>4, <1>5 DEF a

\* After the last page nothing is left to read.
LEMMA PagesHoldAll ==
  ASSUME NEW n \in Nat, NEW size \in Nat \ {0}, NEW page \in Nat,
         ~ (page + 1 <= (n + size - 1) \div size)
  PROVE  n <= page * size
<1> DEFINE q == (n + size - 1) \div size
           m == n + size - 1
<1>1. m \in Nat /\ size > 0  OBVIOUS
<1>2. q \in Int /\ m < size * q + size
  BY <1>1
<1>3. q <= page  BY <1>2
<1>4. size * q <= size * page  BY <1>1, <1>2, <1>3
<1> QED  BY <1>1, <1>2, <1>4

-----------------------------------------------------------------------------
(* The inductive invariant.                                                 *)

\* How many days of a window are shown before day d, newest first.
Newer(window, d) == Cardinality({e \in Shown(window) : e > d})

Fetched == UNION {[D -> Records] : D \in SUBSET HistoryDays}
PriceRow == [nav : Nat \cup {None}]

SyncType ==
    [phase : SyncPhases, window : SUBSET HistoryDays, size : Nat \ {0}, page : Nat \ {0},
     pages : Int, records : Fetched, failed : BOOLEAN, atStart : SUBSET HistoryDays,
     seen : SUBSET (HistoryDays \X Records), daily : BOOLEAN]

NavTypes ==
    /\ source \in [HistoryDays -> Records \cup {None}]
    /\ navRows \in [HistoryDays -> NavRow \cup {None}]
    /\ priceRows \in [HistoryDays -> PriceRow \cup {None}]
    /\ sync \in SyncType

\* A window has no gap, and what was fetched or stored has been shown.
WindowsAreWhole ==
    /\ \A d, f \in sync.window, e \in HistoryDays : d <= e /\ e <= f => e \in sync.window
    /\ DOMAIN sync.records \subseteq sync.window
    /\ \A d \in DOMAIN sync.records : <<d, sync.records[d]>> \in sync.seen /\ source[d] # None
    /\ \A d \in HistoryDays : navRows[d] # None => source[d] # None

\* While it pages: what was shown at the start is fetched once the pages have passed it.
PagesReachBack ==
    /\ sync.phase = "paging" =>
          /\ \A d \in Shown(sync.window) : <<d, source[d]>> \in sync.seen
          /\ sync.atStart \subseteq Shown(sync.window)
          /\ \A d \in sync.atStart :
                Newer(sync.window, d) < (sync.page - 1) * sync.size => d \in DOMAIN sync.records
    /\ sync.phase \in {"fetched", "prices", "done"} => sync.atStart \subseteq DOMAIN sync.records
    /\ sync.phase \in {"paging", "fetched"} =>
          \A d \in sync.window : navRows[d] # None => d \in sync.atStart

StoredBefore(d) == {e \in HistoryDays : e < d /\ navRows[e] # None}

\* Once stored: the rows are those of the records, each based on the row before it.
RowsAreThoseFetched ==
    sync.phase \in {"prices", "done"} /\ ~sync.failed =>
        /\ \A d \in DOMAIN sync.records :
              /\ navRows[d].nav = sync.records[d].nav
              /\ navRows[d].published = sync.records[d].published
              /\ navRows[d].base = IF StoredBefore(d) = {} THEN None
                                   ELSE navRows[Max(StoredBefore(d))].nav
        /\ "NAV_RETURN_MISMATCH" \in navIssues
              <=> \E d \in DOMAIN sync.records : Mismatch(navRows[d])

NavInv == /\ NavTypes /\ WindowsAreWhole /\ PagesReachBack /\ RowsAreThoseFetched
          /\ PremiumsAreCurrent

EmptyFetch == [d \in {} |-> None]

LEMMA EmptyIsFetched == EmptyFetch \in Fetched /\ DOMAIN EmptyFetch = {}
<1>1. EmptyFetch \in [{} -> Records]  BY DEF EmptyFetch
<1> QED  BY <1>1 DEF Fetched, EmptyFetch

\* Nothing is shown, stored or synced.
LEMMA InitNavs == NavInit => NavInv
<1> SUFFICES ASSUME NavInit  PROVE NavInv
  OBVIOUS
<1>1. sync = [phase |-> "idle", window |-> {}, size |-> 1, page |-> 1, pages |-> 1,
              records |-> EmptyFetch, failed |-> FALSE, atStart |-> {}, seen |-> {},
              daily |-> TRUE]
  BY DEF NavInit, EmptyFetch
<1>2. NavTypes  BY <1>1, EmptyIsFetched DEF NavInit, NavTypes, SyncType, SyncPhases
<1>3. WindowsAreWhole  BY <1>1, EmptyIsFetched DEF NavInit, WindowsAreWhole
<1>4. PagesReachBack /\ RowsAreThoseFetched /\ PremiumsAreCurrent
  BY <1>1 DEF PagesReachBack, RowsAreThoseFetched, PremiumsAreCurrent
<1> QED  BY <1>2, <1>3, <1>4 DEF NavInv

\* What the source publishes can only push back the days that are to be fetched.
LEMMA PublishKeeps ==
  ASSUME NavInv, NEW d0 \in HistoryDays, NEW record \in Records, PublishNav(d0, record)
  PROVE  NavInv'
<1> USE DEF NavInv
<1>1. /\ source' = [source EXCEPT ![d0] = record] /\ UNCHANGED <<navRows, priceRows, navIssues>>
      /\ sync' = IF d0 \in sync.window /\ sync.phase = "paging"
                 THEN [sync EXCEPT !.seen = @ \cup {<<d0, record>>}] ELSE sync
  BY DEF PublishNav
<1>2. record # None  BY NavAssumption
<1>3. /\ sync'.phase = sync.phase /\ sync'.window = sync.window /\ sync'.size = sync.size
      /\ sync'.page = sync.page /\ sync'.records = sync.records /\ sync'.failed = sync.failed
      /\ sync'.daily = sync.daily
      /\ sync'.atStart = sync.atStart /\ sync.seen \subseteq sync'.seen
      /\ d0 \in sync.window /\ sync.phase = "paging" => <<d0, record>> \in sync'.seen
  BY <1>1 DEF NavTypes, SyncType
<1>4. \A d \in HistoryDays : /\ source'[d] = IF d = d0 THEN record ELSE source[d]
                             /\ source[d] # None => source'[d] # None
  BY <1>1, <1>2 DEF NavTypes, SyncType
<1>5. NavTypes'
  <2>1. source' \in [HistoryDays -> Records \cup {None}]  BY <1>1 DEF NavTypes, SyncType
  <2>2. sync' \in SyncType
    BY <1>1 DEF NavTypes, SyncType
  <2> QED  BY <1>1, <2>1, <2>2 DEF NavTypes, SyncType
<1>6. WindowsAreWhole'
  <2>1. DOMAIN sync.records \subseteq HistoryDays  BY DEF NavTypes, SyncType, WindowsAreWhole
  <2> QED  BY <1>1, <1>3, <1>4, <2>1 DEF WindowsAreWhole
<1>7. PagesReachBack'
  <2> DEFINE before == {d \in sync.window : source[d] # None}
             after == {d \in sync.window : source'[d] # None}
  <2>1. sync.window \subseteq HistoryDays  BY DEF NavTypes, SyncType
  <2>2. before = Shown(sync.window) /\ after = Shown(sync.window)' /\ before \subseteq after
    BY <1>3, <1>4, <2>1 DEF Shown
  <2>3. before \in SUBSET HistoryDays /\ after \in SUBSET HistoryDays  BY <2>1
  <2>4. ASSUME sync.phase = "paging", NEW d \in after  PROVE <<d, source'[d]>> \in sync'.seen
    <3>1. CASE d = d0  BY <1>3, <1>4, <2>1, <2>4, <3>1
    <3>2. CASE d # d0  BY <1>3, <1>4, <2>1, <2>2, <2>4, <3>2 DEF PagesReachBack
    <3> QED  BY <3>1, <3>2
  <2> DEFINE reach == (sync.page - 1) * sync.size
  <2>5. reach \in Int  BY DEF NavTypes, SyncType
  <2> HIDE DEF before, after, reach
  <2>6. ASSUME sync.phase = "paging", NEW d \in sync.atStart,
               Cardinality({e \in after : e > d}) < reach
        PROVE  d \in DOMAIN sync.records
    <3>1. /\ Cardinality({e \in before : e > d}) <= Cardinality({e \in after : e > d})
          /\ Cardinality({e \in before : e > d}) \in Nat /\ Cardinality({e \in after : e > d}) \in Nat
      BY <2>2, <2>3, MoreAreNewer
    <3>2. Cardinality({e \in before : e > d}) < reach  BY <2>5, <2>6, <3>1
    <3> QED  BY <2>2, <2>6, <3>2 DEF PagesReachBack, Newer, reach
  <2>7. sync.phase = "paging" => sync.atStart \subseteq after  BY <2>2 DEF PagesReachBack
  <2>8. sync'.phase = "paging" =>
          /\ \A d \in Shown(sync.window)' : <<d, source'[d]>> \in sync'.seen
          /\ sync'.atStart \subseteq Shown(sync.window)'
          /\ \A d \in sync'.atStart :
                Newer(sync.window, d)' < (sync'.page - 1) * sync'.size => d \in DOMAIN sync'.records
    BY <1>3, <2>2, <2>4, <2>6, <2>7 DEF Newer, reach
  <2> QED  BY <1>1, <1>3, <2>8 DEF PagesReachBack
<1>8. RowsAreThoseFetched'
  BY <1>1, <1>3 DEF RowsAreThoseFetched, StoredBefore, Mismatch
<1>9. PremiumsAreCurrent'  BY <1>1, <1>3 DEF PremiumsAreCurrent
<1> QED  BY <1>5, <1>6, <1>7, <1>8, <1>9

\* A sync begins with nothing fetched; what is stored in its window is shown.
LEMMA StartNavSyncKeeps ==
  ASSUME NavInv, NEW first \in Int, NEW last \in Int, NEW size \in PageSizes,
         NEW daily \in BOOLEAN, StartNavSync(first, last, size, daily)
  PROVE  NavInv'
<1> USE DEF NavInv
<1> DEFINE window == {d \in HistoryDays : first <= d /\ d <= last}
           shown == {<<d, source[d]>> : d \in Shown(window)}
<1>1. /\ sync' = [phase |-> "paging", window |-> window, size |-> size, page |-> 1, pages |-> 1,
                  records |-> EmptyFetch, failed |-> FALSE, atStart |-> Shown(window),
                  seen |-> shown, daily |-> daily]
      /\ UNCHANGED <<source, revisions, navRows, priceRows, navIssues>>
  BY DEF StartNavSync, EmptyFetch
<1>2. /\ first \in Int /\ last \in Int /\ size \in Nat \ {0} /\ HistoryDays \subseteq Nat
  BY HistoryIsFinite, NavAssumption
<1>3. /\ window \subseteq HistoryDays
      /\ \A d, f \in window, e \in HistoryDays : d <= e /\ e <= f => e \in window
  BY <1>2
<1>4. Shown(window) \subseteq window /\ \A d \in Shown(window) : source[d] \in Records
  <2>1. \A d \in Shown(window) : d \in HistoryDays /\ source[d] # None  BY DEF Shown
  <2> QED  BY <2>1 DEF NavTypes, SyncType, Shown
<1>5. shown \subseteq HistoryDays \X Records
  <2>1. \A d \in Shown(window) : <<d, source[d]>> \in HistoryDays \X Records  BY <1>3, <1>4
  <2> HIDE DEF window
  <2> QED  BY <2>1
<1>6. \A d \in window : navRows[d] # None => d \in Shown(window)
  BY <1>3 DEF WindowsAreWhole, Shown
<1>7. \A d \in Shown(window) : ~ (Newer(window, d) < (1 - 1) * size)
  <2>1. Shown(window) \in SUBSET HistoryDays  BY <1>3, <1>4
  <2>2. (1 - 1) * size = 0  BY <1>2
  <2> HIDE DEF window
  <2>3. \A d \in Shown(window) : Newer(window, d) \in Nat  BY <2>1, NewerAreFewer DEF Newer
  <2> QED  BY <2>2, <2>3
<1>8. \A d \in Shown(window) : <<d, source[d]>> \in shown  OBVIOUS
<1> HIDE DEF window, shown
<1>9. /\ sync'.phase = "paging" /\ sync'.window = window /\ sync'.size = size /\ sync'.page = 1
      /\ sync'.records = EmptyFetch /\ sync'.atStart = Shown(window) /\ sync'.seen = shown
  BY <1>1
<1>10. NavTypes'
  <2>1. Shown(window) \in SUBSET HistoryDays  BY <1>3, <1>4
  <2> QED  BY <1>1, <1>2, <1>3, <1>5, <2>1, EmptyIsFetched DEF NavTypes, SyncType, SyncPhases
<1>11. WindowsAreWhole'  BY <1>1, <1>3, <1>9, EmptyIsFetched DEF WindowsAreWhole
<1>12. PagesReachBack'
  <2>1. Shown(window)' = Shown(window') /\ Shown(sync.window)' = Shown(window)
    BY <1>1, <1>9 DEF Shown, window
  <2>2. \A d : Newer(sync.window, d)' = Newer(window, d)  BY <2>1 DEF Newer
  <2> QED  BY <1>1, <1>6, <1>7, <1>8, <1>9, <2>1, <2>2 DEF PagesReachBack
<1>13. RowsAreThoseFetched' /\ PremiumsAreCurrent'
  BY <1>9 DEF RowsAreThoseFetched, PremiumsAreCurrent
<1> QED  BY <1>10, <1>11, <1>12, <1>13

\* A page adds the days it reaches; the last one leaves none of those at the start.
LEMMA FetchPageKeeps ==
  ASSUME NavInv, FetchPage
  PROVE  NavInv'
<1> USE DEF NavInv
<1> DEFINE W == sync.window
           shown == Shown(W)
           newer(d) == Cardinality({e \in shown : e > d})
           rows == Page(W, sync.size, sync.page)
           pages == (Cardinality(shown) + sync.size - 1) \div sync.size
           records == Upsert([d \in rows |-> source[d]], sync.records)
           ended == ~ (sync.page + 1 <= pages)
           reach == sync.page * sync.size
<1>1. /\ sync.phase = "paging"
      /\ sync' = IF ~ended
                 THEN [sync EXCEPT !.page = @ + 1, !.pages = pages, !.records = records]
                 ELSE [sync EXCEPT !.page = 1, !.pages = 1, !.size = 1, !.records = records,
                                   !.phase = "fetched"]
      /\ UNCHANGED <<source, revisions, navRows, priceRows, navIssues>>
  <2>1. /\ sync.phase = "paging"
        /\ UNCHANGED <<source, revisions, navRows, priceRows, navIssues>>
    BY DEF FetchPage
  <2>2. sync' = IF ~ended
                THEN [sync EXCEPT !.page = @ + 1, !.pages = pages, !.records = records]
                ELSE [sync EXCEPT !.page = 1, !.pages = 1, !.size = 1, !.records = records,
                                  !.phase = "fetched"]
    BY DEF FetchPage, PagesAfter, PageCount
  <2> QED  BY <2>1, <2>2
<1>2. /\ W \subseteq HistoryDays /\ shown \subseteq W /\ rows \subseteq shown
      /\ sync.size \in Nat \ {0} /\ sync.page \in Nat \ {0} /\ reach \in Nat
      /\ \A d \in shown : source[d] \in Records /\ source[d] # None
  <2>1. W \subseteq HistoryDays /\ sync.size \in Nat \ {0} /\ sync.page \in Nat \ {0}
    BY DEF NavTypes, SyncType
  <2>2. reach \in Nat  BY <2>1
  <2>3. shown \subseteq W /\ rows \subseteq shown  BY DEF Shown, Page
  <2>4. \A d \in shown : d \in HistoryDays /\ source[d] # None  BY <2>1 DEF Shown
  <2> QED  BY <2>1, <2>2, <2>3, <2>4 DEF NavTypes, SyncType
<1>3. \A d \in shown : ((sync.page - 1) * sync.size <= newer(d) /\ newer(d) < reach) <=> d \in rows
  BY DEF Page
<1>4. \A d \in shown : newer(d) \in Nat /\ newer(d) < Cardinality(shown) /\ Cardinality(shown) \in Nat
  BY <1>2, NewerAreFewer
<1>5. ended => Cardinality(shown) <= reach
  <2>1. Cardinality(shown) \in Nat  BY <1>2, HistoryIsFinite, FS_Subset, FS_CardinalityType
  <2> QED  BY <1>2, <2>1, PagesHoldAll
<1>6. /\ DOMAIN records = rows \cup DOMAIN sync.records
      /\ \A d \in DOMAIN records :
            records[d] = IF d \in rows THEN source[d] ELSE sync.records[d]
  BY DEF Upsert
<1>7. \A d \in sync.atStart : newer(d) < reach => d \in DOMAIN records
  <2> SUFFICES ASSUME NEW d \in sync.atStart, newer(d) < reach, d \notin rows
               PROVE  d \in DOMAIN sync.records
    BY <1>6
  <2>1. d \in shown  BY <1>1 DEF PagesReachBack
  <2>2. (sync.page - 1) * sync.size \in Int  BY <1>2
  <2>3. newer(d) < (sync.page - 1) * sync.size  BY <1>3, <1>4, <2>1, <2>2
  <2> QED  BY <1>1, <2>3 DEF PagesReachBack, Newer
<1>8. ended => sync.atStart \subseteq DOMAIN records
  <2>1. sync.atStart \subseteq shown  BY <1>1 DEF PagesReachBack
  <2> HIDE DEF newer, reach, ended, records, shown
  <2>2. ended => \A d \in shown : newer(d) < reach  BY <1>2, <1>4, <1>5
  <2> QED  BY <1>7, <2>1, <2>2
<1>9. records \in Fetched /\ DOMAIN records \subseteq W
  <2>1. DOMAIN records \subseteq W  BY <1>2, <1>6 DEF WindowsAreWhole
  <2>2. \A d \in DOMAIN sync.records : sync.records[d] \in Records
    BY DEF NavTypes, SyncType, Fetched
  <2>3. \A d \in DOMAIN records : records[d] \in Records  BY <1>2, <1>6, <2>2
  <2>4. records = [d \in DOMAIN records |-> records[d]]  BY DEF Upsert
  <2>5. records \in [DOMAIN records -> Records]  BY <2>3, <2>4
  <2> QED  BY <1>2, <2>1, <2>5 DEF Fetched
<1>10. \A d \in DOMAIN records : <<d, records[d]>> \in sync.seen /\ source[d] # None
  BY <1>1, <1>2, <1>6 DEF PagesReachBack, WindowsAreWhole
<1>11. pages \in Int
  <2>1. Cardinality(shown) \in Nat  BY <1>2, HistoryIsFinite, FS_Subset, FS_CardinalityType
  <2> QED  BY <1>2, <2>1
<1> HIDE DEF rows, pages, records, ended, reach
<1>12. /\ sync'.window = W /\ sync'.records = records /\ sync'.atStart = sync.atStart
       /\ sync'.seen = sync.seen /\ sync'.phase = IF ended THEN "fetched" ELSE "paging"
       /\ ~ended => sync'.page = sync.page + 1 /\ sync'.size = sync.size
  BY <1>1 DEF NavTypes, SyncType
<1>13. NavTypes'
  <2>1. sync' \in SyncType
    <3> DEFINE next == sync.page + 1
    <3>1. next \in Nat \ {0}  BY <1>2
    <3>2. \/ sync' = [sync EXCEPT !.page = next, !.pages = pages, !.records = records]
          \/ sync' = [sync EXCEPT !.page = 1, !.pages = 1, !.size = 1, !.records = records,
                                  !.phase = "fetched"]
      BY <1>1
    <3>3. sync \in SyncType /\ records \in Fetched  BY <1>9 DEF NavTypes
    <3> HIDE DEF next, W, shown, newer, NavInv
    <3>4. CASE sync' = [sync EXCEPT !.page = next, !.pages = pages, !.records = records]
      BY <1>11, <3>1, <3>3, <3>4 DEF SyncType
    <3>5. CASE sync' = [sync EXCEPT !.page = 1, !.pages = 1, !.size = 1, !.records = records,
                                    !.phase = "fetched"]
      <4> DEFINE one == 1
                 end == "fetched"
      <4>1. one \in Nat \ {0} /\ one \in Int /\ end \in SyncPhases  BY DEF SyncPhases
      <4>2. sync' = [sync EXCEPT !.page = one, !.pages = one, !.size = one, !.records = records,
                                 !.phase = end]
        BY <3>5
      <4> HIDE DEF one, end
      <4> QED  BY <3>3, <4>1, <4>2 DEF SyncType
    <3> QED  BY <3>2, <3>4, <3>5
  <2> QED  BY <1>1, <2>1 DEF NavTypes, SyncType
<1>14. WindowsAreWhole'  BY <1>1, <1>9, <1>10, <1>12 DEF WindowsAreWhole
<1>15. PagesReachBack'
  <2>1. Shown(sync.window)' = shown  BY <1>1, <1>12 DEF Shown
  <2>2. \A d : Newer(sync.window, d)' = newer(d)  BY <2>1 DEF Newer
  <2>3. ~ended => (sync'.page - 1) * sync'.size = reach
    <3>1. ~ended => sync'.page - 1 = sync.page  BY <1>2, <1>12
    <3> QED  BY <1>12, <3>1 DEF reach
  <2>4. \A d \in W : navRows[d] # None => d \in sync.atStart  BY <1>1 DEF PagesReachBack
  <2>5. /\ \A d \in shown : <<d, source[d]>> \in sync.seen
        /\ sync.atStart \subseteq shown
    BY <1>1 DEF PagesReachBack
  <2> HIDE DEF W, shown, newer
  <2>6. CASE ended  BY <1>1, <1>8, <1>12, <2>4, <2>6 DEF PagesReachBack
  <2>7. CASE ~ended  BY <1>1, <1>7, <1>12, <2>1, <2>2, <2>3, <2>4, <2>5, <2>7 DEF PagesReachBack
  <2> QED  BY <2>6, <2>7
<1>16. RowsAreThoseFetched' /\ PremiumsAreCurrent'
  BY <1>12 DEF RowsAreThoseFetched, PremiumsAreCurrent
<1> QED  BY <1>13, <1>14, <1>15, <1>16

\* The NAVs of the share fail: what was fetched is dropped, the rows stay.
LEMMA FailNavKeeps ==
  ASSUME NavInv, FailNav
  PROVE  NavInv'
<1> USE DEF NavInv
<1>1. /\ sync' = [sync EXCEPT !.phase = AfterNavs, !.failed = TRUE, !.page = 1, !.pages = 1,
                              !.size = 1, !.atStart = {}, !.seen = {}, !.records = EmptyFetch]
      /\ UNCHANGED <<source, revisions, navRows, priceRows>>
  BY DEF FailNav, EmptyFetch
<1>2. /\ sync'.phase \in {"prices", "done"}
      /\ sync'.phase = "done" => ~sync.daily
      /\ sync'.failed = TRUE /\ sync'.records = EmptyFetch
      /\ sync'.atStart = {} /\ sync'.window = sync.window /\ sync'.daily = sync.daily
  BY <1>1 DEF AfterNavs, NavTypes, SyncType
<1>3. NavTypes'
  <2> DEFINE one == 1
             place == AfterNavs
             yes == TRUE
  <2>1. one \in Nat \ {0} /\ one \in Int /\ place \in SyncPhases /\ yes \in BOOLEAN
    BY DEF AfterNavs, SyncPhases
  <2>2. sync' = [sync EXCEPT !.phase = place, !.failed = yes, !.page = one, !.pages = one,
                             !.size = one, !.atStart = {}, !.seen = {}, !.records = EmptyFetch]
    BY <1>1
  <2> HIDE DEF one, place, yes
  <2>3. sync' \in SyncType  BY <2>1, <2>2, EmptyIsFetched DEF NavTypes, SyncType
  <2> QED  BY <1>1, <2>3 DEF NavTypes
<1>4. WindowsAreWhole'  BY <1>1, <1>2, EmptyIsFetched DEF WindowsAreWhole
<1>5. PagesReachBack'  BY <1>2 DEF PagesReachBack
<1>6. RowsAreThoseFetched' /\ PremiumsAreCurrent'
  BY <1>2 DEF RowsAreThoseFetched, PremiumsAreCurrent
<1> QED  BY <1>3, <1>4, <1>5, <1>6

\* What becomes of a record: a row calculated against the NAV before it.
StoredRow(d) == [nav |-> sync.records[d].nav, published |-> sync.records[d].published,
                 base |-> PreviousNav(sync.records, d)]

\* The day before a record: in the records, and where there is none, in the table.
\* Either way it is the last day before it that has a row once the records are stored.
LEMMA StoredRows ==
  ASSUME NavInv, StoreNavs
  PROVE  LET rows == DOMAIN sync.records
         IN /\ \A d \in HistoryDays :
                  navRows'[d] = IF d \in rows THEN StoredRow(d) ELSE navRows[d]
            /\ \A d \in rows : StoredRow(d) \in NavRow
            /\ \A d \in HistoryDays : navRows'[d] # None <=> d \in rows \/ navRows[d] # None
            /\ \A d \in rows :
                  /\ navRows'[d].nav = sync.records[d].nav
                  /\ navRows'[d].published = sync.records[d].published
                  /\ navRows'[d].base = IF StoredBefore(d)' = {} THEN None
                                        ELSE navRows'[Max(StoredBefore(d)')].nav
            /\ \A c, d \in rows, e \in HistoryDays :
                  e < d /\ navRows[e] # None /\ e \notin rows => e < c
<1> USE DEF NavInv
<1> DEFINE records == sync.records
           rows == DOMAIN records
           row(d) == StoredRow(d)
           stored == [d \in rows |-> row(d)]
<1>1. sync.phase = "fetched" /\ rows # {} /\ navRows' = Upsert(stored, navRows)
  BY DEF StoreNavs, StoredRow
<1>2. /\ rows \subseteq sync.window /\ rows \subseteq HistoryDays /\ HistoryDays \subseteq Nat
      /\ \A d \in rows : records[d] \in Records
  BY HistoryIsFinite DEF NavTypes, SyncType, Fetched, WindowsAreWhole
<1>4. \A d \in HistoryDays : navRows'[d] = IF d \in rows THEN row(d) ELSE navRows[d]
  BY <1>1, <1>2 DEF Upsert, NavTypes
<1>5. \A d \in HistoryDays : navRows[d] # None => navRows[d].nav \in Nat
  BY DEF NavTypes, NavRow
<1>6. \A d \in rows : PreviousNav(records, d) \in Nat \cup {None}
  <2> SUFFICES ASSUME NEW d \in rows  PROVE PreviousNav(records, d) \in Nat \cup {None}
    OBVIOUS
  <2> DEFINE earlier == {e \in rows : e < d}
             before == {e \in HistoryDays : e < Min(rows) /\ navRows[e] # None}
  <2>1. PreviousNav(records, d) = IF earlier # {} THEN records[Max(earlier)].nav
                                  ELSE IF before # {} THEN navRows[Max(before)].nav
                                  ELSE None
    BY DEF PreviousNav
  <2>2. earlier # {} => Max(earlier) \in rows
    <3>1. earlier \in SUBSET HistoryDays /\ earlier \subseteq rows  BY <1>2
    <3> QED  BY <3>1, LastDay
  <2>3. before # {} => Max(before) \in HistoryDays /\ navRows[Max(before)] # None
    <3>1. before \in SUBSET HistoryDays  OBVIOUS
    <3> QED  BY <3>1, LastDay
  <2> HIDE DEF earlier, before
  <2>4. \A e \in rows : records[e].nav \in Nat  BY <1>2, NavAssumption
  <2> QED  BY <1>5, <2>1, <2>2, <2>3, <2>4
<1>7. \A d \in rows : row(d) \in NavRow /\ row(d) # None
  <2> SUFFICES ASSUME NEW d \in rows  PROVE row(d) \in NavRow
    BY NavAssumption
  <2>1. records[d].nav \in Nat /\ records[d].published \in {r.published : r \in Records}
    BY <1>2, NavAssumption
  <2> DEFINE base == PreviousNav(records, d)
  <2>2. base \in Nat \cup {None}  BY <1>6
  <2> HIDE DEF base, records
  <2>3. [nav |-> records[d].nav, published |-> records[d].published, base |-> base] \in NavRow
    BY <2>1, <2>2 DEF NavRow
  <2> QED  BY <2>3 DEF base, records, StoredRow
<1>8. /\ \A e \in HistoryDays : navRows'[e] # None <=> e \in rows \/ navRows[e] # None
      /\ \A d \in rows : /\ navRows'[d].nav = records[d].nav
                         /\ navRows'[d].published = records[d].published
                         /\ navRows'[d].base = PreviousNav(records, d)
  <2>1. \A d \in rows : navRows'[d] = row(d)  BY <1>2, <1>4
  <2>2. \A d \in rows : /\ row(d).nav = records[d].nav
                        /\ row(d).published = records[d].published
                        /\ row(d).base = PreviousNav(records, d)
    BY DEF StoredRow
  <2> HIDE DEF row, records
  <2> QED  BY <1>4, <1>7, <2>1, <2>2
<1>9. ASSUME NEW c \in rows, NEW d \in rows, NEW e \in HistoryDays,
             e < d, navRows[e] # None, e \notin rows
      PROVE  e < c
  <2>1. e \notin sync.window  BY <1>1, <1>9 DEF PagesReachBack
  <2>2. ~ (c <= e)
    <3>1. c \in sync.window /\ d \in sync.window  BY <1>2, <1>9
    <3>2. d \in Nat /\ e \in Nat /\ e < d  BY <1>2, <1>9
    <3>3. e <= d  BY <3>2
    <3> QED  BY <1>9, <2>1, <3>1, <3>3 DEF WindowsAreWhole
  <2>3. c \in Nat /\ e \in Nat  BY <1>2, <1>9
  <2> QED  BY <2>2, <2>3
<1>10. ASSUME NEW d \in rows
       PROVE  PreviousNav(records, d) = IF StoredBefore(d)' = {} THEN None
                                        ELSE navRows'[Max(StoredBefore(d)')].nav
  <2> DEFINE earlier == {e \in rows : e < d}
             before == {e \in HistoryDays : e < Min(rows) /\ navRows[e] # None}
             last == {e \in HistoryDays : e < d /\ navRows'[e] # None}
  <2>1. PreviousNav(records, d) = IF earlier # {} THEN records[Max(earlier)].nav
                                  ELSE IF before # {} THEN navRows[Max(before)].nav
                                  ELSE None
    BY DEF PreviousNav
  <2>2. last = StoredBefore(d)' /\ last \in SUBSET HistoryDays  BY DEF StoredBefore
  <2>3. CASE earlier # {}
    <3>1. earlier \in SUBSET HistoryDays /\ earlier \subseteq rows  BY <1>2
    <3>2. Max(earlier) \in rows  BY <2>3, <3>1, LastDay
    <3>3. earlier \subseteq last  BY <1>2, <1>8
    <3>4. ASSUME NEW e \in last \ earlier  PROVE \E c \in earlier : e < c
      <4>1. e \in HistoryDays /\ e < d /\ e \notin rows /\ navRows[e] # None
        BY <1>8, <3>4
      <4>2. PICK c \in earlier : TRUE  BY <2>3
      <4> QED  BY <1>9, <3>1, <4>1, <4>2
    <3> HIDE DEF earlier, last, before
    <3>5. Max(last) = Max(earlier)  BY <2>2, <2>3, <3>1, <3>3, <3>4, SameLastDay
    <3> QED  BY <1>8, <2>1, <2>2, <2>3, <3>2, <3>3, <3>5
  <2>4. CASE earlier = {}
    <3>1. Min(rows) \in rows /\ Min(rows) <= d  BY <1>1, <1>2, FirstDay
    <3>2. Min(rows) = d
      <4>1. ~ (Min(rows) < d)  BY <2>4, <3>1
      <4>2. Min(rows) \in Nat /\ d \in Nat  BY <1>2, <1>10, <3>1
      <4> QED  BY <3>1, <4>1, <4>2
    <3>3. \A e \in HistoryDays : e < d => e \notin rows /\ navRows'[e] = navRows[e]
      BY <1>4, <2>4
    <3>4. before = last  BY <3>2, <3>3
    <3>5. last # {} => navRows'[Max(last)] = navRows[Max(last)]
      <4>1. last # {} => Max(last) \in last
        <5> HIDE DEF last
        <5> QED  BY <2>2, LastDay
      <4> QED  BY <3>3, <4>1
    <3> HIDE DEF before, last, earlier
    <3> QED  BY <2>1, <2>2, <2>4, <3>4, <3>5
  <2> QED  BY <2>3, <2>4
<1> QED  BY <1>2, <1>4, <1>7, <1>8, <1>9, <1>10

\* The rows of the records are stored, and the sync goes on to the prices or ends.
LEMMA StoreNavsKeeps ==
  ASSUME NavInv, StoreNavs
  PROVE  NavInv'
<1> USE DEF NavInv
<1> DEFINE records == sync.records
           rows == DOMAIN records
           stored == [d \in rows |-> StoredRow(d)]
           place == AfterNavs
<1>1. /\ sync.phase = "fetched" /\ rows # {}
      /\ navRows' = Upsert(stored, navRows)
      /\ navIssues' = (navIssues \ {"NAV_SYNC_FAILED", "NAV_RETURN_MISMATCH"})
                          \cup (IF \E d \in DOMAIN stored : Mismatch(stored[d])
                                THEN {"NAV_RETURN_MISMATCH"} ELSE {})
      /\ sync' = [sync EXCEPT !.phase = place]
      /\ UNCHANGED <<source, revisions, priceRows>>
  BY DEF StoreNavs, StoredRow
<1>2. /\ rows \subseteq HistoryDays /\ place \in {"prices", "done"} /\ place \in SyncPhases
      /\ place = "done" => ~sync.daily
  BY DEF NavTypes, SyncType, WindowsAreWhole, AfterNavs, SyncPhases
<1>3. /\ sync'.phase = place /\ sync'.records = records /\ sync'.window = sync.window
      /\ sync'.seen = sync.seen /\ sync'.atStart = sync.atStart /\ sync'.daily = sync.daily
  BY <1>1 DEF NavTypes, SyncType
<1> HIDE DEF place
<1>4. /\ \A d \in HistoryDays : navRows'[d] = IF d \in rows THEN StoredRow(d) ELSE navRows[d]
      /\ \A d \in rows : StoredRow(d) \in NavRow
      /\ \A d \in HistoryDays : navRows'[d] # None <=> d \in rows \/ navRows[d] # None
      /\ \A d \in rows :
            /\ navRows'[d].nav = sync.records[d].nav
            /\ navRows'[d].published = sync.records[d].published
            /\ navRows'[d].base = IF StoredBefore(d)' = {} THEN None
                                  ELSE navRows'[Max(StoredBefore(d)')].nav
  BY StoredRows
<1>5. NavTypes'
  <2>1. sync' \in SyncType  BY <1>1, <1>2 DEF NavTypes, SyncType
  <2>2. navRows' \in [HistoryDays -> NavRow \cup {None}]
    <3>1. DOMAIN navRows' = HistoryDays /\ navRows' = [d \in DOMAIN navRows' |-> navRows'[d]]
      BY <1>1, <1>2 DEF Upsert, NavTypes
    <3>2. \A d \in HistoryDays : navRows'[d] \in NavRow \cup {None}
      BY <1>4 DEF NavTypes
    <3> QED  BY <3>1, <3>2
  <2> QED  BY <1>1, <2>1, <2>2 DEF NavTypes
<1>6. WindowsAreWhole'
  <2>1. \A d \in HistoryDays : navRows'[d] # None => source'[d] # None
    BY <1>1, <1>4 DEF WindowsAreWhole
  <2> QED  BY <1>1, <1>3, <2>1 DEF WindowsAreWhole
<1>7. PagesReachBack'  BY <1>1, <1>2, <1>3 DEF PagesReachBack
<1>8. RowsAreThoseFetched'
  <2>1. "NAV_RETURN_MISMATCH" \in navIssues' <=> \E d \in rows : Mismatch(navRows'[d])
    <3>1. \A d \in rows : stored[d] = navRows'[d]  BY <1>2, <1>4
    <3>2. DOMAIN stored = rows  OBVIOUS
    <3> HIDE DEF stored
    <3> QED  BY <1>1, <3>1, <3>2
  <2>2. \A d \in rows : Mismatch(navRows[d])' <=> Mismatch(navRows'[d])  BY DEF Mismatch
  <2> QED  BY <1>3, <1>4, <2>1, <2>2 DEF RowsAreThoseFetched
<1>9. PremiumsAreCurrent'  BY <1>2, <1>3 DEF PremiumsAreCurrent
<1> QED  BY <1>5, <1>6, <1>7, <1>8, <1>9

\* A row whose return was calculated against the row before it has that row before it
\* still, unless the records are written between the two.
LEMMA StoredNavsKeepReturns ==
  ASSUME NavInv, StoreNavs, NEW d \in HistoryDays, ReturnIsCurrent(d)
  PROVE  ReturnIsCurrent(d)' \/ FirstAfter(DOMAIN sync.records, d)
<1> DEFINE rows == DOMAIN sync.records
           was == StoredBefore(d)
           is == StoredBefore(d)'
<1>1. rows \subseteq HistoryDays /\ HistoryDays \subseteq Nat
  BY HistoryIsFinite DEF NavInv, NavTypes, SyncType, WindowsAreWhole
<1>2. /\ navRows[d] # None
      /\ navRows[d].base = IF was = {} THEN None ELSE navRows[Max(was)].nav
  BY DEF ReturnIsCurrent, StoredBefore
<1>3. ReturnIsCurrent(d)' <=> /\ navRows'[d] # None
                              /\ navRows'[d].base = IF is = {} THEN None
                                                    ELSE navRows'[Max(is)].nav
  BY DEF ReturnIsCurrent, StoredBefore
<1>4. /\ \A e \in HistoryDays : e \notin rows => navRows'[e] = navRows[e]
      /\ \A e \in HistoryDays : navRows'[e] # None <=> e \in rows \/ navRows[e] # None
      /\ d \in rows => navRows'[d].base = IF is = {} THEN None ELSE navRows'[Max(is)].nav
      /\ \A c, f \in rows, e \in HistoryDays :
            e < f /\ navRows[e] # None /\ e \notin rows => e < c
  BY StoredRows
<1>5. was \in SUBSET HistoryDays /\ is \in SUBSET HistoryDays /\ was \subseteq is
  BY <1>4 DEF StoredBefore
<1>6. CASE d \in rows  BY <1>3, <1>4, <1>6
<1>7. CASE d \notin rows /\ \A c \in rows : ~ (c < d)
  <2>1. \A e \in HistoryDays : e < d => e \notin rows  BY <1>7
  <2>2. is = was  BY <1>4, <2>1 DEF StoredBefore
  <2>3. is # {} => Max(is) \in HistoryDays /\ Max(is) < d
    <3>1. \A e \in is : e \in HistoryDays /\ e < d  BY DEF StoredBefore
    <3> HIDE DEF is, was
    <3> QED  BY <1>5, <3>1, LastDay
  <2> HIDE DEF is, was
  <2> QED  BY <1>2, <1>3, <1>4, <1>7, <2>1, <2>2, <2>3
<1>8. CASE d \notin rows /\ (\E c \in rows : c < d) /\ ~ FirstAfter(rows, d)
  <2>1. \A e \in rows : e < d
    <3> SUFFICES ASSUME NEW e \in rows, ~ (e < d)  PROVE FALSE
      OBVIOUS
    <3>1. PICK c \in rows : c < d  BY <1>8
    <3>2. c \in Nat /\ d \in Nat /\ e \in Nat /\ d # e  BY <1>1, <1>8
    <3>3. d < e /\ ~ (d < c)  BY <3>1, <3>2
    <3> QED  BY <1>2, <1>4, <1>8, <3>1, <3>3
  <2>2. PICK e \in HistoryDays : e < d /\ navRows[e] # None /\ \A f \in rows : ~ (e <= f)
    BY <1>8, <2>1 DEF FirstAfter
  <2>3. e \in was /\ e \in is  BY <1>5, <2>2 DEF StoredBefore
  <2>4. \A f \in is \ was : f \in rows /\ f < e
    <3>1. \A f \in is \ was : f \in rows  BY <1>4 DEF StoredBefore
    <3>2. \A f \in rows : f \in Nat /\ e \in Nat  BY <1>1
    <3> HIDE DEF is, was, rows
    <3> QED  BY <2>2, <3>1, <3>2
  <2> HIDE DEF is, was
  <2>5. Max(is) = Max(was)  BY <1>5, <2>3, <2>4, SameLastDay
  <2>6. Max(was) \in was /\ e <= Max(was)  BY <1>5, <2>3, LastDay
  <2>7. Max(was) \in HistoryDays /\ Max(was) \notin rows
    BY <1>1, <1>5, <2>2, <2>6
  <2> QED  BY <1>2, <1>3, <1>4, <1>8, <2>3, <2>5, <2>7
<1> QED  BY <1>6, <1>7, <1>8

\* The prices end the sync: of a NAV that is stored, or not at all.
LEMMA PricesKeep ==
  ASSUME NavInv, PricesFail \/ \E quoted \in SUBSET sync.window : StorePrices(quoted)
  PROVE  NavInv'
<1> USE DEF NavInv
<1>1. /\ sync.phase = "prices" /\ UNCHANGED <<source, revisions, navRows>>
      /\ navIssues' \in {navIssues \cup {"MARKET_PRICE_SYNC_FAILED"},
                         navIssues \ {"MARKET_PRICE_SYNC_FAILED"}}
  BY DEF PricesFail, StorePrices
<1>2. PICK failed \in BOOLEAN :
        /\ sync' = [sync EXCEPT !.phase = "done", !.failed = failed]
        /\ ~failed => ~sync.failed
  <2>1. CASE PricesFail  BY <2>1 DEF PricesFail
  <2>2. CASE \E quoted \in SUBSET sync.window : StorePrices(quoted)
    <3>1. sync' = [sync EXCEPT !.phase = "done"]  BY <2>2 DEF StorePrices
    <3>2. sync' = [sync EXCEPT !.phase = "done", !.failed = sync.failed]
      BY <3>1 DEF NavTypes, SyncType
    <3>3. sync.failed \in BOOLEAN  BY DEF NavTypes, SyncType
    <3> QED  BY <3>2, <3>3
  <2> QED  BY <2>1, <2>2
<1>3. /\ sync'.phase = "done" /\ sync'.records = sync.records /\ sync'.window = sync.window
      /\ sync'.seen = sync.seen /\ sync'.atStart = sync.atStart
      /\ ~sync'.failed => ~sync.failed
  BY <1>2 DEF NavTypes, SyncType
<1>4. ASSUME NEW quoted \in SUBSET sync.window, StorePrices(quoted)
      PROVE  /\ priceRows' \in [HistoryDays -> PriceRow \cup {None}]
             /\ \A d \in HistoryDays : priceRows'[d] = IF d \in quoted THEN Premium(d) ELSE priceRows[d]
             /\ \A d \in sync.window : priceRows[d] # None => d \in quoted
  <2> DEFINE new == [d \in quoted |-> Premium(d)]
  <2>1. quoted \subseteq HistoryDays /\ sync.window \subseteq HistoryDays
    BY DEF NavTypes, SyncType
  <2>2. priceRows' = Upsert(new, priceRows) /\ {d \in sync.window : priceRows[d] # None} \subseteq quoted
    BY <1>4 DEF StorePrices
  <2>3. \A d \in HistoryDays : priceRows'[d] = IF d \in quoted THEN Premium(d) ELSE priceRows[d]
    BY <2>1, <2>2 DEF Upsert, NavTypes
  <2>4. \A d \in quoted : Premium(d) \in PriceRow
    BY <2>1 DEF Premium, PriceRow, NavTypes, NavRow
  <2>5. DOMAIN priceRows' = HistoryDays /\ priceRows' = [d \in DOMAIN priceRows' |-> priceRows'[d]]
    BY <2>1, <2>2 DEF Upsert, NavTypes
  <2>6. \A d \in HistoryDays : priceRows'[d] \in PriceRow \cup {None}
    BY <2>3, <2>4 DEF NavTypes
  <2>7. priceRows' \in [HistoryDays -> PriceRow \cup {None}]  BY <2>5, <2>6
  <2>8. \A d \in sync.window : priceRows[d] # None => d \in quoted  BY <2>2
  <2> QED  BY <2>3, <2>7, <2>8
<1>5. NavTypes'
  <2>1. sync' \in SyncType
    <3> DEFINE place == "done"
    <3>1. PICK flag \in BOOLEAN : sync' = [sync EXCEPT !.phase = place, !.failed = flag]
      BY <1>2
    <3>2. place \in SyncPhases  BY DEF SyncPhases
    <3> HIDE DEF place
    <3> QED  BY <3>1, <3>2 DEF NavTypes, SyncType
  <2>2. priceRows' \in [HistoryDays -> PriceRow \cup {None}]
    BY <1>4 DEF PricesFail, NavTypes
  <2> QED  BY <1>1, <2>1, <2>2 DEF NavTypes
<1>6. WindowsAreWhole'  BY <1>1, <1>3 DEF WindowsAreWhole
<1>7. PagesReachBack'  BY <1>1, <1>3 DEF PagesReachBack
<1>8. RowsAreThoseFetched'
  <2>1. "NAV_RETURN_MISMATCH" \in navIssues' <=> "NAV_RETURN_MISMATCH" \in navIssues  BY <1>1
  <2>2. \A d : StoredBefore(d)' = StoredBefore(d) /\ (Mismatch(navRows[d])' <=> Mismatch(navRows[d]))
    BY <1>1 DEF StoredBefore, Mismatch
  <2> QED  BY <1>1, <1>3, <2>1, <2>2 DEF RowsAreThoseFetched
<1>9. PremiumsAreCurrent'
  <2>1. CASE PricesFail  BY <2>1 DEF PricesFail, PremiumsAreCurrent
  <2>2. ASSUME NEW quoted \in SUBSET sync.window, StorePrices(quoted)  PROVE PremiumsAreCurrent'
    <3> SUFFICES ASSUME NEW d \in sync.window, priceRows'[d] # None, navRows[d] # None
                 PROVE  priceRows'[d].nav = navRows[d].nav
      BY <1>1, <1>3 DEF PremiumsAreCurrent
    <3>1. d \in HistoryDays  BY DEF NavTypes, SyncType
    <3>2. priceRows'[d] = Premium(d)  BY <1>4, <2>2, <3>1
    <3> QED  BY <3>2 DEF Premium
  <2> QED  BY <2>1, <2>2
<1> QED  BY <1>5, <1>6, <1>7, <1>8, <1>9

\* Every step keeps the invariant.
LEMMA StepNavs == NavInv /\ [NavNext]_navVars => NavInv'
<1> SUFFICES ASSUME NavInv, [NavNext]_navVars  PROVE NavInv'
  OBVIOUS
<1>1. CASE UNCHANGED navVars
  <2>1. UNCHANGED <<source, revisions, navRows, priceRows, navIssues, sync>>  BY <1>1 DEF navVars
  <2>2. NavTypes' /\ WindowsAreWhole' /\ PremiumsAreCurrent'
    BY <2>1 DEF NavInv, NavTypes, WindowsAreWhole, PremiumsAreCurrent
  <2>3. PagesReachBack'  BY <2>1 DEF NavInv, PagesReachBack, Newer, Shown
  <2>4. RowsAreThoseFetched'  BY <2>1 DEF NavInv, RowsAreThoseFetched, StoredBefore, Mismatch
  <2> QED  BY <2>2, <2>3, <2>4 DEF NavInv
<1>2. CASE \E d \in HistoryDays, record \in Records : PublishNav(d, record)  BY <1>2, PublishKeeps
<1>3. CASE \/ \E today \in HistoryDays, lookback \in Lookbacks, size \in PageSizes :
                 StartDaily(today, lookback, size)
           \/ \E window \in Backfills, size \in PageSizes :
                 StartBackfill(window[1], window[2], size)
  <2>1. HistoryDays \subseteq Nat /\ Lookbacks \subseteq Nat /\ Backfills \subseteq Int \X Int
    BY HistoryIsFinite, NavAssumption
  <2>2. ASSUME NEW today \in HistoryDays, NEW lookback \in Lookbacks, NEW size \in PageSizes,
               StartDaily(today, lookback, size)
        PROVE  NavInv'
    <3> DEFINE first == today - lookback
    <3>1. first \in Int /\ today \in Int  BY <2>1
    <3>2. StartNavSync(first, today, size, TRUE)  BY <2>2 DEF StartDaily
    <3> HIDE DEF first
    <3> QED  BY <3>1, <3>2, StartNavSyncKeeps
  <2>3. ASSUME NEW window \in Backfills, NEW size \in PageSizes,
               StartBackfill(window[1], window[2], size)
        PROVE  NavInv'
    <3>1. window[1] \in Int /\ window[2] \in Int  BY <2>1
    <3>2. StartNavSync(window[1], window[2], size, FALSE)  BY <2>3 DEF StartBackfill
    <3> QED  BY <3>1, <3>2, StartNavSyncKeeps
  <2> QED  BY <1>3, <2>2, <2>3
<1>4. CASE FetchPage  BY <1>4, FetchPageKeeps
<1>5. CASE FetchFails \/ NoRecords  BY <1>5, FailNavKeeps DEF FetchFails, NoRecords
<1>6. CASE StoreNavs  BY <1>6, StoreNavsKeeps
<1>7. CASE PricesFail \/ \E quoted \in SUBSET sync.window : StorePrices(quoted)
  BY <1>7, PricesKeep
<1> QED  BY <1>1, <1>2, <1>3, <1>4, <1>5, <1>6, <1>7 DEF NavNext

LEMMA NavsStay == NavSpec => []NavInv
<1> QED  BY InitNavs, StepNavs, PTL DEF NavSpec

-----------------------------------------------------------------------------
(* Theorems.                                                                *)

\* Every variable stays in its type; what a record says is all a row can hold.
THEOREM TypesStay == NavSpec => []NavTypes
<1>1. NavInv => NavTypes  BY DEF NavInv
<1> QED  BY <1>1, NavsStay, PTL

\* sync_nav: however the source publishes and revises between two pages, a sync that
\* ends without a failure has stored every day it showed at the start, each as it was
\* shown and calculated against the row before it, and has told of every mismatch.
THEOREM WholeWindowsStored == NavSpec => []SyncedWindowIsWhole
<1>1. ASSUME NavInv  PROVE SyncedWindowIsWhole
  <2> SUFFICES ASSUME sync.phase = "done", ~sync.failed  PROVE SyncedWindowIsWhole
    BY DEF SyncedWindowIsWhole
  <2>1. sync.atStart \subseteq DOMAIN sync.records
    BY <1>1 DEF NavInv, PagesReachBack
  <2>2. \A d \in DOMAIN sync.records :
          /\ <<d, sync.records[d]>> \in sync.seen
          /\ navRows[d].nav = sync.records[d].nav
          /\ navRows[d].published = sync.records[d].published
          /\ navRows[d].base = IF StoredBefore(d) = {} THEN None
                               ELSE navRows[Max(StoredBefore(d))].nav
    BY <1>1 DEF NavInv, WindowsAreWhole, RowsAreThoseFetched
  <2>3. "NAV_RETURN_MISMATCH" \in navIssues
          <=> \E d \in DOMAIN sync.records : Mismatch(navRows[d])
    BY <1>1 DEF NavInv, RowsAreThoseFetched
  <2>4. ASSUME NEW d \in DOMAIN sync.records
        PROVE  \E shown \in sync.seen : /\ shown[1] = d /\ shown[2].nav = navRows[d].nav
                                        /\ shown[2].published = navRows[d].published
    <3> DEFINE shown == <<d, sync.records[d]>>
    <3>1. shown \in sync.seen /\ shown[1] = d /\ shown[2] = sync.records[d]  BY <2>2
    <3> QED  BY <2>2, <3>1
  <2> QED  BY <2>1, <2>2, <2>3, <2>4 DEF SyncedWindowIsWhole, StoredBefore
<1> QED  BY <1>1, NavsStay, PTL

\* sync_exchange_prices: prices that were stored without a failure have their premium
\* over the NAV of their day, in the whole window, also where the NAV was revised.
THEOREM PremiumsFollowNavs == NavSpec => []PremiumsAreCurrent
<1>1. NavInv => PremiumsAreCurrent  BY DEF NavInv
<1> QED  BY <1>1, NavsStay, PTL

\* _upsert_nav_rows: whatever windows are synced or backfilled, in any order, a return
\* that is relative to the row before it stays so, unless its row is the first after
\* the window that is written.
THEOREM ReturnsFollowTheRows == NavSpec => ReturnsStayCurrent
<1>1. ASSUME NavInv, [NavNext]_navVars, NEW d \in HistoryDays, ReturnIsCurrent(d)
      PROVE  ReturnIsCurrent(d)' \/ FirstAfter(DOMAIN sync.records, d)
  <2>1. CASE StoreNavs  BY <1>1, <2>1, StoredNavsKeepReturns
  <2>2. CASE UNCHANGED navRows  BY <1>1, <2>2 DEF ReturnIsCurrent
  <2>3. UNCHANGED navRows \/ StoreNavs
    BY <1>1 DEF NavNext, navVars, PublishNav, StartDaily, StartBackfill, StartNavSync, FetchPage,
                FetchFails, NoRecords, FailNav, StorePrices, PricesFail
  <2> QED  BY <2>1, <2>2, <2>3
<1>2. NavInv /\ [NavNext]_navVars =>
        [\A d \in HistoryDays :
            ReturnIsCurrent(d) => ReturnIsCurrent(d)' \/ FirstAfter(DOMAIN sync.records, d)]_navVars
  BY <1>1
<1> QED  BY <1>2, NavsStay, PTL DEF NavSpec, ReturnsStayCurrent

-----------------------------------------------------------------------------
(* PurchaseLimits: codes and days.                                          *)

LEMMA FirstCode ==
  ASSUME NEW S \in SUBSET Nat, S # {}
  PROVE  Min(S) \in S
<1>1. \E x \in S : \A y \in S : x =< y  BY LeastNatural
<1> QED  BY <1>1 DEF Min

LEMMA DaysAreFinite == \E n \in Nat : LimitDays = 1..n
<1>1. Cardinality(LimitDays) \in Nat  BY FS_CardinalityType, LimitAssumption
<1> QED  BY <1>1, LimitAssumption

LEMMA LastLimitDay ==
  ASSUME NEW S \in SUBSET LimitDays, S # {}
  PROVE  Max(S) \in S /\ \A e \in S : e <= Max(S)
BY DaysAreFinite, LastOfSome

-----------------------------------------------------------------------------
(* What a notice says of a share is in the currency of the share.           *)

LEMMA TextHasCurrency ==
  ASSUME NEW texts, NEW c, StatedIn(texts) # Raises, Lookup(StatedIn(texts), c) # None
  PROVE  Lookup(StatedIn(texts), c).currency = c
<1>1. StatedIn(texts) = [d \in {a.currency : a \in texts} |-> CHOOSE a \in texts : a.currency = d]
  BY DEF StatedIn
<1>2. c \in {a.currency : a \in texts}
  BY <1>1 DEF Lookup
<1>3. Lookup(StatedIn(texts), c) = CHOOSE a \in texts : a.currency = c
  BY <1>1, <1>2 DEF Lookup
<1>4. \E a \in texts : a.currency = c  BY <1>2
<1> QED  BY <1>3, <1>4

LEMMA TableHasCurrency ==
  ASSUME NEW table, NEW b, NEW requested, NEW s,
         TableLimits(table, b, requested) # Raises,
         Lookup(TableLimits(table, b, requested), s) # None
  PROVE  Lookup(TableLimits(table, b, requested), s).currency = CurrencyOf(s)
<1> DEFINE slots == SelectedSlots(table, b)
           used == {k \in DOMAIN table.codes : table.codes[k] \in requested /\ slots[k].value # None}
           amount(k) == [value |-> slots[k].value, currency |-> SlotCurrency(table, k, slots[k])]
           limits == TableLimits(table, b, requested)
           found == [x \in {table.codes[k] : k \in used} |->
                       amount(CHOOSE k \in used : table.codes[k] = x)]
<1>1. CASE table.codes = <<>> \/ b \notin DOMAIN table.options
  <2>1. limits = [x \in {} |-> None]  BY <1>1 DEF TableLimits
  <2> QED  BY <2>1 DEF Lookup
<1>2. CASE ~ (table.codes = <<>> \/ b \notin DOMAIN table.options)
  <2>1. limits = IF \/ Len(slots) # Len(table.codes)
                    \/ \E k \in used : ~ CurrencyAgrees(table.codes[k], amount(k).currency)
                 THEN Raises ELSE found
    BY <1>2 DEF TableLimits
  <2>2. limits = found  BY <2>1
  <2>3. \A k \in used : amount(k).currency = CurrencyOf(table.codes[k])
    BY <2>1 DEF CurrencyAgrees
  <2> HIDE DEF used, amount
  <2>4. s \in {table.codes[k] : k \in used} /\ Lookup(limits, s) = found[s]
    BY <2>2 DEF Lookup
  <2>5. \E k \in used : table.codes[k] = s  BY <2>4
  <2> DEFINE k == CHOOSE k \in used : table.codes[k] = s
  <2>6. k \in used /\ table.codes[k] = s  BY <2>5
  <2>7. found[s] = amount(k)  BY <2>4
  <2> QED  BY <2>3, <2>4, <2>6, <2>7
<1> QED  BY <1>1, <1>2

\* A notice of which every part can be read.
Readable(notice, table) ==
  /\ AllChannels(notice) # Raises
  /\ StatedIn(notice.direct) # Raises
  /\ StatedIn(notice.distribution) # Raises
  /\ table # Raises

LEMMA AmountsHaveCurrency ==
  ASSUME NEW notice, NEW b, NEW requested, NEW s, NEW day, NEW table,
         table = TableLimits(notice.table, b, requested), Readable(notice, table)
  PROVE  /\ DirectAmount(notice, table, s, day) # None =>
              DirectAmount(notice, table, s, day).currency = CurrencyOf(s)
         /\ OthersAmount(notice, table, s, day) # None =>
              OthersAmount(notice, table, s, day).currency = CurrencyOf(s)
         /\ Restored(notice, day) => /\ DirectAmount(notice, table, s, day) = None
                                     /\ OthersAmount(notice, table, s, day) = None
<1> DEFINE c == CurrencyOf(s)
<1>1. Lookup(AllChannels(notice), c) # None => Lookup(AllChannels(notice), c).currency = c
  BY TextHasCurrency DEF Readable, AllChannels
<1>2. Lookup(StatedIn(notice.direct), c) # None => Lookup(StatedIn(notice.direct), c).currency = c
  BY TextHasCurrency DEF Readable
<1>3. Lookup(StatedIn(notice.distribution), c) # None =>
        Lookup(StatedIn(notice.distribution), c).currency = c
  BY TextHasCurrency DEF Readable
<1>4. Lookup(table, s) # None => Lookup(table, s).currency = c
  BY TableHasCurrency DEF Readable
<1> HIDE DEF c
<1>5. DirectAmount(notice, table, s, day) # None =>
        DirectAmount(notice, table, s, day).currency = c
  BY <1>1, <1>2, <1>4 DEF DirectAmount, c
<1>6. OthersAmount(notice, table, s, day) # None =>
        OthersAmount(notice, table, s, day).currency = c
  BY <1>1, <1>3, <1>4 DEF OthersAmount, c
<1>7. Restored(notice, day) => /\ DirectAmount(notice, table, s, day) = None
                               /\ OthersAmount(notice, table, s, day) = None
  BY DEF DirectAmount, OthersAmount
<1> QED  BY <1>5, <1>6, <1>7 DEF c

-----------------------------------------------------------------------------
(* The records of an answer.                                                *)

\* A record has the fields of a record and says of its cap what was stated.
Stated(r, day, notice) ==
  /\ r = LimitRecord(r.share, r.channel, r.key, r.business, r.availability, r.cap, r.amount, r.scope)
  /\ r.cap = "LIMITED" => r.amount.currency = CurrencyOf(r.share)
  /\ r.cap = "UNLIMITED" => notice # None /\ Restored(notice, day)

LEMMA OfficialIsStated ==
  ASSUME NEW s, NEW channel, NEW key, NEW b, NEW amount, NEW notice, NEW day, NEW na \in BOOLEAN,
         amount # None => amount.currency = CurrencyOf(s), notice # None
  PROVE  LET r == OfficialRecord(s, channel, key, b, amount, Restored(notice, day), notice, na)
         IN r.share = s /\ Stated(r, day, notice)
<1> DEFINE scope == IF notice.combinedScope THEN "ALL_SHARES_COMBINED" ELSE "PER_SHARE"
           availability == IF notice.pause THEN "PAUSED"
                           ELSE IF amount # None \/ Restored(notice, day) THEN "OPEN" ELSE "UNKNOWN"
           cap == IF amount # None THEN "LIMITED"
                  ELSE IF Restored(notice, day) THEN "UNLIMITED" ELSE "UNKNOWN"
           r == OfficialRecord(s, channel, key, b, amount, Restored(notice, day), notice, na)
<1>1. CASE na
  <2>1. r = LimitRecord(s, channel, key, b, "NOT_APPLICABLE", "UNKNOWN", None, scope)
    BY <1>1 DEF OfficialRecord
  <2> HIDE DEF r, scope
  <2>2. r.share = s /\ Stated(r, day, notice)  BY <2>1 DEF Stated, LimitRecord
  <2> QED  BY <2>2 DEF r
<1>2. CASE ~ na
  <2>1. r = LimitRecord(s, channel, key, b, availability, cap, amount, scope)
    BY <1>2 DEF OfficialRecord
  <2>2. cap = "LIMITED" => amount.currency = CurrencyOf(s)  OBVIOUS
  <2>3. cap = "UNLIMITED" => Restored(notice, day)  OBVIOUS
  <2> HIDE DEF r, scope, availability, cap
  <2>4. r.share = s /\ Stated(r, day, notice)
    BY <2>1, <2>2, <2>3 DEF Stated, LimitRecord
  <2> QED  BY <2>4 DEF r
<1> QED  BY <1>1, <1>2

LEMMA UnknownIsStated ==
  ASSUME NEW s, NEW day, NEW notice
  PROVE  UnknownDirectRecord(s).share = s /\ Stated(UnknownDirectRecord(s), day, notice)
<1> DEFINE availability == IF LimitShares[s].exchange THEN "NOT_APPLICABLE" ELSE "UNKNOWN"
           r == UnknownDirectRecord(s)
<1>1. r = LimitRecord(s, "DIRECT", "DIRECT", "PURCHASE", availability, "UNKNOWN", None, "UNKNOWN")
  BY DEF UnknownDirectRecord
<1> HIDE DEF r, availability
<1>2. r.share = s /\ Stated(r, day, notice)  BY <1>1 DEF Stated, LimitRecord
<1> QED  BY <1>2 DEF r

LEMMA BusinessIsStated ==
  ASSUME NEW notice, NEW b, NEW requested, NEW s \in Shares, NEW day,
         Readable(notice, TableLimits(notice.table, b, requested)), notice # None
  PROVE  \A r \in BusinessRecords(notice, TableLimits(notice.table, b, requested), s, b, day) :
            r.share = s /\ Stated(r, day, notice)
<1> DEFINE table == TableLimits(notice.table, b, requested)
<1> SUFFICES ASSUME NEW r \in BusinessRecords(notice, table, s, b, day)
             PROVE  r.share = s /\ Stated(r, day, notice)
  OBVIOUS
<1> DEFINE direct == DirectAmount(notice, table, s, day)
           others == OthersAmount(notice, table, s, day)
           first == OfficialRecord(s, "DIRECT", "DIRECT", b, direct, Restored(notice, day), notice,
                                   LimitShares[s].exchange)
           second == OfficialRecord(s, "DISTRIBUTION", "ALL_DISTRIBUTORS", b, others,
                                    Restored(notice, day), notice, FALSE)
<1>1. direct # None => direct.currency = CurrencyOf(s)  BY AmountsHaveCurrency
<1>2. others # None => others.currency = CurrencyOf(s)  BY AmountsHaveCurrency
<1>3. r = first \/ r = second  BY DEF BusinessRecords
<1> HIDE DEF direct, others
<1>4. first.share = s /\ Stated(first, day, notice)
  BY <1>1, OfficialIsStated, LimitAssumption DEF Shares
<1>5. second.share = s /\ Stated(second, day, notice)  BY <1>2, OfficialIsStated
<1> QED  BY <1>3, <1>4, <1>5

\* A notice that can be read leaves a record of every share it was asked for.
LEMMA NoticeIsStated ==
  ASSUME NEW notice, NEW requested \in SUBSET Shares, NEW day, notice # None,
         NoticeRecords(notice, requested, day) # Raises
  PROVE  LET records == NoticeRecords(notice, requested, day)
         IN /\ {r.share : r \in records} = requested
            /\ \A r \in records : Stated(r, day, notice)
<1> DEFINE table(b) == TableLimits(notice.table, b, requested)
           named == notice.named \cap requested
           applicable == IF named = {} THEN requested ELSE named
           known == UNION {BusinessRecords(notice, table(b), s, b, day) :
                             s \in applicable, b \in Businesses(notice)}
           unknown == {UnknownDirectRecord(s) : s \in requested \ applicable}
           records == NoticeRecords(notice, requested, day)
<1>1. /\ \A b \in Businesses(notice) : Readable(notice, table(b))
      /\ records = known \cup unknown
  <2> DEFINE unreadable ==
        \/ Raises \in {AllChannels(notice), StatedIn(notice.direct), StatedIn(notice.distribution)}
        \/ \E b \in Businesses(notice) : table(b) = Raises
  <2>1. records = IF unreadable THEN Raises ELSE known \cup unknown
    BY DEF NoticeRecords
  <2>2. ~ unreadable /\ records = known \cup unknown  BY <2>1
  <2> QED  BY <2>2 DEF Readable
<1>2. applicable \subseteq requested  OBVIOUS
<1> HIDE DEF applicable, records
<1>3. ASSUME NEW r \in known  PROVE r.share \in applicable /\ Stated(r, day, notice)
  <2>1. PICK s \in applicable, b \in Businesses(notice) :
          r \in BusinessRecords(notice, table(b), s, b, day)
    BY <1>3
  <2>2. s \in Shares /\ Readable(notice, table(b))  BY <1>1, <1>2, <2>1
  <2> HIDE DEF known, unknown, named
  <2>3. \A q \in BusinessRecords(notice, table(b), s, b, day) : q.share = s /\ Stated(q, day, notice)
    BY <2>2, BusinessIsStated
  <2>4. r.share = s /\ Stated(r, day, notice)  BY <2>1, <2>3
  <2> QED  BY <2>1, <2>4
<1>4. ASSUME NEW r \in unknown
      PROVE  r.share \in requested \ applicable /\ Stated(r, day, notice)
  BY <1>4, UnknownIsStated
<1>5. ASSUME NEW s \in requested  PROVE \E r \in records : r.share = s
  <2>1. CASE s \in applicable
    <3> DEFINE b == "PURCHASE"
    <3>1. b \in Businesses(notice)  BY DEF Businesses
    <3> HIDE DEF b
    <3> DEFINE first == OfficialRecord(s, "DIRECT", "DIRECT", b, DirectAmount(notice, table(b), s, day),
                                       Restored(notice, day), notice, LimitShares[s].exchange)
    <3>2. first \in BusinessRecords(notice, table(b), s, b, day)
      BY DEF BusinessRecords
    <3>3. first \in known  BY <2>1, <3>1, <3>2
    <3>4. s \in Shares /\ Readable(notice, table(b))  BY <1>1, <3>1
    <3> HIDE DEF known, unknown, named, first
    <3>5. \A q \in BusinessRecords(notice, table(b), s, b, day) :
            q.share = s /\ Stated(q, day, notice)
      BY <3>4, BusinessIsStated
    <3>6. first.share = s  BY <3>2, <3>5
    <3> QED  BY <1>1, <3>3, <3>6
  <2>2. CASE s \notin applicable
    <3>1. UnknownDirectRecord(s) \in unknown  BY <2>2
    <3>2. UnknownDirectRecord(s).share = s  BY UnknownIsStated
    <3> QED  BY <1>1, <3>1, <3>2
  <2> QED  BY <2>1, <2>2
<1>6. \A r \in records : r.share \in requested /\ Stated(r, day, notice)
  BY <1>1, <1>2, <1>3, <1>4
<1>7. {r.share : r \in records} = requested  BY <1>5, <1>6
<1> QED  BY <1>6, <1>7 DEF records

LEMMA DirectIsStated ==
  ASSUME NEW list, NEW requested \in SUBSET Shares, NEW day,
         DirectRecords(list, requested, day) # Raises
  PROVE  LET records == DirectRecords(list, requested, day)
         IN /\ {r.share : r \in records} = requested
            /\ \A r \in records : Stated(r, day, InForce(list, day))
<1> DEFINE records == DirectRecords(list, requested, day)
           notice == InForce(list, day)
<1> HIDE DEF notice
<1>1. CASE notice = None
  <2>1. records = {UnknownDirectRecord(s) : s \in requested}
    BY <1>1 DEF DirectRecords, notice
  <2> HIDE DEF records
  <2>2. \A s \in requested : UnknownDirectRecord(s).share = s
    BY UnknownIsStated
  <2>3. \A r \in records : r.share \in requested /\ Stated(r, day, notice)
    BY <2>1, UnknownIsStated
  <2>4. \A s \in requested : \E r \in records : r.share = s  BY <2>1, <2>2
  <2>5. {r.share : r \in records} = requested  BY <2>3, <2>4
  <2> QED  BY <2>3, <2>5 DEF records, notice
<1>2. CASE notice # None
  <2>1. records = NoticeRecords(notice, requested, day)
    BY <1>2 DEF DirectRecords, notice
  <2> HIDE DEF records
  <2>2. records # Raises  BY DEF records
  <2> QED  BY <1>2, <2>1, <2>2, NoticeIsStated DEF records, notice
<1> QED  BY <1>1, <1>2

LEMMA PageIsStated ==
  ASSUME NEW s, NEW page, PageRecords(s, page) # Raises, NEW r \in PageRecords(s, page)
  PROVE  r.share = s
<1> QED  BY DEF PageRecords, LimitRecord

-----------------------------------------------------------------------------
(* The inductive invariant.                                                 *)

IssueCodes == {"SALES_LIMIT_SYNC_FAILED", "SALES_LIMIT_COVERAGE_INCOMPLETE",
               "SALES_LIMIT_CHANNEL_SCOPE_AMBIGUOUS"}

Phases == {"idle", "direct", "distribution", "audit", "done"}

RunIsTyped(run) ==
  /\ run \in [phase : Phases, left : SUBSET Nat, failed : SUBSET Shares, shares : SUBSET Shares]
  /\ run.phase \in {"idle", "done"} => run.left = {}
  /\ run.phase \in {"direct", "distribution", "audit"} => run.left # {} /\ run.shares # {}
  /\ run.phase = "direct" =>
        run.left \subseteq LimitFunds /\ \A f \in run.left : SharesOfFund(f) \subseteq run.shares
  /\ run.phase \in {"distribution", "audit"} => run.left \subseteq run.shares

RowsAreTyped(rows) ==
  \A row \in rows : /\ row.share \in Shares /\ row.day \in LimitDays /\ row.day <= limitDay
                     /\ row.provider \in {"CSRC", "EASTMONEY"}

LimitTypes ==
  /\ limitDay \in LimitDays
  /\ RunIsTyped(limitRun)
  /\ limitIssues \in [Shares -> SUBSET IssueCodes]
  /\ RowsAreTyped(limitRows)
  /\ limitAudited \in SUBSET Shares

\* The purchase rows of a share on a day are complete and known.
WholeOn(s, d) ==
  LET rows == {row \in limitRows : row.share = s /\ row.day = d /\ row.business = "PURCHASE"}
  IN /\ {row.channel : row \in rows} = {"DIRECT", "DISTRIBUTION"}
     /\ \A row \in rows : ~ Unclear(row)

\* The purchase rows of a share on its own newest day are complete and known.
Whole(s) == WholeOn(s, OwnDay(s))

\* What the audit has passed and said nothing about is whole, and stays so until the
\* next sync of the share, whose shares are not audited before their audit.
AuditedIsWhole ==
  /\ \A s \in limitAudited : limitIssues[s] = {} => Whole(s)
  /\ limitRun.phase \in {"direct", "distribution"} => limitAudited \cap limitRun.shares = {}

\* A share that has a row as new as any of a share outside the sync.
Fresh(s) ==
  \E row \in limitRows :
     /\ row.share = s
     /\ \A other \in limitRows : other.share \notin limitRun.shares => other.day <= row.day

\* What did not fail has stored rows in this sync, and nobody else has meanwhile; so
\* what the audit was silent about is covered.
SyncedIsFresh ==
  /\ limitRun.phase \in {"distribution", "audit"} =>
        \A s \in limitRun.shares \ limitRun.failed :
           limitRun.phase = "audit" \/ s \notin limitRun.left => Fresh(s)
  /\ limitRun.phase \in {"audit", "done"} =>
        \A s \in limitRun.shares \ limitRun.left : limitIssues[s] = {} => s \in CoveredShares

LimitInv == LimitTypes /\ CapsAreStated /\ AuditedIsWhole /\ SyncedIsFresh

-----------------------------------------------------------------------------
(* Steps of a sync.                                                         *)

LEMMA NextIsLeft ==
  ASSUME RunIsTyped(limitRun), limitRun.phase \in {"direct", "distribution", "audit"}
  PROVE  /\ NextInOrder \in limitRun.left
         /\ limitRun.phase = "direct" =>
              NextInOrder \in LimitFunds /\ SharesOfFund(NextInOrder) \subseteq limitRun.shares
         /\ limitRun.phase \in {"distribution", "audit"} =>
              NextInOrder \in limitRun.shares /\ NextInOrder \in Shares
<1>1. limitRun.left \in SUBSET Nat /\ limitRun.left # {} /\ limitRun.shares \subseteq Shares
  BY DEF RunIsTyped
<1>2. NextInOrder \in limitRun.left  BY <1>1, FirstCode DEF NextInOrder
<1> QED  BY <1>1, <1>2 DEF RunIsTyped

\* What a step leaves to do.  The audit ends with its last share.
LEMMA AdvanceMoves ==
  ASSUME RunIsTyped(limitRun), limitRun.phase \in {"direct", "distribution", "audit"},
         NEW failed \in SUBSET Shares, Advance(failed)
  PROVE  /\ RunIsTyped(limitRun)'
         /\ limitRun'.shares = limitRun.shares
         /\ limitRun'.failed = limitRun.failed \cup failed
         /\ limitRun.phase = "audit" =>
              /\ limitRun'.left = limitRun.left \ {NextInOrder}
              /\ limitRun'.phase \in {"audit", "done"}
         /\ limitRun.phase = "direct" =>
              /\ limitRun'.phase \in {"direct", "distribution"}
              /\ limitRun'.phase = "distribution" => limitRun'.left = limitRun.shares
         /\ limitRun.phase = "distribution" =>
              \/ limitRun'.phase = "distribution" /\ limitRun'.left = limitRun.left \ {NextInOrder}
              \/ /\ limitRun'.phase = "audit" /\ limitRun'.left = limitRun.shares
                 /\ limitRun.left \subseteq {NextInOrder}
<1> DEFINE rest == limitRun.left \ {NextInOrder}
           next == IF limitRun.phase = "direct" THEN "distribution" ELSE "audit"
           phase == IF rest # {} THEN limitRun.phase
                    ELSE IF limitRun.phase = "audit" THEN "done" ELSE next
           left == IF rest # {} \/ limitRun.phase = "audit" THEN rest ELSE limitRun.shares
           all == limitRun.failed \cup failed
<1>1. limitRun' = [limitRun EXCEPT !.failed = all, !.phase = phase, !.left = left]
  BY DEF Advance
<1>2. limitRun \in [phase : Phases, left : SUBSET Nat, failed : SUBSET Shares, shares : SUBSET Shares]
  BY DEF RunIsTyped
<1>3. /\ limitRun.shares # {} /\ limitRun.shares \in SUBSET Nat /\ limitRun.shares \in SUBSET Shares
  BY <1>2, LimitAssumption DEF Shares, RunIsTyped
<1>4. rest \in SUBSET Nat /\ left \in SUBSET Nat  BY <1>2, <1>3
<1>5. all \in SUBSET Shares  BY <1>2
<1>6. phase \in {"direct", "distribution", "audit", "done"}  BY <1>2
<1>7. /\ phase = "done" => limitRun.phase = "audit" /\ left = {}
      /\ phase = "direct" => limitRun.phase = "direct" /\ left = rest /\ rest # {}
      /\ phase \in {"distribution", "audit"} =>
           left # {} /\ (left = limitRun.shares \/ (left = rest /\ phase = limitRun.phase))
      /\ limitRun.phase = "audit" => left = rest /\ phase \in {"audit", "done"}
      /\ limitRun.phase = "direct" =>
           /\ phase \in {"direct", "distribution"}
           /\ phase = "distribution" => left = limitRun.shares
      /\ limitRun.phase = "distribution" =>
           \/ phase = "distribution" /\ left = rest
           \/ phase = "audit" /\ left = limitRun.shares /\ rest = {}
  <2>1. CASE rest # {}
    <3>1. phase = limitRun.phase /\ left = rest  BY <2>1
    <3> HIDE DEF phase, left, rest
    <3> QED  BY <2>1, <3>1
  <2>2. CASE rest = {} /\ limitRun.phase = "audit"
    <3>1. phase = "done" /\ left = {}  BY <2>2
    <3> HIDE DEF phase, left, rest
    <3> QED  BY <2>2, <3>1
  <2>3. CASE rest = {} /\ limitRun.phase # "audit"
    <3>1. phase = next /\ left = limitRun.shares  BY <2>3
    <3>2. phase = IF limitRun.phase = "direct" THEN "distribution" ELSE "audit"  BY <3>1
    <3> HIDE DEF phase, left, rest, next
    <3> QED  BY <1>3, <2>3, <3>1, <3>2
  <2> HIDE DEF rest
  <2> QED  BY <2>1, <2>2, <2>3
<1>8. rest \subseteq limitRun.left /\ (rest = {} => limitRun.left \subseteq {NextInOrder})
  OBVIOUS
<1> HIDE DEF rest, next, phase, left, all
<1>9. /\ limitRun' \in [phase : Phases, left : SUBSET Nat, failed : SUBSET Shares,
                        shares : SUBSET Shares]
      /\ limitRun'.phase = phase /\ limitRun'.left = left
      /\ limitRun'.failed = all /\ limitRun'.shares = limitRun.shares
  BY <1>1, <1>2, <1>4, <1>5, <1>6 DEF Phases
<1>10. phase = "direct" =>
         left \subseteq LimitFunds /\ \A f \in left : SharesOfFund(f) \subseteq limitRun.shares
  BY <1>7, <1>8 DEF RunIsTyped
<1>11. phase \in {"distribution", "audit"} => left \subseteq limitRun.shares
  BY <1>7, <1>8 DEF RunIsTyped
<1>12. RunIsTyped(limitRun)'
  <2>1. limitRun'.phase \in {"idle", "done"} => limitRun'.left = {}  BY <1>6, <1>7, <1>9
  <2>2. limitRun'.phase \in {"direct", "distribution", "audit"} =>
          limitRun'.left # {} /\ limitRun'.shares # {}
    BY <1>3, <1>6, <1>7, <1>9
  <2> QED  BY <1>9, <1>10, <1>11, <2>1, <2>2 DEF RunIsTyped
<1> QED  BY <1>7, <1>8, <1>9, <1>12 DEF rest, all

\* Rows of one provider, a day and some shares are replaced; others stay.
RowOf(r, provider) ==
  [share |-> r.share, channel |-> r.channel, key |-> r.key, business |-> r.business,
   availability |-> r.availability, cap |-> r.cap, amount |-> r.amount, scope |-> r.scope,
   provider |-> provider, day |-> limitDay]

Replaces(provider, records, shares) ==
  \A row : row \in limitRows' <=>
     \/ row \in limitRows /\ ~ (row.provider = provider /\ row.day = limitDay
                                /\ row.share \in shares)
     \/ \E r \in records : row = RowOf(r, provider)

SharesOf(records) == {r.share : r \in records}

LEMMA SnapshotReplaces ==
  ASSUME NEW provider, NEW records, StoreSnapshot(provider, records)
  PROVE  Replaces(provider, records, SharesOf(records))
<1>1. limitRows' = (limitRows \ Replaced(provider, records)) \cup {RowOf(r, provider) : r \in records}
  BY DEF StoreSnapshot, RowOf
<1>2. Replaced(provider, records) =
        {row \in limitRows : row.provider = provider /\ row.day = limitDay
                             /\ row.share \in SharesOf(records)}
  BY DEF Replaced, SharesOf
<1> QED  BY <1>1, <1>2 DEF Replaces

LEMMA SnapshotIsTyped ==
  ASSUME LimitTypes, NEW provider \in {"CSRC", "EASTMONEY"}, NEW records, UNCHANGED limitDay,
         SharesOf(records) \subseteq Shares, StoreSnapshot(provider, records)
  PROVE  RowsAreTyped(limitRows)'
<1>1. Replaces(provider, records, SharesOf(records))  BY SnapshotReplaces
<1>2. \A r \in records : r.share \in Shares  BY DEF SharesOf
<1> SUFFICES ASSUME NEW row \in limitRows'
             PROVE  row.share \in Shares /\ row.day \in LimitDays /\ row.day <= limitDay
                    /\ row.provider \in {"CSRC", "EASTMONEY"}
  BY DEF RowsAreTyped
<1>3. row \in limitRows \/ \E r \in records : row = RowOf(r, provider)
  BY <1>1 DEF Replaces
<1>4. CASE row \in limitRows  BY <1>4 DEF LimitTypes, RowsAreTyped
<1>5. CASE \E r \in records : row = RowOf(r, provider)
  <2>1. limitDay <= limitDay
    <3>1. PICK n \in Nat : LimitDays = 1..n  BY DaysAreFinite
    <3> QED  BY <3>1 DEF LimitTypes
  <2> QED  BY <1>2, <1>5, <2>1 DEF LimitTypes, RowOf
<1> QED  BY <1>3, <1>4, <1>5

\* A notice's records become what is stored of its fund and today; the days before and
\* the other funds keep what they had.
LEMMA DirectKeepsStated ==
  ASSUME LimitTypes, CapsAreStated, NEW list \in NoticeLists, NEW fund \in LimitFunds,
         NEW records, records = DirectRecords(list, SharesOfFund(fund), limitDay), records # Raises,
         StoreSnapshot("CSRC", records)
  PROVE  CapsAreStated' /\ SharesOf(records) = SharesOfFund(fund)
<1> DEFINE shares == SharesOfFund(fund)
           notice == InForce(list, limitDay)
           provider == "CSRC"
<1>1. shares \in SUBSET Shares  BY DEF SharesOfFund
<1>2. /\ SharesOf(records) = shares
      /\ \A r \in records : Stated(r, limitDay, notice) /\ r.share \in shares
  BY <1>1, DirectIsStated DEF SharesOf
<1> HIDE DEF notice
<1>3. \A row : row \in limitRows' <=>
            \/ row \in limitRows /\ ~ (row.provider = provider /\ row.day = limitDay
                                       /\ row.share \in shares)
            \/ \E r \in records : row = RowOf(r, provider)
  <2>1. StoreSnapshot(provider, records)  OBVIOUS
  <2> HIDE DEF provider
  <2>2. Replaces(provider, records, SharesOf(records))  BY <2>1, SnapshotReplaces
  <2> QED  BY <1>2, <2>2 DEF Replaces
<1>4. \A r \in records : /\ RowOf(r, provider).provider = provider
                         /\ RowOf(r, provider).day = limitDay
                         /\ RowOf(r, provider).share = r.share /\ r.share \in shares
                         /\ RowOf(r, provider).cap = r.cap /\ RowOf(r, provider).amount = r.amount
                         /\ RecordOf(RowOf(r, provider)) = r
  BY <1>2 DEF RowOf, RecordOf, Stated
<1>5. ASSUME NEW row \in limitRows', row.provider = provider  PROVE CapIsStated(row)
  <2>1. CASE row \in limitRows  BY <1>5, <2>1 DEF CapsAreStated
  <2>2. CASE \E r \in records : row = RowOf(r, provider)
    <3>1. PICK r \in records : row = RowOf(r, provider)  BY <2>2
    <3>2. row.cap = r.cap /\ row.amount = r.amount /\ row.share = r.share /\ row.day = limitDay
      BY <1>4, <3>1
    <3>3. Stated(r, limitDay, notice)  BY <1>2
    <3>4. row.cap = "LIMITED" => row.amount.currency = CurrencyOf(row.share)
      BY <3>2, <3>3 DEF Stated
    <3>5. row.cap = "UNLIMITED" => InForce(list, row.day) # None /\ Restored(InForce(list, row.day), row.day)
      BY <3>2, <3>3 DEF Stated, notice
    <3> QED  BY <3>4, <3>5 DEF CapIsStated
  <2> QED  BY <1>3, <2>1, <2>2
<1>6. ASSUME NEW day \in LimitDays, NEW other \in LimitFunds, StatedOf(other, day)' # {}
      PROVE  \E l \in NoticeLists : StatedOf(other, day)' = DirectRecords(l, SharesOfFund(other), day)
  <2> DEFINE now == {r \in limitRows' : r.day = day /\ r.provider = provider /\ r.share \in SharesOfFund(other)}
             before == {r \in limitRows : r.day = day /\ r.provider = provider /\ r.share \in SharesOfFund(other)}
  <2>1. StatedOf(other, day)' = {RecordOf(row) : row \in now}
    BY DEF StatedOf, RecordOf
  <2>2. StatedOf(other, day) = {RecordOf(row) : row \in before}  BY DEF StatedOf
  <2>3. CASE day = limitDay /\ other = fund
    <3>1. \A row \in now : \E r \in records : row = RowOf(r, provider)
      BY <1>3, <2>3
    <3>2. \A r \in records : RowOf(r, provider) \in now  BY <1>3, <1>4, <2>3
    <3> HIDE DEF now
    <3>3. {RecordOf(row) : row \in now} = records
      <4>1. \A row \in now : RecordOf(row) \in records  BY <1>4, <3>1
      <4>2. \A r \in records : \E row \in now : r = RecordOf(row)  BY <1>4, <3>2
      <4> QED  BY <4>1, <4>2
    <3> QED  BY <2>1, <2>3, <3>3
  <2>4. CASE ~ (day = limitDay /\ other = fund)
    <3>1. \A row \in before : ~ (row.day = limitDay /\ row.share \in shares)
      BY <2>4 DEF SharesOfFund
    <3>2. \A r \in records : ~ (RowOf(r, provider) \in now)
      BY <1>4, <2>4 DEF SharesOfFund
    <3>3. now = before  BY <1>3, <3>1, <3>2
    <3> QED  BY <1>6, <2>1, <2>2, <3>3 DEF CapsAreStated
  <2> QED  BY <2>3, <2>4
<1>7. \A row \in limitRows' : row.provider = "CSRC" => CapIsStated(row)  BY <1>5
<1> QED  BY <1>2, <1>6, <1>7 DEF CapsAreStated, CapIsStated

\* The distributor's records are beside the manager's.
LEMMA PageKeepsStated ==
  ASSUME CapsAreStated, NEW records, StoreSnapshot("EASTMONEY", records)
  PROVE  CapsAreStated'
<1> DEFINE shares == SharesOf(records)
           provider == "EASTMONEY"
<1>1. \A row : row \in limitRows' <=>
            \/ row \in limitRows /\ ~ (row.provider = provider /\ row.day = limitDay
                                       /\ row.share \in shares)
            \/ \E r \in records : row = RowOf(r, provider)
  <2>1. StoreSnapshot(provider, records)  OBVIOUS
  <2> HIDE DEF provider
  <2>2. Replaces(provider, records, SharesOf(records))  BY <2>1, SnapshotReplaces
  <2> QED  BY <2>2 DEF Replaces
<1>2. \A r \in records : RowOf(r, provider).provider = provider  BY DEF RowOf
<1>3. provider # "CSRC"  OBVIOUS
<1> HIDE DEF provider
<1>4. \A row : row.provider = "CSRC" => (row \in limitRows' <=> row \in limitRows)
  BY <1>1, <1>2, <1>3
<1>5. ASSUME NEW day \in LimitDays, NEW fund \in LimitFunds
      PROVE  StatedOf(fund, day)' = StatedOf(fund, day)
  BY <1>4 DEF StatedOf, RecordOf
<1> QED  BY <1>4, <1>5 DEF CapsAreStated, CapIsStated

\* The newest day of some rows is the day of one of them, and of none before.
LEMMA NewestOf ==
  ASSUME RowsAreTyped(limitRows), NEW rows \in SUBSET limitRows, rows # {}
  PROVE  /\ NewestDay(rows) \in Nat
         /\ \E row \in rows : row.day = NewestDay(rows)
         /\ \A row \in rows : row.day \in Nat /\ row.day <= NewestDay(rows)
<1> DEFINE days == {row.day : row \in rows}
<1>1. NewestDay(rows) = Max(days)  BY DEF NewestDay
<1>2. \A row \in rows : row.day \in days  OBVIOUS
<1>3. days \in SUBSET LimitDays /\ days # {}  BY DEF RowsAreTyped
<1>4. \A d \in days : \E row \in rows : row.day = d  OBVIOUS
<1> HIDE DEF days
<1>5. Max(days) \in days /\ \A e \in days : e <= Max(days)  BY <1>3, LastLimitDay
<1>6. PICK n \in Nat : LimitDays = 1..n  BY DaysAreFinite
<1>7. \A d \in days : d \in Nat  BY <1>3, <1>6
<1> QED  BY <1>1, <1>2, <1>4, <1>5, <1>7

\* Among rows that hold one of the newest day, the newest day is that.
LEMMA NewestWithin ==
  ASSUME RowsAreTyped(limitRows), NEW rows \in SUBSET limitRows, NEW some \in SUBSET rows,
         NEW one \in some, one.day = NewestDay(rows)
  PROVE  NewestDay(some) = NewestDay(rows)
<1>1. /\ NewestDay(rows) \in Nat
      /\ \A row \in rows : row.day \in Nat /\ row.day <= NewestDay(rows)
  BY NewestOf
<1>2. some \in SUBSET limitRows /\ some # {}  OBVIOUS
<1>3. /\ NewestDay(some) \in Nat
      /\ \E row \in some : row.day = NewestDay(some)
      /\ \A row \in some : row.day <= NewestDay(some)
  BY <1>2, NewestOf
<1>4. NewestDay(some) <= NewestDay(rows) /\ NewestDay(rows) <= NewestDay(some)
  BY <1>1, <1>3
<1> QED  BY <1>1, <1>3, <1>4

\* The rows of a share are as they were.
SameRows(s) == \A row : row.share = s => (row \in limitRows' <=> row \in limitRows)

LEMMA WholeStays ==
  ASSUME NEW s, SameRows(s)
  PROVE  Whole(s)' = Whole(s)
<1> DEFINE own == {row \in limitRows : row.share = s}
<1>1. own' = own  BY DEF SameRows
<1>2. PICK d : d = OwnDay(s)  OBVIOUS
<1>3. OwnDay(s)' = d
  <2>1. OwnDay(s) = NewestDay(own) /\ OwnDay(s)' = NewestDay(own')
    BY DEF OwnDay, NewestDay
  <2> QED  BY <1>1, <1>2, <2>1
<1> DEFINE rows == {row \in limitRows : row.share = s /\ row.day = d /\ row.business = "PURCHASE"}
<1>4. rows' = rows  BY DEF SameRows
<1>5. Whole(s) = (/\ {row.channel : row \in rows} = {"DIRECT", "DISTRIBUTION"}
                  /\ \A row \in rows : ~ Unclear(row))
  BY <1>2 DEF Whole, WholeOn
<1>6. Whole(s)' = (/\ {row.channel : row \in rows'} = {"DIRECT", "DISTRIBUTION"}
                   /\ \A row \in rows' : ~ Unclear(row))
  BY <1>3 DEF Whole, WholeOn, Unclear
<1> HIDE DEF rows
<1> QED  BY <1>4, <1>5, <1>6

LEMMA StoredElsewhere ==
  ASSUME NEW provider, NEW records, StoreSnapshot(provider, records), NEW s,
         s \notin SharesOf(records)
  PROVE  SameRows(s)
<1>1. Replaces(provider, records, SharesOf(records))  BY SnapshotReplaces
<1>2. \A r \in records : RowOf(r, provider).share \in SharesOf(records)  BY DEF RowOf, SharesOf
<1> QED  BY <1>1, <1>2 DEF Replaces, SameRows

\* A sync begins with the shares it will audit.
LEMMA StartKeeps ==
  ASSUME LimitInv, NEW codes \in (SUBSET LimitFunds) \ {{}}, StartLimits(codes)
  PROVE  LimitInv'
<1> USE DEF LimitInv
<1> DEFINE shares == UNION {SharesOfFund(f) : f \in codes}
<1>1. /\ UNCHANGED <<limitRows, limitIssues, limitDay>>
      /\ limitRun' = [phase |-> "direct", left |-> codes, failed |-> {}, shares |-> shares]
      /\ limitAudited' = limitAudited \ shares
  BY DEF StartLimits
<1>2. codes # {} /\ codes \subseteq LimitFunds /\ LimitFunds \subseteq Nat
  BY LimitAssumption DEF LimitFunds, Shares
<1>3. /\ shares \in SUBSET Shares /\ shares # {}
      /\ \A f \in codes : SharesOfFund(f) \subseteq shares
  BY <1>2 DEF SharesOfFund, LimitFunds
<1> HIDE DEF shares
<1>4. RunIsTyped(limitRun)'  BY <1>1, <1>2, <1>3 DEF RunIsTyped, Phases
<1>5. LimitTypes'  BY <1>1, <1>4 DEF LimitTypes, RowsAreTyped
<1>6. CapsAreStated'  BY <1>1 DEF CapsAreStated, CapIsStated, StatedOf, RecordOf
<1>7. AuditedIsWhole'
  <2>1. \A s \in limitAudited : Whole(s)' = Whole(s)  BY <1>1, WholeStays DEF SameRows
  <2> QED  BY <1>1, <2>1 DEF AuditedIsWhole
<1>8. SyncedIsFresh'  BY <1>1 DEF SyncedIsFresh
<1> QED  BY <1>5, <1>6, <1>7, <1>8

\* It dies: nothing is of a sync any more.
LEMMA DeathKeeps ==
  ASSUME LimitInv, LimitSyncDies
  PROVE  LimitInv'
<1> USE DEF LimitInv
<1>1. /\ UNCHANGED <<limitRows, limitIssues, limitDay, limitAudited>>
      /\ limitRun' = [phase |-> "idle", left |-> {}, failed |-> {}, shares |-> {}]
  BY DEF LimitSyncDies, NoSync
<1>2. LimitTypes'  BY <1>1 DEF LimitTypes, RowsAreTyped, RunIsTyped, Phases
<1>3. CapsAreStated'  BY <1>1 DEF CapsAreStated, CapIsStated, StatedOf, RecordOf
<1>4. AuditedIsWhole'
  <2>1. \A s \in limitAudited : Whole(s)' = Whole(s)  BY <1>1, WholeStays DEF SameRows
  <2> QED  BY <1>1, <2>1 DEF AuditedIsWhole
<1>5. SyncedIsFresh'  BY <1>1 DEF SyncedIsFresh
<1> QED  BY <1>2, <1>3, <1>4, <1>5

\* The manager or the distributor has been asked, or could not be: rows of the sync's
\* shares have changed, and a share the distributor was asked of has failed or has a
\* row of today.
LEMMA AskedKeeps ==
  ASSUME LimitInv, limitRun.phase \in {"direct", "distribution"},
         UNCHANGED <<limitIssues, limitDay, limitAudited>>,
         NEW failed \in SUBSET Shares, Advance(failed), RowsAreTyped(limitRows)', CapsAreStated',
         NEW stored \in SUBSET limitRun.shares, \A s : s \notin stored => SameRows(s),
         limitRun.phase = "distribution" =>
            /\ stored \subseteq {NextInOrder}
            /\ \/ NextInOrder \in failed
               \/ \E row \in limitRows' : row.share = NextInOrder /\ row.day = limitDay
  PROVE  LimitInv'
<1> USE DEF LimitInv
<1>1. /\ RunIsTyped(limitRun)' /\ limitRun'.shares = limitRun.shares
      /\ limitRun'.failed = limitRun.failed \cup failed
      /\ limitRun.phase = "direct" =>
            /\ limitRun'.phase \in {"direct", "distribution"}
            /\ limitRun'.phase = "distribution" => limitRun'.left = limitRun.shares
      /\ limitRun.phase = "distribution" =>
            \/ limitRun'.phase = "distribution" /\ limitRun'.left = limitRun.left \ {NextInOrder}
            \/ /\ limitRun'.phase = "audit" /\ limitRun'.left = limitRun.shares
               /\ limitRun.left \subseteq {NextInOrder}
  BY AdvanceMoves DEF LimitTypes
<1>2. LimitTypes'  BY <1>1 DEF LimitTypes
<1>3. AuditedIsWhole'
  <2>1. limitAudited \cap limitRun.shares = {}  BY DEF AuditedIsWhole
  <2>2. ASSUME NEW s \in limitAudited  PROVE Whole(s)' = Whole(s)
    <3>1. SameRows(s)  BY <2>1, <2>2
    <3> QED  BY <3>1, WholeStays
  <2> QED  BY <1>1, <2>1, <2>2 DEF AuditedIsWhole
<1>4. SyncedIsFresh'
  <2>1. CASE limitRun.phase = "direct"  BY <1>1, <2>1 DEF SyncedIsFresh
  <2>2. CASE limitRun.phase = "distribution"
    <3>1. ASSUME NEW s \in limitRun'.shares \ limitRun'.failed,
                 limitRun'.phase = "audit" \/ s \notin limitRun'.left
          PROVE  Fresh(s)'
      <4>1. s \in limitRun.shares /\ s \notin limitRun.failed /\ s \notin failed
        BY <1>1, <3>1
      <4>2. s = NextInOrder \/ s \notin limitRun.left  BY <1>1, <2>2, <3>1
      <4>3. CASE s = NextInOrder
        <5>1. PICK row \in limitRows' : row.share = s /\ row.day = limitDay
          BY <2>2, <4>1, <4>3
        <5>2. \A other \in limitRows' : other.day <= limitDay  BY DEF RowsAreTyped
        <5> QED  BY <5>1, <5>2 DEF Fresh
      <4>4. CASE s # NextInOrder
        <5>1. Fresh(s)  BY <2>2, <4>1, <4>2, <4>4 DEF SyncedIsFresh
        <5>2. PICK row \in limitRows :
                /\ row.share = s
                /\ \A other \in limitRows : other.share \notin limitRun.shares => other.day <= row.day
          BY <5>1 DEF Fresh
        <5>3. SameRows(s)  BY <2>2, <4>4
        <5>4. row \in limitRows'  BY <5>2, <5>3 DEF SameRows
        <5>5. ASSUME NEW other \in limitRows', other.share \notin limitRun.shares
              PROVE  other.day <= row.day
          <6>1. SameRows(other.share)  BY <5>5
          <6>2. other \in limitRows  BY <6>1 DEF SameRows
          <6> QED  BY <5>2, <5>5, <6>2
        <5> QED  BY <1>1, <5>2, <5>4, <5>5 DEF Fresh
      <4> QED  BY <4>3, <4>4
    <3>2. limitRun'.phase \in {"audit", "done"} => limitRun'.left = limitRun'.shares
      BY <1>1, <2>2
    <3> QED  BY <3>1, <3>2 DEF SyncedIsFresh
  <2> QED  BY <2>1, <2>2
<1> QED  BY <1>2, <1>3, <1>4

LEMMA DirectKeeps ==
  ASSUME LimitInv, NEW list \in NoticeLists, DirectFund(list)
  PROVE  LimitInv'
<1> USE DEF LimitInv
<1> DEFINE fund == NextInOrder
<1>1. PICK records : records = DirectRecords(list, SharesOfFund(fund), limitDay)  OBVIOUS
<1>2. /\ limitRun.phase = "direct" /\ UNCHANGED <<limitIssues, limitDay, limitAudited>>
      /\ \/ records = Raises /\ Advance(SharesOfFund(fund)) /\ UNCHANGED limitRows
         \/ records # Raises /\ StoreSnapshot("CSRC", records) /\ Advance({})
  BY <1>1 DEF DirectFund, StoreSnapshot, Replaced
<1>3. PICK f \in LimitFunds : f = fund /\ SharesOfFund(f) \in SUBSET limitRun.shares
  BY <1>2, NextIsLeft DEF LimitTypes
<1>4. SharesOfFund(fund) \in SUBSET Shares /\ {} \in SUBSET Shares  BY DEF SharesOfFund
<1>5. CASE records = Raises /\ Advance(SharesOfFund(fund)) /\ UNCHANGED limitRows
  <2>1. RowsAreTyped(limitRows)'  BY <1>2, <1>5 DEF LimitTypes, RowsAreTyped
  <2>2. CapsAreStated'  BY <1>5 DEF CapsAreStated, CapIsStated, StatedOf, RecordOf
  <2>3. PICK failed \in SUBSET Shares : Advance(failed)
    BY <1>4, <1>5 DEF Advance
  <2>4. \A s : SameRows(s)  BY <1>5 DEF SameRows
  <2> QED  BY <1>2, <1>3, <2>1, <2>2, <2>3, <2>4, AskedKeeps
<1>6. CASE records # Raises /\ StoreSnapshot("CSRC", records) /\ Advance({})
  <2>2. records = DirectRecords(list, SharesOfFund(f), limitDay)  BY <1>1, <1>3
  <2>3. CapsAreStated' /\ SharesOf(records) = SharesOfFund(f)
    BY <1>6, <2>2, DirectKeepsStated
  <2>4. SharesOf(records) \subseteq Shares  BY <2>3 DEF SharesOfFund
  <2> DEFINE provider == "CSRC"
  <2>5. provider \in {"CSRC", "EASTMONEY"} /\ StoreSnapshot(provider, records)  BY <1>6
  <2> HIDE DEF provider
  <2>6. RowsAreTyped(limitRows)'  BY <1>2, <2>4, <2>5, SnapshotIsTyped
  <2>7. \A s : s \notin SharesOfFund(f) => SameRows(s)  BY <2>3, <2>5, StoredElsewhere
  <2> QED  BY <1>2, <1>3, <1>4, <1>6, <2>3, <2>6, <2>7, AskedKeeps
<1> QED  BY <1>2, <1>5, <1>6

LEMMA DistributionKeeps ==
  ASSUME LimitInv, NEW page \in Pages, DistributionShare(page)
  PROVE  LimitInv'
<1> USE DEF LimitInv
<1> DEFINE s == NextInOrder
<1>1. PICK records : records = PageRecords(s, page)  OBVIOUS
<1>2. /\ limitRun.phase = "distribution" /\ UNCHANGED <<limitIssues, limitDay, limitAudited>>
      /\ \/ records = Raises /\ Advance({s}) /\ UNCHANGED limitRows
         \/ records # Raises /\ StoreSnapshot("EASTMONEY", records) /\ Advance({})
  BY <1>1 DEF DistributionShare, StoreSnapshot, Replaced
<1>3. PICK x \in Shares : x = s /\ x \in limitRun.shares  BY <1>2, NextIsLeft DEF LimitTypes
<1>4. {s} \in SUBSET Shares /\ {} \in SUBSET Shares  BY <1>3
<1>5. CASE records = Raises /\ Advance({s}) /\ UNCHANGED limitRows
  <2>1. RowsAreTyped(limitRows)'  BY <1>2, <1>5 DEF LimitTypes, RowsAreTyped
  <2>2. CapsAreStated'  BY <1>5 DEF CapsAreStated, CapIsStated, StatedOf, RecordOf
  <2>3. PICK failed \in SUBSET Shares : Advance(failed) /\ s \in failed
    BY <1>4, <1>5 DEF Advance
  <2>4. PICK stored \in SUBSET limitRun.shares : stored = {}  OBVIOUS
  <2>5. \A y : SameRows(y)  BY <1>5 DEF SameRows
  <2>6. stored \subseteq {NextInOrder} /\ NextInOrder \in failed  BY <2>3, <2>4
  <2> QED  BY <1>2, <2>1, <2>2, <2>3, <2>4, <2>5, <2>6, AskedKeeps
<1>6. CASE records # Raises /\ StoreSnapshot("EASTMONEY", records) /\ Advance({})
  <2>2. \A r \in records : r.share = x  BY <1>1, <1>3, <1>6, PageIsStated
  <2>3. SharesOf(records) \subseteq {x}  BY <2>2 DEF SharesOf
  <2>4. CapsAreStated'  BY <1>6, PageKeepsStated
  <2> DEFINE provider == "EASTMONEY"
  <2>5. provider \in {"CSRC", "EASTMONEY"} /\ StoreSnapshot(provider, records)  BY <1>6
  <2> HIDE DEF provider
  <2>6. RowsAreTyped(limitRows)'
    <3>1. SharesOf(records) \subseteq Shares  BY <2>3
    <3> QED  BY <1>2, <2>5, <3>1, SnapshotIsTyped
  <2>7. PICK stored \in SUBSET limitRun.shares : stored = {x}  BY <1>3
  <2>8. \A y : y \notin stored => SameRows(y)
    <3>1. \A y : y \notin stored => y \notin SharesOf(records)  BY <2>3, <2>7
    <3> QED  BY <2>5, <3>1, StoredElsewhere
  <2>9. \E row \in limitRows' : row.share = NextInOrder /\ row.day = limitDay
    <3>1. PICK r \in records : r.share = x
      <4>1. \E r : r \in records  BY <1>1, <1>6 DEF PageRecords
      <4> QED  BY <2>2, <4>1
    <3>2. Replaces(provider, records, SharesOf(records))  BY <2>5, SnapshotReplaces
    <3>3. RowOf(r, provider) \in limitRows'  BY <3>1, <3>2 DEF Replaces
    <3>4. RowOf(r, provider).share = x /\ RowOf(r, provider).day = limitDay  BY <3>1 DEF RowOf
    <3> QED  BY <1>3, <3>3, <3>4
  <2>10. stored \subseteq {NextInOrder}  BY <1>3, <2>7
  <2>11. PICK failed \in SUBSET Shares : Advance(failed)  BY <1>4, <1>6 DEF Advance
  <2> QED  BY <1>2, <2>4, <2>6, <2>7, <2>8, <2>9, <2>10, <2>11, AskedKeeps
<1> QED  BY <1>2, <1>5, <1>6

LEMMA FailureKeeps ==
  ASSUME LimitInv, LimitRequestFails
  PROVE  LimitInv'
<1> USE DEF LimitInv
<1> DEFINE asked == IF limitRun.phase = "direct" THEN SharesOfFund(NextInOrder) ELSE {NextInOrder}
<1>1. /\ limitRun.phase \in {"direct", "distribution"} /\ Advance(asked)
      /\ UNCHANGED <<limitRows, limitIssues, limitDay, limitAudited>>
  BY DEF LimitRequestFails
<1>2. asked \in SUBSET Shares
  <2>1. limitRun.phase = "distribution" => NextInOrder \in Shares
    BY <1>1, NextIsLeft DEF LimitTypes
  <2> QED  BY <1>1, <2>1 DEF SharesOfFund
<1>3. PICK failed \in SUBSET Shares :
        Advance(failed) /\ (limitRun.phase = "distribution" => NextInOrder \in failed)
  <2>1. limitRun.phase = "distribution" => NextInOrder \in asked  BY <1>1
  <2> HIDE DEF asked
  <2> QED  BY <1>1, <1>2, <2>1 DEF Advance
<1>4. RowsAreTyped(limitRows)'  BY <1>1 DEF LimitTypes, RowsAreTyped
<1>5. CapsAreStated'  BY <1>1 DEF CapsAreStated, CapIsStated, StatedOf, RecordOf
<1>6. PICK stored \in SUBSET limitRun.shares : stored = {}  OBVIOUS
<1>7. (\A y : SameRows(y)) /\ stored \subseteq {NextInOrder}  BY <1>1, <1>6 DEF SameRows
<1> QED  BY <1>1, <1>3, <1>4, <1>5, <1>6, <1>7, AskedKeeps

\* The audit says nothing of a share only when its rows are whole, and they are of the
\* newest day of all since nobody outside the sync has newer ones.
LEMMA AuditKeeps ==
  ASSUME LimitInv, AuditShare
  PROVE  LimitInv'
<1> USE DEF LimitInv
<1> DEFINE s == NextInOrder
           rows == {row \in limitRows :
                      row.share = s /\ row.day = AuditDay(s) /\ row.business = "PURCHASE"}
           incomplete == \/ {row.channel : row \in rows} # {"DIRECT", "DISTRIBUTION"}
                         \/ \E row \in rows : Unclear(row)
           ambiguous == \E row \in rows : row.cap = "LIMITED" /\ row.scope = "UNKNOWN"
           found == (IF s \in limitRun.failed THEN {"SALES_LIMIT_SYNC_FAILED"} ELSE {})
                    \cup (IF incomplete THEN {"SALES_LIMIT_COVERAGE_INCOMPLETE"} ELSE {})
                    \cup (IF ambiguous THEN {"SALES_LIMIT_CHANNEL_SCOPE_AMBIGUOUS"} ELSE {})
<1>1. /\ limitRun.phase = "audit" /\ limitIssues' = [limitIssues EXCEPT ![s] = found]
      /\ limitAudited' = limitAudited \cup {s}
      /\ Advance({}) /\ UNCHANGED <<limitRows, limitDay>>
  BY DEF AuditShare
<1>2. found \subseteq IssueCodes  BY DEF IssueCodes
<1>3. found = {} => WholeOn(s, AuditDay(s)) /\ s \notin limitRun.failed
  <2>1. found = {} => ~ incomplete /\ s \notin limitRun.failed  OBVIOUS
  <2>2. ~ incomplete => WholeOn(s, AuditDay(s))  BY DEF WholeOn
  <2> QED  BY <2>1, <2>2
<1> HIDE DEF found, rows, incomplete, ambiguous
<1>4. s \in Shares /\ s \in limitRun.left /\ s \in limitRun.shares
  BY <1>1, NextIsLeft DEF LimitTypes
<1>5. /\ RunIsTyped(limitRun)' /\ limitRun'.shares = limitRun.shares
      /\ limitRun'.failed = limitRun.failed
      /\ limitRun'.left = limitRun.left \ {s} /\ limitRun'.phase \in {"audit", "done"}
  <2>1. PICK failed \in SUBSET Shares : failed = {}  OBVIOUS
  <2>2. Advance(failed)  BY <1>1, <2>1
  <2> QED  BY <1>1, <2>1, <2>2, AdvanceMoves DEF LimitTypes
<1>6. found = {} => Whole(s) /\ s \in CoveredShares
  <2> SUFFICES ASSUME found = {}  PROVE Whole(s) /\ s \in CoveredShares
    OBVIOUS
  <2> DEFINE synced == {row \in limitRows : row.share \in limitRun.shares}
             own == {row \in limitRows : row.share = s}
  <2>1. AuditDay(s) = NewestDay(synced) /\ OwnDay(s) = NewestDay(own)
    BY DEF AuditDay, OwnDay
  <2>2. own \in SUBSET synced /\ synced \in SUBSET limitRows  BY <1>4
  <2>3. PICK one \in own : one.day = AuditDay(s)
    <3> DEFINE some == {row \in limitRows :
                          row.share = s /\ row.day = AuditDay(s) /\ row.business = "PURCHASE"}
    <3>1. {row.channel : row \in some} = {"DIRECT", "DISTRIBUTION"}  BY <1>3 DEF WholeOn
    <3>2. \E row \in some : row.channel = "DIRECT"  BY <3>1
    <3> QED  BY <3>2
  <2>4. \A row \in synced : row.day <= AuditDay(s) /\ row.day \in Nat
    <3>1. synced # {}  BY <2>2, <2>3
    <3> HIDE DEF synced, own
    <3> QED  BY <2>1, <2>2, <3>1, NewestOf DEF LimitTypes
  <2>5. Whole(s)
    <3> HIDE DEF synced, own
    <3>1. NewestDay(own) = NewestDay(synced)
      BY <2>1, <2>2, <2>3, NewestWithin DEF LimitTypes
    <3> QED  BY <1>3, <2>1, <3>1 DEF Whole
  <2>6. PICK fresh \in limitRows :
          /\ fresh.share = s
          /\ \A other \in limitRows : other.share \notin limitRun.shares => other.day <= fresh.day
    BY <1>1, <1>3, <1>4 DEF SyncedIsFresh, Fresh
  <2>7. fresh \in synced  BY <1>4, <2>6
  <2>8. one \in limitRows /\ one.share = s  BY <2>3
  <2>9. /\ NewestDay(limitRows) \in Nat
        /\ \E row \in limitRows : row.day = NewestDay(limitRows)
        /\ \A row \in limitRows : row.day \in Nat /\ row.day <= NewestDay(limitRows)
    BY <2>8, NewestOf DEF LimitTypes
  <2>10. \A row \in limitRows : row.day <= AuditDay(s)
    <3>1. one.day \in Nat /\ fresh.day \in Nat  BY <2>6, <2>8, <2>9
    <3>2. ASSUME NEW row \in limitRows  PROVE row.day <= AuditDay(s)
      <4>1. CASE row.share \in limitRun.shares  BY <2>4, <4>1
      <4>2. CASE row.share \notin limitRun.shares
        <5>1. row.day <= fresh.day /\ fresh.day <= AuditDay(s) /\ row.day \in Nat
          BY <2>4, <2>6, <2>7, <2>9, <4>2
        <5> HIDE DEF synced, own
        <5> QED  BY <2>3, <3>1, <5>1
      <4> QED  BY <4>1, <4>2
    <3> QED  BY <3>2
  <2>11. one.day = NewestDay(limitRows)
    <3> HIDE DEF synced, own, s
    <3> QED  BY <2>3, <2>8, <2>9, <2>10
  <2> QED  BY <2>5, <2>8, <2>11 DEF CoveredShares
<1>7. limitIssues' \in [Shares -> SUBSET IssueCodes]  BY <1>1, <1>2 DEF LimitTypes
<1>8. LimitTypes'
  <2>1. limitAudited' \in SUBSET Shares  BY <1>1, <1>4 DEF LimitTypes
  <2> QED  BY <1>1, <1>5, <1>7, <2>1 DEF LimitTypes, RowsAreTyped
<1>9. CapsAreStated'  BY <1>1 DEF CapsAreStated, CapIsStated, StatedOf, RecordOf
<1>10. /\ limitIssues'[s] = found
       /\ \A x \in Shares : x # s => limitIssues'[x] = limitIssues[x]
  BY <1>1, <1>4 DEF LimitTypes
<1>11. AuditedIsWhole'
  <2>1. ASSUME NEW x \in limitAudited', limitIssues'[x] = {}  PROVE Whole(x)'
    <3>1. Whole(x)' = Whole(x)  BY <1>1, WholeStays DEF SameRows
    <3>2. x \in Shares  BY <1>8, <2>1 DEF LimitTypes
    <3>3. CASE x = s  BY <1>6, <1>10, <2>1, <3>1, <3>3
    <3>4. CASE x # s
      <4>1. x \in limitAudited /\ limitIssues[x] = {}  BY <1>1, <1>10, <2>1, <3>2, <3>4
      <4> QED  BY <3>1, <4>1 DEF AuditedIsWhole
    <3> QED  BY <3>3, <3>4
  <2> QED  BY <1>5, <2>1 DEF AuditedIsWhole
<1>12. SyncedIsFresh'
  <2>1. /\ \A x : Fresh(x)' = Fresh(x)
        /\ CoveredShares' = CoveredShares
    BY <1>1, <1>5 DEF Fresh, CoveredShares, NewestDay
  <2>2. ASSUME NEW x \in limitRun'.shares \ limitRun'.left, limitIssues'[x] = {}
        PROVE  x \in CoveredShares
    <3>1. x \in limitRun.shares /\ x \in Shares
      BY <1>5, <2>2 DEF LimitTypes, RunIsTyped
    <3>2. CASE x = s  BY <1>6, <1>10, <2>2, <3>2
    <3>3. CASE x # s
      <4>1. x \notin limitRun.left /\ limitIssues[x] = {}  BY <1>5, <1>10, <2>2, <3>1, <3>3
      <4> QED  BY <1>1, <3>1, <4>1 DEF SyncedIsFresh
    <3> QED  BY <3>2, <3>3
  <2>3. \A x \in limitRun'.shares \ limitRun'.failed : Fresh(x)
    BY <1>1, <1>5 DEF SyncedIsFresh
  <2> QED  BY <2>1, <2>2, <2>3 DEF SyncedIsFresh
<1> QED  BY <1>8, <1>9, <1>11, <1>12

LEMMA MidnightKeeps ==
  ASSUME LimitInv, Midnight \/ UNCHANGED limitVars
  PROVE  LimitInv'
<1> USE DEF LimitInv
<1>1. /\ UNCHANGED <<limitRows, limitIssues, limitRun, limitAudited>>
      /\ limitDay' \in LimitDays /\ limitDay' \in {limitDay, limitDay + 1}
  BY DEF Midnight, limitVars, LimitTypes
<1>2. LimitTypes'
  <2>1. PICK n \in Nat : LimitDays = 1..n  BY DaysAreFinite
  <2>2. \A d \in LimitDays : d <= limitDay => d <= limitDay'
    BY <1>1, <2>1 DEF LimitTypes
  <2>3. RowsAreTyped(limitRows)'  BY <1>1, <2>2 DEF LimitTypes, RowsAreTyped
  <2>4. RunIsTyped(limitRun)'  BY <1>1 DEF LimitTypes, RunIsTyped
  <2> QED  BY <1>1, <2>3, <2>4 DEF LimitTypes
<1>3. CapsAreStated'  BY <1>1 DEF CapsAreStated, CapIsStated, StatedOf, RecordOf
<1>4. AuditedIsWhole'
  <2>1. \A s \in limitAudited : Whole(s)' = Whole(s)  BY <1>1, WholeStays DEF SameRows
  <2> QED  BY <1>1, <2>1 DEF AuditedIsWhole
<1>5. SyncedIsFresh'
  <2>1. (\A x : Fresh(x)' = Fresh(x)) /\ CoveredShares' = CoveredShares
    BY <1>1 DEF Fresh, CoveredShares, NewestDay
  <2> QED  BY <1>1, <2>1 DEF SyncedIsFresh
<1> QED  BY <1>2, <1>3, <1>4, <1>5

LEMMA StartsRight ==
  ASSUME LimitInit  PROVE LimitInv
<1>1. 1 \in LimitDays
  <2>1. PICK n \in Nat : LimitDays = 1..n  BY DaysAreFinite
  <2> QED  BY <2>1, LimitAssumption
<1>2. LimitTypes
  <2>1. limitIssues \in [Shares -> SUBSET IssueCodes]  BY DEF LimitInit
  <2>2. RunIsTyped(limitRun)  BY DEF LimitInit, NoSync, RunIsTyped, Phases
  <2> QED  BY <1>1, <2>1, <2>2 DEF LimitInit, LimitTypes, RowsAreTyped
<1>3. CapsAreStated  BY DEF LimitInit, CapsAreStated, StatedOf
<1>4. AuditedIsWhole  BY DEF LimitInit, NoSync, AuditedIsWhole
<1>5. SyncedIsFresh  BY DEF LimitInit, NoSync, SyncedIsFresh
<1> QED  BY <1>2, <1>3, <1>4, <1>5 DEF LimitInv

LEMMA StaysRight ==
  ASSUME LimitInv, [LimitNext]_limitVars
  PROVE  LimitInv'
<1>1. CASE \E codes \in (SUBSET LimitFunds) \ {{}} : StartLimits(codes)  BY <1>1, StartKeeps
<1>2. CASE AuditShare  BY <1>2, AuditKeeps
<1>3. CASE LimitRequestFails  BY <1>3, FailureKeeps
<1>4. CASE Midnight \/ UNCHANGED limitVars  BY <1>4, MidnightKeeps
<1>5. CASE \E list \in NoticeLists : DirectFund(list)  BY <1>5, DirectKeeps
<1>6. CASE \E page \in Pages : DistributionShare(page)  BY <1>6, DistributionKeeps
<1>7. CASE LimitSyncDies  BY <1>7, DeathKeeps
<1> QED  BY <1>1, <1>2, <1>3, <1>4, <1>5, <1>6, <1>7 DEF LimitNext

\* The list shows one of the rows of the newest day of a share and channel.
LEMMA ListedIsAmong ==
  ASSUME NEW s, NEW channel,
         NEW purchase, purchase = {row \in limitRows : row.share = s /\ row.business = "PURCHASE"},
         \E row \in purchase : row.day = NewestDay(purchase) /\ row.channel = channel
  PROVE  LET row == ListedLimit(s, channel)
         IN row \in purchase /\ row.day = NewestDay(purchase) /\ row.channel = channel
<1> DEFINE rows == {row \in purchase : row.day = NewestDay(purchase) /\ row.channel = channel}
           key(row) == CASE row.key = "ALL_DISTRIBUTORS" -> 0
                         [] row.key = "EASTMONEY_TIANTIAN" -> 4 [] OTHER -> 8
           rank(row) == key(row) + (IF row.cap = "UNKNOWN" THEN 2 ELSE 0)
                        + (IF row.availability = "UNKNOWN" THEN 1 ELSE 0)
           listed == CHOOSE row \in rows : \A other \in rows : rank(row) <= rank(other)
<1>1. rows # {}  OBVIOUS
<1>2. ListedLimit(s, channel) = listed
  <2>1. ListedLimit(s, channel) = IF rows = {} THEN None ELSE listed
    BY DEF ListedLimit
  <2> QED  BY <1>1, <2>1
<1>3. \A row : rank(row) \in Nat
  <2>1. \A row : key(row) \in {0, 4, 8}  OBVIOUS
  <2> HIDE DEF key
  <2>2. ASSUME NEW row  PROVE rank(row) \in Nat
    <3> DEFINE a == key(row)
               b == IF row.cap = "UNKNOWN" THEN 2 ELSE 0
               c == IF row.availability = "UNKNOWN" THEN 1 ELSE 0
    <3>1. a \in Nat /\ b \in Nat /\ c \in Nat  BY <2>1
    <3>2. rank(row) = a + b + c  OBVIOUS
    <3> HIDE DEF a, b, c, rank
    <3> QED  BY <3>1, <3>2
  <2> QED  BY <2>2
<1> HIDE DEF rank
<1>4. PICK row \in rows : \A other \in rows : rank(row) <= rank(other)
  <2> DEFINE ranks == {rank(r) : r \in rows}
  <2>1. \A n \in ranks : n \in Nat  BY <1>3
  <2>2. ranks \in SUBSET Nat /\ ranks # {}  BY <1>1, <2>1
  <2>3. PICK m \in ranks : \A n \in ranks : m <= n
    <3> HIDE DEF ranks
    <3> QED  BY <2>2, LeastNatural
  <2>4. PICK r \in rows : rank(r) = m  BY <2>3
  <2>5. \A other \in rows : rank(other) \in ranks  OBVIOUS
  <2> QED  BY <2>3, <2>4, <2>5
<1>5. listed \in rows
  <2> HIDE DEF rows
  <2> QED  BY <1>4
<1> QED  BY <1>2, <1>5

LEMMA WholeIsShown ==
  ASSUME LimitTypes, NEW s \in Shares, Whole(s), NEW channel \in {"DIRECT", "DISTRIBUTION"}
  PROVE  ListedWhole(s, channel)
<1> DEFINE own == {row \in limitRows : row.share = s}
           newest == {row \in limitRows :
                        row.share = s /\ row.day = OwnDay(s) /\ row.business = "PURCHASE"}
           purchase == {row \in limitRows : row.share = s /\ row.business = "PURCHASE"}
           shown == {row \in limitRows : row.share = s /\ row.channel \in {channel}}
<1>1. {row.channel : row \in newest} = {"DIRECT", "DISTRIBUTION"} /\ \A row \in newest : ~ Unclear(row)
  BY DEF Whole, WholeOn
<1>2. PICK one \in newest : one.channel = channel  BY <1>1
<1>3. one \in limitRows /\ one.share = s /\ one.business = "PURCHASE" /\ one.day = OwnDay(s)
  OBVIOUS
<1>4. OwnDay(s) = NewestDay(own)  BY DEF OwnDay
<1>5. NewestDay(purchase) = OwnDay(s)
  <2>1. own \in SUBSET limitRows /\ purchase \in SUBSET own /\ one \in purchase  BY <1>3
  <2> HIDE DEF own, purchase, newest
  <2> QED  BY <1>3, <1>4, <2>1, NewestWithin DEF LimitTypes
<1>6. PICK row : row = ListedLimit(s, channel)  OBVIOUS
<1>7. row \in purchase /\ row.day = OwnDay(s) /\ row.channel = channel
  <2>1. PICK set : set = purchase  OBVIOUS
  <2>2. \E r \in set : r.day = NewestDay(set) /\ r.channel = channel
    BY <1>2, <1>3, <1>5, <2>1
  <2>3. LET r == ListedLimit(s, channel)
        IN r \in set /\ r.day = NewestDay(set) /\ r.channel = channel
    BY <2>1, <2>2, ListedIsAmong
  <2> QED  BY <1>5, <1>6, <2>1, <2>3
<1>8. row \in newest  BY <1>7
<1>9. NewestDay(shown) = OwnDay(s)
  <2>1. own \in SUBSET limitRows /\ shown \in SUBSET own /\ row \in shown  BY <1>7
  <2> HIDE DEF own, shown, newest, purchase
  <2> QED  BY <1>4, <1>7, <2>1, NewestWithin DEF LimitTypes
<1>10. row \in ShownLimits(s, {channel})  BY <1>7, <1>9 DEF ShownLimits
<1> QED  BY <1>1, <1>6, <1>7, <1>8, <1>10 DEF ListedWhole

LEMMA QuietIsCovered ==
  ASSUME LimitInv  PROVE QuietMeansCovered
<1>1. ASSUME NEW s \in limitAudited, limitIssues[s] = {}, NEW channel \in {"DIRECT", "DISTRIBUTION"}
      PROVE  ListedWhole(s, channel)
  <2>1. s \in Shares /\ Whole(s)  BY <1>1 DEF LimitInv, LimitTypes, AuditedIsWhole
  <2> QED  BY <2>1, WholeIsShown DEF LimitInv
<1>2. ASSUME limitRun.phase = "done", NEW s \in limitRun.shares, limitIssues[s] = {}
      PROVE  s \in CoveredShares
  <2>1. limitRun.left = {}  BY <1>2 DEF LimitInv, LimitTypes, RunIsTyped
  <2> QED  BY <1>2, <2>1 DEF LimitInv, SyncedIsFresh
<1> QED  BY <1>1, <1>2 DEF QuietMeansCovered

-----------------------------------------------------------------------------
(* The theorems.                                                            *)

LEMMA AlwaysRight == LimitSpec => []LimitInv
<1>1. LimitInit => LimitInv  BY StartsRight
<1>2. LimitInv /\ [LimitNext]_limitVars => LimitInv'  BY StaysRight
<1> QED  BY <1>1, <1>2, PTL DEF LimitSpec

\* Every variable has its type; a phase never begins without something to do in it
\* (sync_purchase_limits).
THEOREM RunsAreTyped == LimitSpec => []LimitTypes
<1>1. LimitInv => LimitTypes  BY DEF LimitInv
<1> QED  BY <1>1, AlwaysRight, PTL

\* Whatever a notice says, no cap of a manager is made up or lifted, and what is stored
\* of a fund and a day is one notice's statement (_parse_csrc_notice, _store_snapshot).
THEOREM StatedCapsOnly == LimitSpec => []CapsAreStated
<1>1. LimitInv => CapsAreStated  BY DEF LimitInv
<1> QED  BY <1>1, AlwaysRight, PTL

\* A share the audit is silent about is shown whole, of its newest day, until its next
\* sync begins, and counts as covered when its sync ends, whichever funds a sync names
\* and whatever fails, dies or passes midnight (sync_purchase_limits,
\* _audit_share_coverage, _latest_purchase_limits, get_purchase_limit_coverage).
THEOREM SilenceIsCoverage == LimitSpec => []QuietMeansCovered
<1>1. LimitInv => QuietMeansCovered  BY QuietIsCovered
<1> QED  BY <1>1, AlwaysRight, PTL

-----------------------------------------------------------------------------
(* The archive.                                                             *)

Places == {"idle", "request", "received", "writing", "archived", "added"}

Fetches == [at : Places, attempt : Nat, content : Contents \cup {None}, add : BOOLEAN]

\* A process that has an answer has its content; one that adds a row has looked.
ArchiveTypeOK ==
    /\ fetch \in [Fetchers -> Fetches]
    /\ \A p \in Fetchers :
          At(p, {"received", "writing", "archived", "added"}) => fetch[p].content \in Contents
    /\ files \in [Contents -> {"none", "part", "whole"}]
    /\ temporaries \subseteq Fetchers
    /\ artifacts \subseteq Contents

ArchiveInv == ArchiveTypeOK /\ ArchiveIsWhole

\* Initially nothing is asked for, stored or recorded (archive_bytes has not run).
LEMMA InitWhole == ArchiveInit => ArchiveInv
  BY AttemptsAssumption
  DEF ArchiveInit, ArchiveInv, ArchiveTypeOK, ArchiveIsWhole, Fetches, Places, Idle, At

\* A process that goes on to f keeps the invariant if files only become whole and
\* what f and the rows name is whole then.
LEMMA FetchMoves ==
  ASSUME ArchiveInv, NEW p \in Fetchers, NEW f \in Fetches,
         fetch' = [fetch EXCEPT ![p] = f],
         f.attempt <= Attempts,
         f.at \in {"received", "writing", "archived", "added"} => f.content \in Contents,
         f.at \in {"archived", "added"} => files'[f.content] = "whole",
         files' \in [Contents -> {"none", "part", "whole"}],
         \A c \in Contents : files'[c] \in {files[c], "whole"},
         temporaries' \subseteq Fetchers,
         artifacts' \subseteq Contents,
         \A c \in artifacts' : files'[c] = "whole"
  PROVE  ArchiveInv'
<1>1. fetch \in [Fetchers -> Fetches]  BY DEF ArchiveInv, ArchiveTypeOK
<1>2. \A q \in Fetchers : fetch'[q] = IF q = p THEN f ELSE fetch[q]  BY <1>1
<1>3. fetch' \in [Fetchers -> Fetches]  BY <1>1
<1>4. \A q \in Fetchers :
        At(q, {"received", "writing", "archived", "added"})' => fetch'[q].content \in Contents
  BY <1>2 DEF ArchiveInv, ArchiveTypeOK, At
<1>5. ArchiveTypeOK'  BY <1>3, <1>4 DEF ArchiveTypeOK
<1>6. \A c \in Contents : files'[c] # "part"  BY DEF ArchiveInv, ArchiveIsWhole
<1>7. ASSUME NEW q \in Fetchers
      PROVE  /\ At(q, {"archived", "added"})' => files'[fetch'[q].content] = "whole"
             /\ fetch'[q].attempt <= Attempts
  <2>1. CASE q = p  BY <2>1, <1>2 DEF At
  <2>2. CASE q # p
    <3>1. fetch'[q] = fetch[q]  BY <2>2, <1>2
    <3>2. At(q, {"archived", "added"}) =>
            fetch[q].content \in Contents /\ files[fetch[q].content] = "whole"
      BY DEF ArchiveInv, ArchiveTypeOK, ArchiveIsWhole, At
    <3>3. fetch[q].attempt <= Attempts  BY DEF ArchiveInv, ArchiveIsWhole
    <3> QED  BY <3>1, <3>2, <3>3 DEF At
  <2> QED  BY <2>1, <2>2
<1> QED  BY <1>5, <1>6, <1>7 DEF ArchiveInv, ArchiveIsWhole

\* What FetchMoves asks for, of the process as it is and of files and rows that stay.
LEMMA Before ==
  ASSUME ArchiveInv, NEW p \in Fetchers
  PROVE  /\ fetch[p] \in Fetches /\ fetch[p].attempt <= Attempts
         /\ At(p, {"received", "writing", "archived", "added"}) => fetch[p].content \in Contents
         /\ At(p, {"archived", "added"}) => files[fetch[p].content] = "whole"
         /\ files \in [Contents -> {"none", "part", "whole"}]
         /\ temporaries \subseteq Fetchers /\ artifacts \subseteq Contents
         /\ \A c \in artifacts : files[c] = "whole"
  BY DEF ArchiveInv, ArchiveTypeOK, ArchiveIsWhole

\* A process that stops or dies leaves files and rows; a temporary file may go.
LEMMA Stops ==
  ASSUME ArchiveInv, NEW p \in Fetchers, Stop(p), UNCHANGED <<files, artifacts>>,
         temporaries' \subseteq temporaries
  PROVE  ArchiveInv'
<1>1. Idle \in Fetches /\ Idle.attempt = 0 /\ Idle.at = "idle"  BY DEF Idle, Fetches, Places
<1>2. 0 <= Attempts  BY AttemptsAssumption
<1> QED  BY <1>1, <1>2, Before, FetchMoves DEF Stop

\* A request, its answers and its retries touch no file and no row
\* (ProviderHttpClient.request).
LEMMA RequestWhole ==
  ASSUME ArchiveInv, NEW p \in Fetchers,
         StartFetch(p) \/ Retryable(p) \/ Refused(p) \/ \E c \in Contents : Answered(p, c)
  PROVE  ArchiveInv'
<1>1. CASE StartFetch(p)
  <2> DEFINE f == [Idle EXCEPT !.at = "request", !.attempt = 1]
  <2>1. f \in Fetches /\ f.at = "request" /\ f.attempt = 1  BY DEF Idle, Fetches, Places
  <2>2. f.attempt <= Attempts  BY <2>1, AttemptsAssumption
  <2>3. fetch' = [fetch EXCEPT ![p] = f] /\ UNCHANGED <<files, temporaries, artifacts>>
    BY <1>1 DEF StartFetch
  <2> HIDE DEF f
  <2> QED  BY <2>1, <2>2, <2>3, Before, FetchMoves
<1>2. CASE Retryable(p)
  <2>1. CASE fetch[p].attempt < Attempts
    <3> DEFINE f == [fetch[p] EXCEPT !.attempt = @ + 1]
    <3>1. fetch[p] \in Fetches /\ fetch[p].at = "request"  BY <1>2, Before DEF Retryable, At
    <3>2. f \in Fetches /\ f.at = "request" /\ f.attempt = fetch[p].attempt + 1
      BY <3>1 DEF Fetches
    <3>3. f.attempt <= Attempts  BY <3>1, <3>2, <2>1, AttemptsAssumption DEF Fetches
    <3>4. fetch' = [fetch EXCEPT ![p] = f] /\ UNCHANGED <<files, temporaries, artifacts>>
      BY <1>2, <2>1 DEF Retryable, MayRetry
    <3> HIDE DEF f
    <3> QED  BY <3>2, <3>3, <3>4, Before, FetchMoves
  <2>2. CASE ~ fetch[p].attempt < Attempts
    BY <1>2, <2>2, Stops DEF Retryable, MayRetry
  <2> QED  BY <2>1, <2>2
<1>3. CASE Refused(p)  BY <1>3, Stops DEF Refused
<1>4. CASE \E c \in Contents : Answered(p, c)
  <2>1. PICK c \in Contents : Answered(p, c)  BY <1>4
  <2> DEFINE f == [fetch[p] EXCEPT !.at = "received", !.content = c]
  <2>2. f \in Fetches /\ f.at = "received" /\ f.content = c /\ f.attempt = fetch[p].attempt
    BY Before DEF Fetches, Places
  <2>3. fetch' = [fetch EXCEPT ![p] = f] /\ UNCHANGED <<files, temporaries, artifacts>>
    BY <2>1 DEF Answered
  <2> HIDE DEF f
  <2> QED  BY <2>2, <2>3, Before, FetchMoves
<1> QED  BY <1>1, <1>2, <1>3, <1>4

\* Writing: the name is untouched until the rename, and a rename leaves it whole,
\* also when another process has renamed its own file before (archive_bytes).
LEMMA WriteWhole ==
  ASSUME ArchiveInv, NEW p \in Fetchers,
         FindFile(p) \/ BeginWrite(p) \/ Rename(p) \/ WriteFails(p)
  PROVE  ArchiveInv'
<1> DEFINE to(place) == [fetch[p] EXCEPT !.at = place]
<1>0. ASSUME NEW place \in Places
      PROVE  /\ to(place) \in Fetches /\ to(place).at = place
             /\ to(place).content = fetch[p].content /\ to(place).attempt = fetch[p].attempt
             /\ Goto(p, place) => fetch' = [fetch EXCEPT ![p] = to(place)]
  BY Before DEF Fetches, Goto
<1>1. CASE FindFile(p)
  <2>1. files[fetch[p].content] = "whole"
    BY <1>1, Before DEF FindFile, At, ArchiveInv, ArchiveIsWhole
  <2>2. fetch[p].content \in Contents  BY <1>1, Before DEF FindFile, At
  <2>3. Goto(p, "archived") /\ UNCHANGED <<files, temporaries, artifacts>>  BY <1>1 DEF FindFile
  <2>4. "archived" \in Places  BY DEF Places
  <2> HIDE DEF to
  <2> QED  BY <1>0, <2>1, <2>2, <2>3, <2>4, Before, FetchMoves
<1>2. CASE BeginWrite(p)
  <2>1. files' = files  BY <1>2, Before DEF BeginWrite, WhileWriting
  <2>2. fetch[p].content \in Contents  BY <1>2, Before DEF BeginWrite, At
  <2>3. Goto(p, "writing") /\ artifacts' = artifacts /\ temporaries' = temporaries \cup {p}
    BY <1>2 DEF BeginWrite
  <2>4. "writing" \in Places  BY DEF Places
  <2> HIDE DEF to
  <2> QED  BY <1>0, <2>1, <2>2, <2>3, <2>4, Before, FetchMoves
<1>3. CASE Rename(p)
  <2> DEFINE c0 == fetch[p].content
  <2>1. c0 \in Contents  BY <1>3, Before DEF Rename, At
  <2>2. /\ files' \in [Contents -> {"none", "part", "whole"}]
        /\ files'[c0] = "whole"
        /\ \A c \in Contents : files'[c] \in {files[c], "whole"}
    BY <1>3, <2>1, Before DEF Rename
  <2>3. \A c \in artifacts : files'[c] = "whole"  BY <2>2, Before
  <2>4. Goto(p, "archived") /\ artifacts' = artifacts /\ temporaries' \subseteq Fetchers
    BY <1>3, Before DEF Rename
  <2>5. "archived" \in Places  BY DEF Places
  <2> HIDE DEF to
  <2> QED  BY <1>0, <2>1, <2>2, <2>3, <2>4, <2>5, Before, FetchMoves
<1>4. CASE WriteFails(p)  BY <1>4, Stops DEF WriteFails
<1> QED  BY <1>1, <1>2, <1>3, <1>4

\* The row: it is added by a process that has found or written the file
\* (_record_artifact and the commit of its session).
LEMMA RowWhole ==
  ASSUME ArchiveInv, NEW p \in Fetchers,
         LookForRow(p) \/ Commit(p) \/ CommitConflicts(p) \/ RollsBack(p) \/ Dies(p)
  PROVE  ArchiveInv'
<1>1. CASE LookForRow(p)
  <2> DEFINE f == [fetch[p] EXCEPT !.at = "added", !.add = fetch[p].content \notin artifacts]
  <2>1. f \in Fetches /\ f.at = "added" /\ f.content = fetch[p].content
                      /\ f.attempt = fetch[p].attempt
    BY Before DEF Fetches, Places
  <2>2. fetch[p].content \in Contents /\ files[fetch[p].content] = "whole"
    BY <1>1, Before DEF LookForRow, At
  <2>3. fetch' = [fetch EXCEPT ![p] = f] /\ UNCHANGED <<files, temporaries, artifacts>>
    BY <1>1 DEF LookForRow
  <2> HIDE DEF f
  <2> QED  BY <2>1, <2>2, <2>3, Before, FetchMoves
<1>2. CASE Commit(p)
  <2>1. fetch[p].content \in Contents /\ files[fetch[p].content] = "whole"
    BY <1>2, Before DEF Commit, At
  <2>2. artifacts' \subseteq Contents /\ \A c \in artifacts' : files[c] = "whole"
    BY <1>2, <2>1, Before DEF Commit
  <2>3. Idle \in Fetches /\ Idle.attempt <= Attempts /\ Idle.at = "idle"
    BY AttemptsAssumption DEF Idle, Fetches, Places
  <2>4. fetch' = [fetch EXCEPT ![p] = Idle] /\ UNCHANGED <<files, temporaries>>
    BY <1>2 DEF Commit, Stop
  <2> QED  BY <2>2, <2>3, <2>4, Before, FetchMoves
<1>3. CASE CommitConflicts(p)  BY <1>3, Stops DEF CommitConflicts
<1>4. CASE RollsBack(p)        BY <1>4, Stops DEF RollsBack
<1>5. CASE Dies(p)             BY <1>5, Stops DEF Dies
<1> QED  BY <1>1, <1>2, <1>3, <1>4, <1>5

\* No step of any process, and no stutter, breaks it.
LEMMA ArchiveStep == ArchiveInv /\ [ArchiveNext]_archiveVars => ArchiveInv'
<1> SUFFICES ASSUME ArchiveInv, [ArchiveNext]_archiveVars  PROVE ArchiveInv'
  OBVIOUS
<1>1. CASE ArchiveNext
  BY <1>1, RequestWhole, WriteWhole, RowWhole DEF ArchiveNext
<1>2. CASE UNCHANGED archiveVars
  BY <1>2 DEF archiveVars, ArchiveInv, ArchiveTypeOK, ArchiveIsWhole, At
<1> QED  BY <1>1, <1>2

\* Whoever dies when, a row of source_artifact names a file that is whole, and no
\* request is sent more often than RetryPolicy.attempts (archive_bytes,
\* ProviderHttpClient.request).
THEOREM WholeArchive == ArchiveSpec => []ArchiveIsWhole
<1>1. ArchiveInv => ArchiveIsWhole  BY DEF ArchiveInv
<1> QED  BY InitWhole, ArchiveStep, <1>1, PTL DEF ArchiveSpec

-----------------------------------------------------------------------------
(* Startup.                                                                 *)

StartPlaces == {"down", "waited", "inspected", "migrating", "migrated", "serving"}

\* The types the proof needs.
StartupTypes ==
    /\ revision \in 0..11
    /\ container \in [Containers -> [at : StartPlaces, seen : 0..11]]
    /\ edits \in [Containers -> Nat]

\* A migration begins at or below the head of its image, and a container serves only
\* a database that has reached its head.
RevisionsGrow ==
    \A c \in Containers :
        /\ container[c].at = "migrating" => container[c].seen <= HeadOf[c]
        /\ container[c].at = "serving" => HeadOf[c] <= revision

\* The tables have the shape of its release from the moment a container serves until
\* they are edited or migrated on.
OwnShape ==
    \A c \in Containers :
        container[c].at = "serving" /\ revision = HeadOf[c] /\ edits[c] = 0
            => HasShapeOf(HeadOf[c])

\* At every revision the tables nobody edited are those of the revision, to their
\* rules, and there is no other.
AsReleased ==
    /\ DOMAIN schema \subseteq TablesAt(revision) \cup touched
    /\ \A t \in TablesAt(revision) \ touched :
          t \in DOMAIN schema /\ schema[t] = SchemaAt[revision][t]

StartupInv == StartupTypes /\ RevisionsGrow /\ OwnShape /\ AsReleased

\* Tables are only ever added.
LEMMA TablesGrow ==
  /\ TablesAt(0) = {}
  /\ \A from, to \in 0..11 : from <= to => TablesAt(from) \subseteq TablesAt(to)
<1>1. 1..0 = {}  OBVIOUS
<1>2. TablesAt(0) = {}  BY <1>1 DEF TablesAt
<1>3. ASSUME NEW from \in 0..11, NEW to \in 0..11, from <= to
      PROVE  TablesAt(from) \subseteq TablesAt(to)
  <2>1. 1..from \subseteq 1..to  BY <1>3
  <2> QED  BY <2>1 DEF TablesAt
<1> QED  BY <1>2, <1>3

\* What a revision says of a table is its shape and its rules and no more.
LEMMA SchemaIsBoth ==
  \A r \in 0..11 : \A t \in TablesAt(r) :
      SchemaAt[r][t] = [shape |-> SchemaAt[r][t].shape, rules |-> SchemaAt[r][t].rules]
<1>1. Len(Lineage) = 11  BY DEF Lineage
<1> SUFFICES ASSUME NEW r \in 0..11, NEW t \in TablesAt(r)
             PROVE  SchemaAt[r][t] = [shape |-> SchemaAt[r][t].shape,
                                      rules |-> SchemaAt[r][t].rules]
  OBVIOUS
<1> DEFINE shape == Max({i \in 1..r : t \in Lineage[i].shape})
           rules == Max({i \in 1..r : t \in Lineage[i].rules})
<1>2. SchemaAt[r][t] = [shape |-> shape, rules |-> rules]  BY <1>1 DEF SchemaAt
<1> HIDE DEF shape, rules
<1> QED  BY <1>2

LEMMA InitStartup == StartupInit => StartupInv
<1> SUFFICES ASSUME StartupInit  PROVE StartupInv
  OBVIOUS
<1>1. StartupTypes  BY DEF StartupInit, StartupTypes, StartPlaces
<1>2. RevisionsGrow /\ OwnShape
  BY DEF StartupInit, RevisionsGrow, OwnShape
<1>3. AsReleased  BY TablesGrow DEF StartupInit, AsReleased
<1> QED  BY <1>1, <1>2, <1>3 DEF StartupInv

\* A container moves and the database stays as it is.
LEMMA MoveKeeps ==
  ASSUME StartupInv, NEW c \in Containers,
         UNCHANGED <<revision, schema, edits, touched>>,
         NEW r \in [at : StartPlaces \ {"serving"}, seen : 0..11],
         r.at = "migrating" => r.seen <= HeadOf[c],
         container' = [container EXCEPT ![c] = r]
  PROVE  StartupInv'
<1> USE DEF StartupInv
<1>1. \A d \in Containers : container'[d] = IF d = c THEN r ELSE container[d]
  BY DEF StartupTypes
<1>2. StartupTypes'  BY DEF StartupTypes
<1>3. RevisionsGrow'  BY <1>1 DEF RevisionsGrow
<1>4. OwnShape'  BY <1>1 DEF OwnShape, HasShapeOf
<1>5. AsReleased'  BY DEF AsReleased
<1> QED  BY <1>2, <1>3, <1>4, <1>5

\* database_preflight --require-head: the container serves what it has inspected.
LEMMA RequireHeadKeeps ==
  ASSUME StartupInv, NEW c \in Containers, RequireHead(c)
  PROVE  StartupInv'
<1> USE DEF StartupInv
<1> DEFINE place == IF MayServe(c) THEN "serving" ELSE "down"
<1>1. /\ container' = [container EXCEPT ![c].at = place]
      /\ edits' = [edits EXCEPT ![c] = 0] /\ UNCHANGED <<revision, schema, touched>>
  BY DEF RequireHead, Move
<1>2. place \in {"serving", "down"}  OBVIOUS
<1>3. place = "serving" => revision = HeadOf[c] /\ HasShapeOf(HeadOf[c])
  BY DEF MayServe, DatabaseState
<1> HIDE DEF place
<1>4. \A d \in Containers :
        /\ container'[d].at = IF d = c THEN place ELSE container[d].at
        /\ container'[d].seen = container[d].seen
        /\ edits'[d] = IF d = c THEN 0 ELSE edits[d]
  BY <1>1 DEF StartupTypes
<1>5. StartupTypes'
  <2>1. container' \in [Containers -> [at : StartPlaces, seen : 0..11]]
    BY <1>1, <1>2 DEF StartupTypes, StartPlaces
  <2> QED  BY <1>1, <2>1 DEF StartupTypes
<1>6. RevisionsGrow'
  BY <1>1, <1>2, <1>3, <1>4, StartupAssumption DEF RevisionsGrow
<1>7. OwnShape'
  <2>1. \A h : HasShapeOf(h)' <=> HasShapeOf(h)  BY <1>1 DEF HasShapeOf
  <2> QED  BY <1>1, <1>2, <1>3, <1>4, <2>1 DEF OwnShape
<1>8. AsReleased'  BY <1>1 DEF AsReleased
<1> QED  BY <1>5, <1>6, <1>7, <1>8

\* A migration makes of the tables of one revision those of a later one.
LEMMA MigrationReleases ==
  ASSUME StartupInv, NEW c \in Containers, revision <= HeadOf[c],
         CreatedBetween(revision, HeadOf[c]) \cap DOMAIN schema = {},
         NEW next,
         next = [t \in DOMAIN schema \cup CreatedBetween(revision, HeadOf[c]) |->
                    IF t \in CreatedBetween(revision, HeadOf[c]) THEN SchemaAt[HeadOf[c]][t]
                    ELSE IF t \in TablesAt(revision) THEN Migrated(t, revision, HeadOf[c])
                    ELSE schema[t]]
  PROVE  /\ DOMAIN next \subseteq TablesAt(HeadOf[c]) \cup touched
         /\ \A t \in TablesAt(HeadOf[c]) \ touched :
               t \in DOMAIN next /\ next[t] = SchemaAt[HeadOf[c]][t]
         /\ revision = HeadOf[c] /\ HasShapeOf(revision) =>
               /\ DOMAIN next = TablesAt(revision)
               /\ \A t \in TablesAt(revision) :
                     next[t].shape = SchemaAt[revision][t].shape
<1> USE DEF StartupInv
<1> DEFINE head == HeadOf[c]
           created == CreatedBetween(revision, head)
<1>1. head \in 0..11 /\ revision \in 0..11
  BY StartupAssumption DEF StartupTypes
<1>2. TablesAt(revision) \subseteq TablesAt(head)  BY <1>1, TablesGrow
<1>3. created = TablesAt(head) \ TablesAt(revision)  BY DEF CreatedBetween
<1>4. /\ DOMAIN next = DOMAIN schema \cup created
      /\ \A t \in created : next[t] = SchemaAt[head][t]
      /\ \A t \in DOMAIN schema \cap TablesAt(revision) :
            next[t] = Migrated(t, revision, head)
  BY <1>3
<1>5. DOMAIN next \subseteq TablesAt(head) \cup touched
  BY <1>2, <1>3, <1>4 DEF AsReleased
<1>6. ASSUME NEW t \in TablesAt(head) \ touched
      PROVE  t \in DOMAIN next /\ next[t] = SchemaAt[head][t]
  <2>1. CASE t \in created  BY <1>4, <2>1
  <2>2. CASE t \notin created
    <3>1. t \in TablesAt(revision) \ touched  BY <1>3, <2>2
    <3>2. t \in DOMAIN schema /\ schema[t] = SchemaAt[revision][t]
      BY <3>1 DEF AsReleased
    <3>3. next[t] = Migrated(t, revision, head)  BY <1>4, <3>1, <3>2
    <3>4. Migrated(t, revision, head)
            = [shape |-> SchemaAt[head][t].shape, rules |-> SchemaAt[head][t].rules]
      BY <3>2 DEF Migrated, Renewed
    <3> QED  BY <1>1, <1>4, <3>2, <3>3, <3>4, SchemaIsBoth
  <2> QED  BY <2>1, <2>2
<1>7. ASSUME revision = head, HasShapeOf(revision)
      PROVE  /\ DOMAIN next = TablesAt(revision)
             /\ \A t \in TablesAt(revision) : next[t].shape = SchemaAt[revision][t].shape
  <2>1. DOMAIN schema = TablesAt(revision) /\ created = {}
    BY <1>3, <1>7 DEF HasShapeOf
  <2>2. ASSUME NEW t \in TablesAt(revision)
        PROVE  next[t].shape = SchemaAt[revision][t].shape
    <3>1. next[t] = Migrated(t, revision, head)  BY <1>4, <2>1
    <3>2. Migrated(t, revision, head).shape = schema[t].shape
      BY <1>7 DEF Migrated, Renewed
    <3> QED  BY <1>7, <3>1, <3>2 DEF HasShapeOf
  <2> QED  BY <1>4, <2>1, <2>2
<1> QED  BY <1>5, <1>6, <1>7

\* A migration does not end below the revision it began from, and where it began at
\* its own head it changes no shape.
LEMMA CommitMigrationKeeps ==
  ASSUME StartupInv, NEW c \in Containers, CommitMigration(c)
  PROVE  StartupInv'
<1> USE DEF StartupInv
<1>1. /\ container[c].at = "migrating" /\ container[c].seen = revision
      /\ CreatedBetween(revision, HeadOf[c]) \cap DOMAIN schema = {}
      /\ schema' = [t \in DOMAIN schema \cup CreatedBetween(revision, HeadOf[c]) |->
                    IF t \in CreatedBetween(revision, HeadOf[c]) THEN SchemaAt[HeadOf[c]][t]
                    ELSE IF t \in TablesAt(revision) THEN Migrated(t, revision, HeadOf[c])
                    ELSE schema[t]]
      /\ revision' = HeadOf[c]
      /\ container' = [container EXCEPT ![c].at = "migrated"]
      /\ UNCHANGED <<edits, touched>>
  BY DEF CommitMigration, MigrationFits, Move
<1>2. HeadOf[c] \in 1..11 /\ revision \in 0..11 /\ revision <= HeadOf[c]
  BY <1>1, StartupAssumption DEF StartupTypes, RevisionsGrow
<1>3. /\ DOMAIN schema' \subseteq TablesAt(HeadOf[c]) \cup touched
      /\ \A t \in TablesAt(HeadOf[c]) \ touched :
            t \in DOMAIN schema' /\ schema'[t] = SchemaAt[HeadOf[c]][t]
      /\ revision = HeadOf[c] /\ HasShapeOf(revision) =>
            /\ DOMAIN schema' = TablesAt(revision)
            /\ \A t \in TablesAt(revision) :
                  schema'[t].shape = SchemaAt[revision][t].shape
  BY <1>1, <1>2, MigrationReleases
<1>4. \A d \in Containers : container'[d].at = "serving" => d # c /\ container[d].at = "serving"
  BY <1>1 DEF StartupTypes
<1>5. StartupTypes'
  <2>1. container' \in [Containers -> [at : StartPlaces, seen : 0..11]]
    BY <1>1 DEF StartupTypes, StartPlaces
  <2> QED  BY <1>1, <1>2, <2>1 DEF StartupTypes
<1>6. RevisionsGrow'
  <2>1. \A d \in Containers : container'[d].at = "migrating" =>
          container[d].at = "migrating" /\ container'[d].seen = container[d].seen
    BY <1>1 DEF StartupTypes
  <2>2. \A d \in Containers : container[d].at = "serving" => HeadOf[d] <= HeadOf[c]
    BY <1>2, StartupAssumption DEF RevisionsGrow
  <2> QED  BY <1>1, <1>4, <2>1, <2>2 DEF RevisionsGrow
<1>7. OwnShape'
  <2> SUFFICES ASSUME NEW d \in Containers, container[d].at = "serving",
                      HeadOf[c] = HeadOf[d], edits[d] = 0
               PROVE  HasShapeOf(HeadOf[d])'
    BY <1>1, <1>4 DEF OwnShape
  <2>1. revision = HeadOf[d]  BY <1>2, StartupAssumption DEF RevisionsGrow
  <2>2. HasShapeOf(revision)  BY <2>1 DEF OwnShape
  <2> QED  BY <1>3, <2>1, <2>2 DEF HasShapeOf
<1>8. AsReleased'  BY <1>1, <1>3 DEF AsReleased
<1> QED  BY <1>5, <1>6, <1>7, <1>8

\* What is edited is noted, for every container and of the table.
LEMMA EditSchemaKeeps ==
  ASSUME StartupInv, NEW edit \in Edits, EditSchema(edit)
  PROVE  StartupInv'
<1> USE DEF StartupInv
<1>1. /\ UNCHANGED <<revision, container>>
      /\ edits' = [d \in Containers |-> edits[d] + 1]
      /\ touched' = touched \cup {edit.table}
  BY DEF EditSchema
<1>2. /\ DOMAIN schema' \subseteq DOMAIN schema \cup {edit.table}
      /\ \A t \in DOMAIN schema \ {edit.table} : t \in DOMAIN schema' /\ schema'[t] = schema[t]
  BY DEF EditSchema
<1>3. \A d \in Containers : edits'[d] \in Nat /\ edits'[d] # 0  BY <1>1 DEF StartupTypes
<1>4. StartupTypes'
  <2>1. edits' \in [Containers -> Nat]  BY <1>1 DEF StartupTypes
  <2> QED  BY <1>1, <2>1 DEF StartupTypes
<1>5. RevisionsGrow'  BY <1>1 DEF RevisionsGrow
<1>6. OwnShape'  BY <1>3 DEF OwnShape
<1>7. AsReleased'  BY <1>1, <1>2 DEF AsReleased
<1> QED  BY <1>4, <1>5, <1>6, <1>7

\* Every step keeps the invariant.
LEMMA StepStartup == StartupInv /\ [StartupNext]_startupVars => StartupInv'
<1> SUFFICES ASSUME StartupInv, [StartupNext]_startupVars  PROVE StartupInv'
  OBVIOUS
<1>1. CASE UNCHANGED <<revision, schema, container, edits, touched>>
  BY <1>1 DEF StartupInv, StartupTypes, RevisionsGrow, OwnShape, HasShapeOf, AsReleased
<1>2. ASSUME NEW c \in Containers,
             \/ WaitForDb(c) \/ Preflight(c) \/ BeginMigration(c) \/ MigrationFails(c) \/ Die(c)
      PROVE  StartupInv'
  <2>1. UNCHANGED <<revision, schema, edits, touched>>
    BY <1>2 DEF WaitForDb, Preflight, BeginMigration, MigrationFails, Die
  <2>2. container[c] \in [at : StartPlaces, seen : 0..11]  BY DEF StartupInv, StartupTypes
  <2>3. CASE BeginMigration(c)
    <3> DEFINE r == IF revision \in 0..HeadOf[c] THEN [at |-> "migrating", seen |-> revision]
                    ELSE [at |-> "down", seen |-> 0]
    <3>1. r \in [at : StartPlaces \ {"serving"}, seen : 0..11]
      BY DEF StartupInv, StartupTypes, StartPlaces
    <3>2. r.at = "migrating" => r.seen <= HeadOf[c]
      BY StartupAssumption
    <3>3. container' = [container EXCEPT ![c] = r]  BY <2>3 DEF BeginMigration
    <3> HIDE DEF r
    <3> QED  BY <2>1, <3>1, <3>2, <3>3, MoveKeeps
  <2>4. CASE ~BeginMigration(c)
    <3>1. PICK place \in {"down", "waited", "inspected"} : Move(c, place)
      BY <1>2, <2>4 DEF WaitForDb, Preflight, MigrationFails, Die
    <3> DEFINE r == [container[c] EXCEPT !.at = place]
    <3>2. r \in [at : StartPlaces \ {"serving"}, seen : 0..11] /\ r.at # "migrating"
      BY <2>2, <3>1 DEF StartPlaces
    <3>3. container' = [container EXCEPT ![c] = r]
      BY <3>1 DEF Move, StartupInv, StartupTypes
    <3> HIDE DEF r
    <3> QED  BY <2>1, <3>2, <3>3, MoveKeeps
  <2> QED  BY <2>3, <2>4
<1>3. ASSUME NEW c \in Containers, CommitMigration(c)  PROVE StartupInv'
  BY <1>3, CommitMigrationKeeps
<1>4. ASSUME NEW c \in Containers, RequireHead(c)  PROVE StartupInv'
  BY <1>4, RequireHeadKeeps
<1>5. ASSUME NEW edit \in Edits, EditSchema(edit)  PROVE StartupInv'
  BY <1>5, EditSchemaKeeps
<1> QED  BY <1>1, <1>2, <1>3, <1>4, <1>5 DEF StartupNext, Provision, startupVars

\* Whatever raced with its start, a container that serves and is ready does so on the
\* tables of its release, each of the shape its release declares, unless they were
\* edited after it began to serve; a table that was never edited by hand has the rules
\* of the release too, which the start does not compare (database_preflight.py); and a
\* database without a revision has no table of a migration.
THEOREM OwnSchemaServed == StartupSpec => []ServesItsOwnSchema
<1>1. StartupInv => ServesItsOwnSchema
  BY TablesGrow DEF StartupInv, OwnShape, AsReleased, ServesItsOwnSchema, Ready
<1> QED  BY <1>1, InitStartup, StepStartup, PTL DEF StartupSpec
=============================================================================
