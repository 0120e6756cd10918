------------------------------ MODULE NavHistory ------------------------------
(***************************************************************************)
(* The sync of one share: its NAVs, fetched page by page from a source     *)
(* that goes on publishing and revising while it is read, and where it is  *)
(* the daily one then its exchange prices, with their premium over the     *)
(* stored NAVs.  A daily sync ends today; a backfill has any window.       *)
(*                                                                         *)
(* Shares are synced one after the other and share no row, so one stands   *)
(* for all.  A return is abstracted to the NAV it is relative to: the one  *)
(* a row was calculated against, and the one the source says.              *)
(***************************************************************************)
EXTENDS SqlNull, Integers, FiniteSets, FiniteSetsExt

CONSTANTS
    HistoryDays,     \* the days of the history, 1..n
    Records,      \* what the source may show for a day: [nav, published]; published is
                  \* the NAV its daily return is relative to, or None
    PageSizes,    \* rows of a page; a large one is the chart source, one page for all
    Lookbacks,    \* days of the windows of daily syncs
    Backfills,    \* the windows of backfills: <<first day, last day>>
    MaxRevisions  \* BOUND: records of a day the source changes

\* A row of daily_fund_nav: the value, and the NAVs its two returns are relative to.
NavRow ==
    LET published == {r.published : r \in Records}
    IN [nav : Nat, published : published, base : Nat \cup {None}]

ASSUME NavAssumption ==
    /\ IsFiniteSet(HistoryDays) /\ HistoryDays = 1..Cardinality(HistoryDays)
    /\ PageSizes \subseteq Nat \ {0} /\ Lookbacks \subseteq Nat /\ MaxRevisions \in Nat
    /\ Backfills \subseteq Int \X Int
    /\ \A r \in Records : r.nav \in Nat \ {0} /\ None \notin {r, r.nav}
    /\ None \notin NavRow

VARIABLES
    source,      \* day |-> the record the NAV source shows, or None
    revisions,   \* how many records were changed
    navRows,     \* DailyFundNav: day |-> [nav, published, base], or None
    priceRows,   \* DailyExchangePrice: day |-> [nav], the NAV of its premium, or None
    navIssues,   \* the open issues of the share
    sync         \* the sync that runs, or the last one that ended

navVars == <<source, revisions, navRows, priceRows, navIssues, sync>>

SyncPhases == {"idle", "paging", "fetched", "prices", "done"}

\* The rows of a table by day, some of them written over or added.
Upsert(new, table) ==
    [d \in DOMAIN new \cup DOMAIN table |-> IF d \in DOMAIN new THEN new[d] ELSE table[d]]

-----------------------------------------------------------------------------
(* The sources.                                                             *)

Shown(window) == {d \in window : source[d] # None}

\* The rows of a page, newest first, and how many pages there are at this moment.
Page(window, size, index) ==
    {d \in Shown(window) :
        LET newer == Cardinality({e \in Shown(window) : e > d})
        IN (index - 1) * size <= newer /\ newer < index * size}

PageCount(window, size) == (Cardinality(Shown(window)) + size - 1) \div size

\* A window the sync has yet to read may grow or change under it.
PublishNav(d, record) ==
    /\ source[d] # record
    /\ IF source[d] = None
       THEN /\ \A e \in HistoryDays : e < d => source[e] # None
            /\ UNCHANGED revisions
       ELSE revisions < MaxRevisions /\ revisions' = revisions + 1
    /\ source' = [source EXCEPT ![d] = record]
    /\ sync' = IF d \in sync.window /\ sync.phase = "paging"
                THEN [sync EXCEPT !.seen = @ \cup {<<d, record>>}] ELSE sync
    /\ UNCHANGED <<navRows, priceRows, navIssues>>

-----------------------------------------------------------------------------
(* sync_nav.                                                                *)

NavInit ==
    /\ source = [d \in HistoryDays |-> None] /\ revisions = 0
    /\ navRows = [d \in HistoryDays |-> None] /\ priceRows = [d \in HistoryDays |-> None]
    /\ navIssues = {}
    /\ sync = [phase |-> "idle", window |-> {}, size |-> 1, page |-> 1, pages |-> 1,
               records |-> [d \in {} |-> None], failed |-> FALSE, atStart |-> {}, seen |-> {},
               daily |-> TRUE]

\* A sync of the days from first to last begins.
StartNavSync(first, last, size, daily) ==
    /\ sync.phase \in {"idle", "done"}
    /\ LET window == {d \in HistoryDays : first <= d /\ d <= last}
       IN sync' = [phase |-> "paging", window |-> window, size |-> size, page |-> 1, pages |-> 1,
                   records |-> [d \in {} |-> None], failed |-> FALSE,
                   atStart |-> Shown(window),
                   seen |-> {<<d, source[d]>> : d \in Shown(window)}, daily |-> daily]
    /\ UNCHANGED <<source, revisions, navRows, priceRows, navIssues>>

\* sync_daily: the look-back and today; of a day to come no NAV is shown.
StartDaily(today, lookback, size) ==
    /\ \A d \in Shown(HistoryDays) : d <= today
    /\ StartNavSync(today - lookback, today, size, TRUE)

\* backfill-nav, or the NAVs a portfolio file lacks: any window, and no prices.
StartBackfill(first, last, size) == StartNavSync(first, last, size, FALSE)

\* Where a sync goes on once its NAVs are stored, or failed.
AfterNavs == IF sync.daily THEN "prices" ELSE "done"

\* Faulty variant: the number of pages is that of the first answer.
PagesAfter_Frozen(pages, index, answered) == IF index = 1 THEN answered ELSE pages

\* total_pages is taken from every answer.
PagesAfter(pages, index, answered) == answered

\* One answer: its records replace what an earlier page had for the same day.
FetchPage ==
    /\ sync.phase = "paging" /\ sync.page <= sync.pages
    /\ LET rows == Page(sync.window, sync.size, sync.page)
           pages == PagesAfter(sync.pages, sync.page, PageCount(sync.window, sync.size))
           records == Upsert([d \in rows |-> source[d]], sync.records)
       IN sync' = IF sync.page + 1 <= pages
                  THEN [sync EXCEPT !.page = @ + 1, !.pages = pages, !.records = records]
                  ELSE [sync EXCEPT !.page = 1, !.pages = 1, !.size = 1, !.records = records,
                                    !.phase = "fetched"]
    /\ UNCHANGED <<source, revisions, navRows, priceRows, navIssues>>

\* The share fails; whatever was fetched is dropped.
FailNav ==
    /\ navIssues' = navIssues \cup {"NAV_SYNC_FAILED"}
    /\ sync' = [sync EXCEPT !.phase = AfterNavs, !.failed = TRUE, !.page = 1, !.pages = 1,
                            !.size = 1, !.atStart = {}, !.seen = {}, !.records = [d \in {} |-> None]]
    /\ UNCHANGED <<source, revisions, navRows, priceRows>>

\* The request fails, or the answer is not what it should be.
FetchFails == sync.phase = "paging" /\ FailNav

NoRecords == sync.phase = "fetched" /\ DOMAIN sync.records = {} /\ FailNav

\* Faulty variant: the newest row of the table, whether or not it is before the records.
PreviousNav_Newest(records, d) ==
    LET earlier == {e \in DOMAIN records : e < d}
        stored == {e \in HistoryDays : navRows[e] # None}
    IN IF earlier # {} THEN records[Max(earlier)].nav
       ELSE IF stored # {} THEN navRows[Max(stored)].nav
       ELSE None

\* The NAV the return of day d is calculated against: that of the record before it,
\* for the first record that of the newest row stored before the window's records.
PreviousNav(records, d) ==
    LET earlier == {e \in DOMAIN records : e < d}
        before == {e \in HistoryDays : e < Min(DOMAIN records) /\ navRows[e] # None}
    IN IF earlier # {} THEN records[Max(earlier)].nav
       ELSE IF before # {} THEN navRows[Max(before)].nav
       ELSE None

Mismatch(row) == row.base # None /\ row.published # None /\ row.base # row.published

\* resolve_issues, then _upsert_nav_rows.
StoreNavs ==
    /\ sync.phase = "fetched" /\ DOMAIN sync.records # {}
    /\ LET records == sync.records
           stored == [d \in DOMAIN records |->
                        [nav |-> records[d].nav, published |-> records[d].published,
                         base |-> PreviousNav(records, d)]]
       IN /\ navRows' = Upsert(stored, navRows)
          /\ navIssues' = (navIssues \ {"NAV_SYNC_FAILED", "NAV_RETURN_MISMATCH"})
                \cup (IF \E d \in DOMAIN stored : Mismatch(stored[d])
                      THEN {"NAV_RETURN_MISMATCH"} ELSE {})
    /\ sync' = [sync EXCEPT !.phase = AfterNavs]
    /\ UNCHANGED <<source, revisions, priceRows>>

-----------------------------------------------------------------------------
(* sync_exchange_prices.                                                    *)

\* Faulty variant: a row that is already stored keeps its premium.
Premium_Kept(d) ==
    IF priceRows[d] # None THEN priceRows[d]
    ELSE [nav |-> IF navRows[d] = None THEN None ELSE navRows[d].nav]

\* Of the NAV that is stored for the day now.
Premium(d) == [nav |-> IF navRows[d] = None THEN None ELSE navRows[d].nav]

\* quoted: the days of the window for which the price source has a row; what it has
\* once shown, it goes on showing.
StorePrices(quoted) ==
    /\ sync.phase = "prices" /\ quoted # {}
    /\ {d \in sync.window : priceRows[d] # None} \subseteq quoted
    /\ priceRows' = Upsert([d \in quoted |-> Premium(d)], priceRows)
    /\ navIssues' = navIssues \ {"MARKET_PRICE_SYNC_FAILED"}
    /\ sync' = [sync EXCEPT !.phase = "done"]
    /\ UNCHANGED <<source, revisions, navRows>>

\* No row in the window, or the request fails.
PricesFail ==
    /\ sync.phase = "prices"
    /\ navIssues' = navIssues \cup {"MARKET_PRICE_SYNC_FAILED"}
    /\ sync' = [sync EXCEPT !.phase = "done", !.failed = TRUE]
    /\ UNCHANGED <<source, revisions, navRows, priceRows>>

NavNext ==
    \/ \E d \in HistoryDays, record \in Records : PublishNav(d, record)
    \/ \E today \in HistoryDays, lookback \in Lookbacks, size \in PageSizes :
          StartDaily(today, lookback, size)
    \/ \E window \in Backfills, size \in PageSizes : StartBackfill(window[1], window[2], size)
    \/ FetchPage \/ FetchFails \/ NoRecords \/ StoreNavs
    \/ \E quoted \in SUBSET sync.window : StorePrices(quoted)
    \/ PricesFail

NavSpec == NavInit /\ [][NavNext]_navVars

-----------------------------------------------------------------------------

\* A sync that failed nowhere has stored the window whole: every day the source
\* showed when it began, with a record the source showed while it ran; each row
\* calculated against the row stored before it, and the mismatch issue open exactly
\* when a row of these disagrees with its source.
SyncedWindowIsWhole ==
    (sync.phase = "done" /\ ~ sync.failed) =>
        LET rows == DOMAIN sync.records
        IN /\ sync.atStart \subseteq rows
           /\ \A d \in rows :
                 LET earlier == {e \in HistoryDays : e < d /\ navRows[e] # None}
                 IN /\ \E shown \in sync.seen :
                          /\ shown[1] = d /\ shown[2].nav = navRows[d].nav
                          /\ shown[2].published = navRows[d].published
                    /\ navRows[d].base = IF earlier = {} THEN None ELSE navRows[Max(earlier)].nav
           /\ "NAV_RETURN_MISMATCH" \in navIssues <=> \E d \in rows : Mismatch(navRows[d])

\* The return of a stored row is relative to the row stored before it.
ReturnIsCurrent(d) ==
    LET earlier == {e \in HistoryDays : e < d /\ navRows[e] # None}
    IN /\ navRows[d] # None
       /\ navRows[d].base = IF earlier = {} THEN None ELSE navRows[Max(earlier)].nav

\* d has the first row after these days.
FirstAfter(days, d) ==
    /\ days # {} /\ \A e \in days : e < d
    /\ \A e \in HistoryDays : e < d /\ navRows[e] # None => \E f \in days : e <= f

\* Rows are only written in windows, and a return depends on a row that may lie
\* outside: a return that was relative to the row before it stays so whatever window
\* is written, inside it, before it and after it.  The one exception is the first row
\* after the window, which a backfill does not calculate again.
ReturnsStayCurrent ==
    [][\A d \in HistoryDays :
          ReturnIsCurrent(d) => ReturnIsCurrent(d)' \/ FirstAfter(DOMAIN sync.records, d)]_navVars

\* Once the prices of a window are stored, every price in it that has a NAV of its
\* day has its premium over that NAV, whether or not the NAVs could be synced.
PremiumsAreCurrent ==
    (sync.phase = "done" /\ sync.daily /\ "MARKET_PRICE_SYNC_FAILED" \notin navIssues) =>
        \A d \in sync.window :
            (priceRows[d] # None /\ navRows[d] # None) => priceRows[d].nav = navRows[d].nav
=============================================================================
