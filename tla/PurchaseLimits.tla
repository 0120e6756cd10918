---------------------------- MODULE PurchaseLimits ----------------------------
(***************************************************************************)
(* The daily snapshot of purchase limits: what the manager's newest notice *)
(* says of each share of a fund, what one distributor's page says of each  *)
(* share, how both are stored side by side per day, audited, and shown.    *)
(*                                                                         *)
(* A notice and a page are records of what the parsers look for in their   *)
(* text.  An amount has a currency; the unit words are part of it.         *)
(***************************************************************************)
EXTENDS SqlNull, Integers, Sequences, FiniteSets, FiniteSetsExt

CONSTANTS
    LimitShares,    \* share code |-> [fund, currency, exchange]
    NoticeLists,    \* what the fund page may list: sequences of notices, newest first
    Pages,          \* what the distributor's page may say: [status, cap, amount]
    LimitDays,      \* Shanghai days
    Raises          \* what a parser answers that raises

\* Without a share a sync asks nobody and audits nothing.
ASSUME LimitAssumption ==
    /\ IsFiniteSet(LimitDays) /\ LimitDays # {} /\ LimitDays = 1..Cardinality(LimitDays)
    /\ DOMAIN LimitShares # {}
    /\ \A s \in DOMAIN LimitShares :
          /\ s \in Nat /\ LimitShares[s].fund \in Nat /\ LimitShares[s].exchange \in BOOLEAN
          /\ LimitShares[s].currency \in {"CNY", "USD", "HKD"}

VARIABLES
    limitRows,    \* DailyPurchaseLimit: a set of records with their day, share and provider
    limitIssues,  \* share |-> its open issues
    limitRun,     \* the sync: [phase, left, failed, shares]: what is left to do in
                  \*   this phase, the shares that failed, and all it covers
    limitDay,     \* today in Shanghai
    limitAudited  \* history: the shares audited since a sync of them last began

limitVars == <<limitRows, limitIssues, limitRun, limitDay, limitAudited>>

Shares == DOMAIN LimitShares
LimitFunds == {LimitShares[s].fund : s \in Shares}
SharesOfFund(f) == {s \in Shares : LimitShares[s].fund = f}
CurrencyOf(s) == LimitShares[s].currency

\* Funds and shares are taken in the order of their codes.
NextInOrder == Min(limitRun.left)

-----------------------------------------------------------------------------
(* The distributor's page: one record.                                      *)

LimitRecord(s, channel, key, business, availability, cap, amount, scope) ==
    [share |-> s, channel |-> channel, key |-> key, business |-> business,
     availability |-> availability, cap |-> cap, amount |-> amount, scope |-> scope]

Availability(status) ==
    CASE status \in {"limited", "open"} -> "OPEN"
      [] status \in {"paused", "closed"} -> "PAUSED"
      [] status \in {"exchange", "unsupported"} -> "NOT_SOLD"
      [] status = "blank" -> "UNKNOWN"

\* cap is "stated", "zero", "unlimited" or "absent"; a status in other words raises.
\* An open fund with a cap of zero contradicts itself: neither is believed.
PageRecords(s, page) ==
    LET availability == IF page.cap = "zero" /\ Availability(page.status) = "OPEN"
                        THEN "UNKNOWN" ELSE Availability(page.status)
        cap == CASE page.cap = "stated" -> "LIMITED"
                 [] page.cap = "unlimited" -> "UNLIMITED"
                 [] OTHER -> "UNKNOWN"
    IN IF page.status = "other" THEN Raises
       ELSE {LimitRecord(s, "DISTRIBUTION", "EASTMONEY_TIANTIAN", "PURCHASE", availability, cap,
                         IF cap = "LIMITED" THEN page.amount ELSE None, "PER_SHARE")}

-----------------------------------------------------------------------------
(* The notice.  Its table: the codes over its columns, the currencies under *)
(* them if they are given, and for a business the rows of amounts found;    *)
(* a row with as many amounts as there are codes is preferred, then the one *)
(* with the most amounts, then the first.                                   *)

SelectedSlots(table, business) ==
    LET options == table.options[business]
        stated(i) == Cardinality({k \in DOMAIN options[i] : options[i][k].value # None})
        exact(i) == Len(options[i]) = Len(table.codes)
        better(i, j) == \/ exact(i) /\ ~ exact(j)
                        \/ exact(i) = exact(j) /\ stated(i) > stated(j)
        best == Min({i \in DOMAIN options : \A j \in DOMAIN options : ~ better(j, i)})
    IN IF Len(options[best]) = 1
       THEN [k \in DOMAIN table.codes |-> options[best][1]]
       ELSE options[best]

\* The currency of a slot: its own, or that of its column, or the share's where the
\* text says so, or that of its row's label, or the share's.
SlotCurrency(table, k, slot) ==
    IF slot.own # None THEN slot.own
    ELSE IF table.units # <<>> THEN table.units[k]
    ELSE IF table.followsShare \/ slot.label = None THEN CurrencyOf(table.codes[k])
    ELSE slot.label

CurrencyAgrees(s, currency) == currency = CurrencyOf(s)

\* What the table says of one business: share |-> amount, or Raises.
TableLimits(table, business, requested) ==
    LET slots == SelectedSlots(table, business)
        used == {k \in DOMAIN table.codes : table.codes[k] \in requested /\ slots[k].value # None}
        amount(k) == [value |-> slots[k].value, currency |-> SlotCurrency(table, k, slots[k])]
    IN IF table.codes = <<>> \/ business \notin DOMAIN table.options THEN [s \in {} |-> None]
       ELSE IF Len(slots) # Len(table.codes)
               \/ \E k \in used : ~ CurrencyAgrees(table.codes[k], amount(k).currency)
       THEN Raises
       ELSE [s \in {table.codes[k] : k \in used} |->
                amount(CHOOSE k \in used : table.codes[k] = s)]

\* What the text says of a channel: currency |-> value; two values raise.
StatedIn(texts) ==
    IF \E a, b \in texts : a.currency = b.currency /\ a.value # b.value THEN Raises
    ELSE [c \in {a.currency : a \in texts} |-> CHOOSE a \in texts : a.currency = c]

Lookup(function, key) == IF key \in DOMAIN function THEN function[key] ELSE None

Restored(notice, day) ==
    notice.restores /\ (notice.restoration = None \/ notice.restoration <= day)

OfficialRecord(s, channel, key, business, amount, restored, notice, notApplicable) ==
    LET scope == IF notice.combinedScope THEN "ALL_SHARES_COMBINED" ELSE "PER_SHARE"
    IN IF notApplicable
       THEN LimitRecord(s, channel, key, business, "NOT_APPLICABLE", "UNKNOWN", None, scope)
       ELSE LimitRecord(s, channel, key, business,
                        IF notice.pause THEN "PAUSED"
                        ELSE IF amount # None \/ restored THEN "OPEN" ELSE "UNKNOWN",
                        IF amount # None THEN "LIMITED"
                        ELSE IF restored THEN "UNLIMITED" ELSE "UNKNOWN",
                        amount, scope)

UnknownDirectRecord(s) ==
    LimitRecord(s, "DIRECT", "DIRECT", "PURCHASE",
                IF LimitShares[s].exchange THEN "NOT_APPLICABLE" ELSE "UNKNOWN",
                "UNKNOWN", None, "UNKNOWN")

\* The businesses a notice speaks of.
Businesses(notice) ==
    {"PURCHASE"} \cup notice.mentions
        \cup (IF notice.table.codes = <<>> THEN {} ELSE DOMAIN notice.table.options)

\* What it says of all channels; without a word of a channel, what it says at all.
AllChannels(notice) ==
    StatedIn(IF notice.combined = {} /\ notice.direct = {} /\ notice.distribution = {}
             THEN notice.general ELSE notice.combined)

\* The amounts for the manager's own sales and for those of all others.
DirectAmount(notice, table, s, day) ==
    LET stated == Lookup(StatedIn(notice.direct), CurrencyOf(s))
    IN IF Restored(notice, day) THEN None
       ELSE IF DOMAIN AllChannels(notice) # {} THEN Lookup(AllChannels(notice), CurrencyOf(s))
       ELSE IF stated # None THEN stated ELSE Lookup(table, s)

OthersAmount(notice, table, s, day) ==
    LET stated == Lookup(StatedIn(notice.distribution), CurrencyOf(s))
    IN IF Restored(notice, day) THEN None
       ELSE IF DOMAIN AllChannels(notice) # {} THEN Lookup(AllChannels(notice), CurrencyOf(s))
       ELSE IF stated = None /\ ~ notice.directOnly THEN Lookup(table, s) ELSE stated

BusinessRecords(notice, table, s, b, day) ==
    LET direct == DirectAmount(notice, table, s, day)
        others == OthersAmount(notice, table, s, day)
        restored == Restored(notice, day)
    IN {OfficialRecord(s, "DIRECT", "DIRECT", b, direct, restored, notice, LimitShares[s].exchange)}
       \cup (IF \/ others # None \/ DOMAIN AllChannels(notice) # {}
                \/ restored /\ ~ notice.directOnly
             THEN {OfficialRecord(s, "DISTRIBUTION", "ALL_DISTRIBUTORS", b, others, restored,
                                  notice, FALSE)}
             ELSE {})

\* _parse_csrc_notice: the records of all requested shares, or Raises.
NoticeRecords(notice, requested, day) ==
    LET table(b) == TableLimits(notice.table, b, requested)
        named == notice.named \cap requested
        applicable == IF named = {} THEN requested ELSE named
    IN IF \/ Raises \in {AllChannels(notice), StatedIn(notice.direct), StatedIn(notice.distribution)}
          \/ \E b \in Businesses(notice) : table(b) = Raises
       THEN Raises
       ELSE (UNION {BusinessRecords(notice, table(b), s, b, day) :
                       s \in applicable, b \in Businesses(notice)})
               \cup {UnknownDirectRecord(s) : s \in requested \ applicable}

\* The newest of at most eight notices that is in force, or None.
InForce(list, day) ==
    LET inForce == {i \in DOMAIN list : i <= 8 /\ (list[i].effective = None \/ list[i].effective <= day)}
    IN IF inForce = {} THEN None ELSE list[Min(inForce)]

DirectRecords(list, requested, day) ==
    IF InForce(list, day) = None THEN {UnknownDirectRecord(s) : s \in requested}
    ELSE NoticeRecords(InForce(list, day), requested, day)

-----------------------------------------------------------------------------
(* sync_purchase_limits.                                                    *)

NoSync == [phase |-> "idle", left |-> {}, failed |-> {}, shares |-> {}]

LimitInit ==
    /\ limitRows = {} /\ limitIssues = [s \in Shares |-> {}]
    /\ limitRun = NoSync
    /\ limitDay = 1 /\ limitAudited = {}

\* Of the selected funds, those asked for; an operation may name some of them only.
StartLimits(codes) ==
    /\ limitRun.phase \in {"idle", "done"}
    /\ LET shares == UNION {SharesOfFund(f) : f \in codes}
       IN /\ limitRun' = [phase |-> "direct", left |-> codes, failed |-> {}, shares |-> shares]
          /\ limitAudited' = limitAudited \ shares
    /\ UNCHANGED <<limitRows, limitIssues, limitDay>>

\* The next of the phase, or the next phase.
Advance(failedNow) ==
    LET rest == limitRun.left \ {NextInOrder}
        next == IF limitRun.phase = "direct" THEN "distribution" ELSE "audit"
    IN limitRun' = [limitRun EXCEPT
            !.failed = @ \cup failedNow,
            !.phase = IF rest # {} THEN @ ELSE IF @ = "audit" THEN "done" ELSE next,
            !.left = IF rest # {} \/ limitRun.phase = "audit" THEN rest ELSE limitRun.shares]

\* Faulty variant: a row whose key the new answer lacks stays.
Replaced_Kept(provider, records) ==
    {row \in limitRows :
        /\ row.provider = provider /\ row.day = limitDay
        /\ \E r \in records : /\ r.share = row.share /\ r.channel = row.channel
                              /\ r.key = row.key /\ r.business = row.business /\ r.scope = row.scope}

\* The rows an answer replaces: those of its shares, its provider and today.
Replaced(provider, records) ==
    {row \in limitRows : /\ row.provider = provider /\ row.day = limitDay
                         /\ row.share \in {r.share : r \in records}}

StoreSnapshot(provider, records) ==
    limitRows' = (limitRows \ Replaced(provider, records)) \cup
        {[share |-> r.share, channel |-> r.channel, key |-> r.key, business |-> r.business,
          availability |-> r.availability, cap |-> r.cap, amount |-> r.amount, scope |-> r.scope,
          provider |-> provider, day |-> limitDay] : r \in records}

\* One fund at the manager: its shares' rows, or a failure of each of its shares.
DirectFund(list) ==
    LET fund == NextInOrder
        records == DirectRecords(list, SharesOfFund(fund), limitDay)
    IN /\ limitRun.phase = "direct"
       /\ IF records = Raises THEN Advance(SharesOfFund(fund)) /\ UNCHANGED limitRows
          ELSE StoreSnapshot("CSRC", records) /\ Advance({})
       /\ UNCHANGED <<limitIssues, limitDay, limitAudited>>

\* One share at the distributor.
DistributionShare(page) ==
    LET s == NextInOrder
        records == PageRecords(s, page)
    IN /\ limitRun.phase = "distribution"
       /\ IF records = Raises THEN Advance({s}) /\ UNCHANGED limitRows
          ELSE StoreSnapshot("EASTMONEY", records) /\ Advance({})
       /\ UNCHANGED <<limitIssues, limitDay, limitAudited>>

\* The request fails.
LimitRequestFails ==
    /\ limitRun.phase \in {"direct", "distribution"}
    /\ Advance(IF limitRun.phase = "direct" THEN SharesOfFund(NextInOrder) ELSE {NextInOrder})
    /\ UNCHANGED <<limitRows, limitIssues, limitDay, limitAudited>>

\* The process dies; what it has committed stays.
LimitSyncDies ==
    /\ limitRun.phase \in {"direct", "distribution", "audit"}
    /\ limitRun' = NoSync
    /\ UNCHANGED <<limitRows, limitIssues, limitDay, limitAudited>>

NewestDay(rows) == IF rows = {} THEN None ELSE Max({row.day : row \in rows})

OwnDay(s) == NewestDay({row \in limitRows : row.share = s})

\* Faulty variant: a share is audited on its own newest day.
AuditDay_Own(s) == OwnDay(s)

\* The newest day of any share of the sync.
AuditDay(s) == NewestDay({row \in limitRows : row.share \in limitRun.shares})

Unclear(row) ==
    \/ row.availability = "UNKNOWN"
    \/ row.cap = "UNKNOWN" /\ row.availability \notin {"PAUSED", "NOT_SOLD", "NOT_APPLICABLE"}

\* The issues of a share are recorded or resolved, each by what is stored now.
AuditShare ==
    /\ limitRun.phase = "audit"
    /\ LET s == NextInOrder
           rows == {row \in limitRows :
                       row.share = s /\ row.day = AuditDay(s) /\ row.business = "PURCHASE"}
           incomplete == \/ {row.channel : row \in rows} # {"DIRECT", "DISTRIBUTION"}
                         \/ \E row \in rows : Unclear(row)
           ambiguous == \E row \in rows : row.cap = "LIMITED" /\ row.scope = "UNKNOWN"
       IN limitIssues' = [limitIssues EXCEPT ![s] =
              (IF s \in limitRun.failed THEN {"SALES_LIMIT_SYNC_FAILED"} ELSE {})
              \cup (IF incomplete THEN {"SALES_LIMIT_COVERAGE_INCOMPLETE"} ELSE {})
              \cup (IF ambiguous THEN {"SALES_LIMIT_CHANNEL_SCOPE_AMBIGUOUS"} ELSE {})]
    /\ limitAudited' = limitAudited \cup {NextInOrder}
    /\ Advance({})
    /\ UNCHANGED <<limitRows, limitDay>>

Midnight ==
    /\ limitDay + 1 \in LimitDays
    /\ limitDay' = limitDay + 1
    /\ UNCHANGED <<limitRows, limitIssues, limitRun, limitAudited>>

LimitNext ==
    \/ \E codes \in (SUBSET LimitFunds) \ {{}} : StartLimits(codes)
    \/ AuditShare \/ LimitRequestFails \/ LimitSyncDies \/ Midnight
    \/ \E list \in NoticeLists : DirectFund(list)
    \/ \E page \in Pages : DistributionShare(page)

LimitSpec == LimitInit /\ [][LimitNext]_limitVars

-----------------------------------------------------------------------------
(* What is shown.                                                           *)

\* get_purchase_limits: the newest day of a share, of the channel if one is asked for.
ShownLimits(s, channels) ==
    LET rows == {row \in limitRows : row.share = s /\ row.channel \in channels}
    IN {row \in rows : row.day = NewestDay(rows)}

\* The list of funds: per channel one row of the share's newest day; a statement about
\* all distributors before that of one, a known cap before an unknown one.
ListedLimit(s, channel) ==
    LET purchase == {row \in limitRows : row.share = s /\ row.business = "PURCHASE"}
        rows == {row \in purchase : row.day = NewestDay(purchase) /\ row.channel = channel}
        rank(row) == (CASE row.key = "ALL_DISTRIBUTORS" -> 0
                        [] row.key = "EASTMONEY_TIANTIAN" -> 4 [] OTHER -> 8)
                     + (IF row.cap = "UNKNOWN" THEN 2 ELSE 0)
                     + (IF row.availability = "UNKNOWN" THEN 1 ELSE 0)
    IN IF rows = {} THEN None
       ELSE CHOOSE row \in rows : \A other \in rows : rank(row) <= rank(other)

\* get_purchase_limit_coverage: the shares with a row on the newest day of all.
CoveredShares == {row.share : row \in {r \in limitRows : r.day = NewestDay(limitRows)}}

-----------------------------------------------------------------------------

RecordOf(row) ==
    LimitRecord(row.share, row.channel, row.key, row.business,
                row.availability, row.cap, row.amount, row.scope)

\* What is stored of a fund and a day from the manager.
StatedOf(fund, day) ==
    {RecordOf(row) : row \in {r \in limitRows :
        r.day = day /\ r.provider = "CSRC" /\ r.share \in SharesOfFund(fund)}}

CapIsStated(row) ==
    /\ row.cap = "LIMITED" => row.amount.currency = CurrencyOf(row.share)
    /\ row.cap = "UNLIMITED" =>
          \E list \in NoticeLists :
              InForce(list, row.day) # None /\ Restored(InForce(list, row.day), row.day)

\* No cap is made up and none is lifted: a stored cap is in the currency of its share
\* where the manager states it, UNLIMITED is stored only of a day on which the source
\* says so of that day; and what the manager says of a share
\* and a business on a day is one statement, not what two notices said.
CapsAreStated ==
    /\ \A row \in limitRows : row.provider = "CSRC" => CapIsStated(row)
    /\ \A day \in LimitDays, fund \in LimitFunds :
          StatedOf(fund, day) # {} =>
              \E list \in NoticeLists :
                  StatedOf(fund, day) = DirectRecords(list, SharesOfFund(fund), day)

\* What the list of funds shows of a share and channel is known, of the newest day
\* that is stored of the share, and on the page of its limits too.
ListedWhole(s, channel) ==
    LET row == ListedLimit(s, channel)
    IN /\ row \in ShownLimits(s, {channel})
       /\ row.day = OwnDay(s) /\ ~ Unclear(row)

\* What the audit was silent about is shown whole: the list has both channels, of one
\* and the share's newest day, until the next sync of the share begins, whatever
\* syncs of other funds, deaths and midnights come between.  And when a sync ends,
\* each of its shares it is silent about counts as covered by the newest snapshot of
\* all, even if midnight passed on the way.
QuietMeansCovered ==
    /\ \A s \in limitAudited : limitIssues[s] = {} =>
          \A channel \in {"DIRECT", "DISTRIBUTION"} : ListedWhole(s, channel)
    /\ limitRun.phase = "done" =>
          \A s \in limitRun.shares : limitIssues[s] = {} => s \in CoveredShares
=============================================================================
