-------------------------- MODULE PortfolioValuation --------------------------
(***************************************************************************)
(* What GET /portfolio makes of the stored rows: per position an estimate  *)
(* from the platform's snapshot, the NAVs stored since and the recurring   *)
(* orders settled since; per currency a sum; and one sum in CNY.           *)
(*                                                                         *)
(* The state is the rows it reads.  NAVs arrive in any order and may be    *)
(* revised, orders are placed and settle, the rate arrives: the answer is  *)
(* a function of the state.                                                *)
(*                                                                         *)
(* Amounts are integers in parts of a cent, Cent parts make one; NAVs are  *)
(* such that a number of units times a NAV is an amount.  Where the code   *)
(* divides without rounding, the instance has values for which the         *)
(* quotient is an integer.                                                 *)
(***************************************************************************)
EXTENDS SqlNull, Integers, FiniteSets, FiniteSetsExt, Functions

CONSTANTS
    Cent,          \* parts of a cent; even, so that there is a half to round
    Days,          \* the days for which NAVs may be stored
    NavValues,     \* unit NAVs
    RateDays,      \* the days of which the reference rate may be stored
    Quotes,        \* what may be published: [cny, usd] per euro
    Portfolio      \* the imported positions: id |-> the row

ASSUME ValuationAssumption ==
    /\ None \notin Int
    /\ Cent \in Nat \ {0} /\ Cent % 2 = 0
    /\ IsFiniteSet(Days) /\ IsFiniteSet(RateDays) /\ IsFiniteSet(DOMAIN Portfolio)
    /\ Days \cup RateDays \subseteq Nat /\ NavValues \subseteq Nat \ {0}
    /\ \A quote \in Quotes : quote.cny \in Nat \ {0} /\ quote.usd \in Nat \ {0}

\* The snapshot's amounts are whole cents, what a plan spends need not be.
ASSUME PortfolioAssumption ==
    \A p \in DOMAIN Portfolio :
       LET position == Portfolio[p]
       IN /\ position.currency \in {"CNY", "USD", "HKD"}
          /\ position.units \in Nat \ {0} /\ position.market \in Nat \ {0} /\ position.profit \in Int
          /\ position.market % Cent = 0 /\ position.profit % Cent = 0
          /\ position.anchorDay \in Days /\ position.anchorNav \in Nat \ {0}
          /\ position.plan # None => position.plan.gross \in Nat \ {0} /\ position.plan.net \in Nat

VARIABLES
    navs,        \* per position: day |-> NAV of its share, None where no row is stored
    pending,     \* per position: the days of its pending orders
    executions,  \* per position: day |-> what was bought at that day's NAV, or None
    rates        \* DailyExchangeRate: day |-> rate, or None

valuationVars == <<navs, pending, executions, rates>>

Positions == DOMAIN Portfolio

-----------------------------------------------------------------------------
(* Rounding.                                                                *)

\* n / d rounded to an integer, halves away from zero; d > 0.
RoundHalfUp(n, d) ==
    IF n >= 0 THEN (2 * n + d) \div (2 * d) ELSE -((d - 2 * n) \div (2 * d))

Money(value) == Cent * RoundHalfUp(value, Cent)

RatioPct(numerator, denominator) ==
    IF denominator <= 0 THEN None ELSE RoundHalfUp(100 * numerator, denominator)

-----------------------------------------------------------------------------
(* One position.  Its NAVs and executions are parameters: what the answer   *)
(* was a day ago is a question about fewer rows.                            *)

Stored(row) == {d \in DOMAIN row : row[d] # None}

\* Where the reported return is not 0 the platform's own cost basis follows from
\* it; otherwise, or where that is not positive, it is value less profit.
SnapshotCostBasis(position) ==
    LET ordinary == position.market - position.profit
        platform == IF position.return = 0 THEN None
                    ELSE (position.profit * 100) \div position.return
    IN IF platform # None /\ platform > 0 THEN platform
       ELSE IF ordinary > 0 THEN ordinary
       ELSE None

\* Faulty variant: what was bought on the newest day earns that day's change.
DailyUnits_SameDay(position, bought, day) ==
    position.units + SumFunction([d \in {d \in Stored(bought) : d <= day} |-> bought[d].units])

\* The units that were held over the change of the newest day.
DailyUnits(position, bought, day) ==
    position.units + SumFunction([d \in {d \in Stored(bought) : d < day} |-> bought[d].units])

\* The reported value carried on by the change of the NAV since.
Market(position, baseChange, recurringMarket, nav) ==
    Money(position.market + baseChange + recurringMarket)

Valuation(position, navOf, bought) ==
    LET stored == Stored(navOf)
        latest == IF stored = {} THEN None ELSE Max(stored)
        day == IF latest = None THEN position.anchorDay ELSE latest
        nav == IF latest = None THEN position.anchorNav ELSE navOf[latest]
        earlier == stored \ {latest}
        baseChange == Money(position.units * (nav - position.anchorNav))
        recurringMarket == Money(nav * SumFunction([d \in Stored(bought) |-> bought[d].units]))
        invested == SumFunction([d \in Stored(bought) |-> bought[d].gross])
        profit == Money(Money(position.profit + baseChange) + Money(recurringMarket - invested))
        snapshotCost == SnapshotCostBasis(position)
        cost == IF snapshotCost = None THEN None ELSE snapshotCost + invested
        market == Market(position, baseChange, recurringMarket, nav)
    IN [day    |-> day,
        market |-> market,
        change |-> market - position.market,
        profit |-> profit,
        return |-> IF (baseChange = 0 /\ invested = 0) \/ cost = None \/ cost <= 0
                   THEN position.return
                   ELSE RoundHalfUp(100 * profit, cost),
        cost   |-> cost,
        daily  |-> IF earlier = {} THEN None
                   ELSE Money(DailyUnits(position, bought, day) * (nav - navOf[Max(earlier)]))]

-----------------------------------------------------------------------------
(* The sums.                                                                *)

Row(p) == Valuation(Portfolio[p], navs[p], executions[p])

Rows == {[id |-> p, currency |-> Portfolio[p].currency, valued |-> Row(p)] : p \in Positions}

Costed(rows) == {row \in rows : row.valued.cost # None}
Dated(rows) == {row \in rows : row.valued.daily # None}

\* The rows of one currency; the return needs every cost basis, the daily return
\* every daily profit, but the daily profit is shown as soon as one row has it.
CurrencySummary(rows) ==
    LET market == SumFunction([row \in rows |-> row.valued.market])
        profit == SumFunction([row \in rows |-> row.valued.profit])
        daily == SumFunction([row \in Dated(rows) |-> row.valued.daily])
    IN [market  |-> market,
        profit  |-> profit,
        return  |-> IF Costed(rows) # rows THEN None
                    ELSE RatioPct(profit, SumFunction([row \in rows |-> row.valued.cost])),
        daily   |-> IF Dated(rows) = {} THEN None ELSE daily,
        dailyReturn |-> IF Dated(rows) # rows THEN None ELSE RatioPct(daily, market - daily),
        pending |-> SumFunction([row \in {row \in rows : pending[row.id] # {}} |->
                          Portfolio[row.id].plan.gross * Cardinality(pending[row.id])])]

\* The rate of the newest day, however old, and whichever was stored last.
LatestRate(row) == IF Stored(row) = {} THEN None ELSE row[Max(Stored(row))]

\* In halves, like the rate; None where the currency cannot be converted.
ConversionRate(currency) ==
    CASE currency = "CNY" -> 2
      [] currency = "USD" -> LatestRate(rates)
      [] OTHER -> None

AtRate(row, value) == (value * ConversionRate(row.currency)) \div 2
Converted(row, value) == Money(AtRate(row, value))

\* Faulty variant: a row without a daily profit counts as 0.
ConvertedDaily_Partial(rows) ==
    SumFunction([row \in Dated(rows) |-> Converted(row, row.valued.daily)])

ConvertedDaily(rows) ==
    IF Dated(rows) # rows THEN None
    ELSE SumFunction([row \in rows |-> Converted(row, row.valued.daily)])

\* One row that cannot be converted, and there is no sum in CNY; one without a
\* daily profit or cost basis, and that part of it is left out.
ConvertedSummary(rows) ==
    LET market == SumFunction([row \in rows |-> Converted(row, row.valued.market)])
        profit == SumFunction([row \in rows |-> Converted(row, row.valued.profit)])
        cost == SumFunction([row \in rows |-> AtRate(row, row.valued.cost)])
        daily == ConvertedDaily(rows)
    IN IF \E row \in rows : ConversionRate(row.currency) = None THEN None
       ELSE [market |-> market, profit |-> profit, daily |-> daily,
             return |-> IF Costed(rows) # rows THEN None ELSE RatioPct(profit, cost),
             dailyReturn |-> IF daily = None THEN None ELSE RatioPct(daily, market - daily)]

-----------------------------------------------------------------------------
(* The rows change.                                                         *)

\* The portfolio has just been imported: each share has its anchor NAV.
ValuationInit ==
    /\ navs = [p \in Positions |->
                 [d \in Days |-> IF d = Portfolio[p].anchorDay THEN Portfolio[p].anchorNav
                                 ELSE None]]
    /\ pending = [p \in Positions |-> {}]
    /\ executions = [p \in Positions |-> [d \in Days |-> None]]
    /\ rates = [d \in RateDays |-> None]

\* A NAV is stored or revised.
StoreNav(p, d, value) ==
    /\ navs' = [navs EXCEPT ![p][d] = value]
    /\ UNCHANGED <<pending, executions, rates>>

\* ensure_recurring_orders: after the snapshot, one a day.
PlaceOrder(p, d) ==
    /\ d > Portfolio[p].anchorDay /\ d \notin pending[p] /\ executions[p][d] = None
    /\ Portfolio[p].plan # None
    /\ pending' = [pending EXCEPT ![p] = @ \cup {d}]
    /\ UNCHANGED <<navs, executions, rates>>

\* settle_recurring_plans: once the NAV of the order's day is stored, at that NAV.
SettleOrder(p, d) ==
    /\ d \in pending[p] /\ navs[p][d] # None
    /\ pending' = [pending EXCEPT ![p] = @ \ {d}]
    /\ executions' = [executions EXCEPT ![p][d] =
                         [gross |-> Portfolio[p].plan.gross,
                          units |-> RoundHalfUp(Portfolio[p].plan.net, navs[p][d])]]
    /\ UNCHANGED <<navs, rates>>

\* The rate of the day the central bank names; CNY per EUR over USD per EUR, for both
\* are published against the euro.
StoreRate(d, cnyPerEur, usdPerEur) ==
    /\ rates' = [rates EXCEPT ![d] = (2 * cnyPerEur) \div usdPerEur]
    /\ UNCHANGED <<navs, pending, executions>>

ValuationNext ==
    \/ \E p \in Positions, d \in Days :
          \/ \E value \in NavValues : StoreNav(p, d, value)
          \/ PlaceOrder(p, d)
          \/ SettleOrder(p, d)
    \/ \E d \in RateDays, quote \in Quotes : StoreRate(d, quote.cny, quote.usd)

ValuationSpec == ValuationInit /\ [][ValuationNext]_valuationVars

-----------------------------------------------------------------------------

\* The daily profit shown for a position is the profit shown now less the profit
\* that was shown from the rows of the days before, up to the fees of what was
\* bought on the newest day and the rounding of five amounts, or of seven if those are
\* no whole cents; before the first NAV after the snapshot the estimate is the snapshot.
DailyProfitIsTheDaysChange ==
    \A p \in Positions :
        LET position == Portfolio[p]
            now == Row(p)
            before(row) == [d \in {d \in Days : d < now.day} |-> row[d]]
            then == Valuation(position, before(navs[p]), before(executions[p]))
            fees == IF executions[p][now.day] = None THEN 0
                    ELSE executions[p][now.day].gross
                              - executions[p][now.day].units * navs[p][now.day]
            roundings == IF position.plan = None THEN 5
                         ELSE IF position.plan.gross % Cent = 0 THEN 5 ELSE 7
            error == (now.profit - then.profit) - (now.daily - fees)
        IN IF now.day > position.anchorDay
           THEN 2 * error \in -(roundings * Cent)..(roundings * Cent)
           ELSE navs[p][now.day] = position.anchorNav =>
                    /\ now.market = position.market /\ now.profit = position.profit
                    /\ now.return = position.return

\* A sum in CNY holds every position, and its daily profit every position's: it is
\* the currencies' sums at their rates, up to the rounding of each position; and a
\* daily return is never shown for a part of a currency, nor is one left out that has
\* all its parts and something it was earned from.
SumsHideNothing ==
    LET rows == Rows
        sum == ConvertedSummary(rows)
        sums == {[currency |-> c, of |-> CurrencySummary({row \in rows : row.currency = c})]
                    : c \in {row.currency : row \in rows}}
        margin == Cardinality(rows) * (Cent + 1)
        Adds(field) ==
            2 * sum[field] - SumFunction([s \in sums |-> s.of[field] * ConversionRate(s.currency)])
                \in -margin..margin
    IN /\ sum # None =>
             /\ Adds("market") /\ Adds("profit")
             /\ sum.daily # None =>
                   /\ \A s \in sums : /\ s.of.daily # None
                                      /\ s.of.dailyReturn # None \/ s.of.market <= s.of.daily
                   /\ Adds("daily")
       /\ \A s \in sums :
             s.of.dailyReturn # None =>
                 \A p \in Positions :
                    Portfolio[p].currency = s.currency => Cardinality(Stored(navs[p])) > 1
=============================================================================
