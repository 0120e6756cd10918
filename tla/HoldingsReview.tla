---------------------------- MODULE HoldingsReview ----------------------------
(***************************************************************************)
(* q2_analysis: the daily return of each active fund of the portfolio as   *)
(* its reported holdings predict it, how far the NAV is from that, and one *)
(* prediction for the whole portfolio.                                     *)
(*                                                                         *)
(* The state is what a request reads: the price series of the provider,    *)
(* the stored NAVs, the reference rates.  They come late and in any order. *)
(* A request reads them all at once.                                       *)
(*                                                                         *)
(* Prices are logarithms: a return is a difference of two levels and       *)
(* compounding is a sum.  Weights are percentages, and predictions and     *)
(* what is compared with them are in parts of 1/200 percent.               *)
(***************************************************************************)
EXTENDS SqlNull, Integers, FiniteSets, FiniteSetsExt, Functions

CONSTANTS
    Calendar,        \* the days, numbered
    Weekend,         \* those on which nothing is valued
    StartDate,       \* ANALYSIS_START_DATE
    Level,           \* series |-> day |-> the level it closes at; "fx" is CNY per USD
    NavsPublished,   \* share |-> day |-> [nav, actual], what will be stored of it
    ReferenceDays,   \* the days of which a reference rate may be stored, at 2 CNY
    Funds,           \* fund |-> the contract and its newest report
    ShareOfFund,     \* share |-> [fund, currency]
    Holdings,        \* share |-> the active position in it: [units, snapshot, ...]
    Rules,           \* the consistency rules
    RecentResiduals, EnoughResiduals  \* 10 and 3

ASSUME ReviewAssumption ==
    /\ None \notin Int
    /\ Calendar \subseteq Nat /\ Weekend \subseteq Calendar /\ StartDate \in Calendar
    /\ \E d, e \in Calendar \ Weekend : d < e /\ e <= StartDate
    /\ DOMAIN Holdings \subseteq DOMAIN ShareOfFund
    /\ \A f \in DOMAIN Funds : Funds[f].equity \in 0..100 /\ Funds[f].cash \in 0..100

\* What names a fund, a share or a series names one there is.
ASSUME NamesAssumption ==
    /\ "fx" \in DOMAIN Level
    /\ \A share \in DOMAIN ShareOfFund : ShareOfFund[share].fund \in DOMAIN Funds
    /\ \A f \in DOMAIN Funds :
          /\ \A h \in Funds[f].holdings : h.series \in DOMAIN Level \cup {None}
          /\ \A h \in Funds[f].proxies : h.series \in DOMAIN Level
          /\ \A h \in Funds[f].funds : h.share \in DOMAIN ShareOfFund \cup {None}

\* Numbers are numbers; a NAV and the units of a position are positive, a weight is
\* not negative (the CHECK constraints unit_nav_positive, reported_units_positive,
\* anchor_unit_nav_positive, nav_pct_nonnegative).
ASSUME AmountsAssumption ==
    /\ \A name \in DOMAIN Level : \A d \in DOMAIN Level[name] : Level[name][d] \in Int
    /\ \A share \in DOMAIN ShareOfFund : \A d \in DOMAIN NavsPublished[share] :
          /\ NavsPublished[share][d].nav \in Nat \ {0}
          /\ NavsPublished[share][d].actual \in Int \cup {None}
    /\ IsFiniteSet(DOMAIN Holdings)
    /\ \A share \in DOMAIN Holdings :
          Holdings[share].units \in Nat \ {0} /\ Holdings[share].anchorNav \in Nat \ {0}
    /\ \A f \in DOMAIN Funds :
          /\ IsFiniteSet(Funds[f].holdings \cup Funds[f].proxies \cup Funds[f].funds)
          /\ \A h \in Funds[f].holdings \cup Funds[f].proxies \cup Funds[f].funds :
                h.weight \in Nat

VARIABLES
    series,      \* per price series: the days it has a close for
    fundNavs,    \* per share: the days of its DailyFundNav rows
    references,  \* the days of the DailyExchangeRate rows
    day          \* as_of

reviewVars == <<series, fundNavs, references, day>>

Shares == DOMAIN ShareOfFund
FundOf(share) == Funds[ShareOfFund[share].fund]
\* f; TLC computes its values once.
Tabulated(f) == CHOOSE g \in {f} : g = f
Newest(days, n) == {d \in days : Cardinality({e \in days : e > d}) < n}

-----------------------------------------------------------------------------
(* Days and scope.                                                          *)

Valued == Calendar \ Weekend

\* None before the calendar begins.
LastOf(days) == IF days = {} THEN None ELSE Max(days)

LatestComparable(asOf) ==
    LET display == Max({d \in Valued : d <= asOf}) IN Max({d \in Valued : d < display})

NextWeekday(d) == Min({e \in Valued : e > d})

\* _eligible_target_query.
Eligible(fund) ==
    /\ fund.status = "parsed" /\ fund.published # None
    /\ fund.selected /\ fund.wrapper = "DIRECT" /\ fund.holdings # {}

AnalysisTargets == {share \in DOMAIN Holdings : Eligible(FundOf(share))}

-----------------------------------------------------------------------------
(* Alignment.  rows is [series, navs], what the request reads.              *)

ComparableNavs(rows, share, asOf) ==
    {d \in rows.navs[share] : StartDate <= d /\ d <= LatestComparable(asOf)}

\* The days a fund is analysed for; the newest comparable day has an estimate
\* also before its NAV is known.
AnalysisDates(rows, share, asOf) ==
    ComparableNavs(rows, share, asOf) \cup ({LatestComparable(asOf)} \cap (StartDate..asOf))

HasEstimate(rows, share, asOf) ==
    ComparableNavs(rows, share, asOf) # AnalysisDates(rows, share, asOf)

\* By default a NAV is of the session of its day; otherwise by the security's
\* market, and a session in America or London ends too late.
Lag(policy, market) ==
    IF \/ policy = "US_PREVIOUS_COMPLETED_SESSION"
       \/ policy = "MIXED_BY_SECURITY_MARKET" /\ market \in {"US", "UK"}
    THEN 1 ELSE 0

\* _MarketLoader: an empty series is a failed one.
Points(rows, name, asOf) == {d \in rows.series[name] : StartDate <= d /\ d <= asOf}

\* The newest close a day is valued at.
Selected(points, lag, d) == LastOf({p \in points : p <= d - lag})

\* The sessions whose closes a day's return lies between.
Span(points, earlier, to) ==
    [to |-> to,
     from |-> IF to = None THEN None
              ELSE IF earlier # {} THEN Max(earlier)
              ELSE LastOf({p \in points : p < to})]

Between(points, dates, lag, d) ==
    Span(points, {Selected(points, lag, e) : e \in {e \in dates : e < d}} \ {None},
         Selected(points, lag, d))

\* What a security of that currency returned between two sessions, in the
\* share's.  A session that was counted for an earlier day has no return, and
\* without a rate of both sessions there is none.
Return(name, between, rates, foreign) ==
    LET at(d) == Level[name][d] + (IF foreign THEN Level["fx"][d] ELSE 0)
    IN IF \/ None \in {between.from, between.to}
          \/ between.from = between.to
          \/ foreign /\ ~({between.from, between.to} \subseteq rates)
       THEN None
       ELSE at(between.to) - at(between.from)

Aligned(rows, share, asOf, item, d) ==
    Return(item.series,
           Between(Points(rows, item.series, asOf), AnalysisDates(rows, share, asOf),
                   Lag(FundOf(share).policy, item.market), d),
           Points(rows, "fx", asOf),
           item.currency # ShareOfFund[share].currency)

-----------------------------------------------------------------------------
(* predict_day.                                                             *)

Actual(share, known, d) == IF d \in known THEN NavsPublished[share][d].actual ELSE None

\* A resolved fund holding has the return of its representative share that day.
FundReturn(rows, asOf, holding, d) ==
    IF holding.share = None \/ d < StartDate \/ d > asOf THEN None
    ELSE Actual(holding.share, rows.navs[holding.share], d)

\* Every part of the fund that may be priced, with its return that day, if it has one.
Parts(rows, share, asOf, d) ==
    LET fund == FundOf(share)
        aligned(kind, items) == {[kind |-> kind, of |-> h, weight |-> h.weight,
                                  return |-> Aligned(rows, share, asOf, h, d)] : h \in items}
    IN aligned("holding", {h \in fund.holdings : h.series # None})
         \cup aligned("proxy", fund.proxies)
         \cup {[kind |-> "fund", of |-> h, weight |-> h.weight,
                return |-> FundReturn(rows, asOf, h, d)] : h \in fund.funds}

Weight(set) == SumFunction([h \in set |-> h.weight])

Priced(parts, kind) == {part \in parts : part.kind = kind /\ part.return # None}

\* What holdings the report does not disclose is spread over the proxies.
Undisclosed(fund) == Max({0, fund.equity - Weight(fund.holdings)})
Allocated(fund, priced) ==
    {[priced |-> p, weight |-> (Undisclosed(fund) * p.weight) \div 100, return |-> p.return] :
        p \in priced}

\* The parts that enter the prediction, the reported ones and the proxies.
Mean(parts) == IF Weight(parts) = 0 THEN None
               ELSE 2 * SumFunction([part \in parts |-> part.weight * part.return])

\* All but the interval, of a report whose weights add up: where the stated ones exceed
\* the equity or the whole by more than 0.05, predict_day raises and nothing is shown.
Estimate(fund, holdings, proxies, funds) ==
    [predicted |-> Mean(holdings \cup proxies \cup funds),
     explained |-> Min({100, Weight(holdings \cup proxies \cup funds) + fund.cash}),
     missing |-> 6 * (Weight(fund.holdings) - Weight(holdings)) + 3 * Weight(proxies)
                   + 8 * Max({0, Undisclosed(fund) - Weight(proxies)})
                   + 6 * (Weight(fund.funds) - Weight(funds))]

FromParts(fund, parts) ==
    Estimate(fund, Priced(parts, "holding"), Allocated(fund, Priced(parts, "proxy")),
             Priced(parts, "fund"))

Point(rows, share, asOf, d) ==
    LET estimate == FromParts(FundOf(share), Parts(rows, share, asOf, d))
    IN [actual |-> Actual(share, ComparableNavs(rows, share, asOf), d),
        mode |-> IF d < FundOf(share).published THEN "Q2_EX_POST" ELSE "Q2_LIVE",
        predicted |-> estimate.predicted, explained |-> estimate.explained,
        missing |-> estimate.missing]

Paired(points) == {d \in DOMAIN points : None \notin {points[d].actual, points[d].predicted}}
Residual(points, d) == 200 * points[d].actual - points[d].predicted
Magnitude(n) == IF n < 0 THEN -n ELSE n

\* Faulty variant: every residual that is known is a prior one.
PriorResiduals_All(points, d) == Newest(Paired(points) \ {d}, RecentResiduals)

\* The days whose residuals the interval of d is made from.
PriorResiduals(points, d) == Newest({e \in Paired(points) : e < d}, RecentResiduals)

\* Half the width of the interval around a prediction.
HalfWidth(points, d) ==
    LET recent == PriorResiduals(points, d)
        n == Cardinality(recent)
        error == SumFunction([e \in recent |-> Magnitude(Residual(points, e))])
    IN points[d].missing
         + (IF n < EnoughResiduals THEN 300 + 150 ELSE Max({error \div n, 100}))

WithIntervals(points) ==
    Tabulated([d \in DOMAIN points |->
        [point |-> points[d],
         width |-> IF points[d].predicted = None THEN None ELSE HalfWidth(points, d)]])

Predictions(rows, share, asOf) ==
    WithIntervals(Tabulated(
        [d \in AnalysisDates(rows, share, asOf) |-> Point(rows, share, asOf, d)]))

-----------------------------------------------------------------------------
(* evaluate_consistency, over the days that have a NAV.                     *)

\* How many of the newest days have residuals of one sign.
Streak(points) ==
    LET sign(d) == IF d \notin Paired(points) THEN 0
                   ELSE IF Residual(points, d) > 0 THEN 1
                   ELSE IF Residual(points, d) < 0 THEN -1 ELSE 0
        run(n) == \E s \in {1, -1} : \A d \in Newest(DOMAIN points, n) : sign(d) = s
    IN Max({0} \cup {n \in 1..Cardinality(DOMAIN points) : run(n)})

\* The correlation of actual and predicted returns is known and below the rule's.
Uncorrelated(points) ==
    LET days == Paired(points)
        n == Cardinality(days)
        x == [d \in days |-> points[d].actual]
        y == [d \in days |-> points[d].predicted]
        cov(u, v) == n * SumFunction([d \in days |-> u[d] * v[d]]) - SumFunction(u) * SumFunction(v)
        xx == cov(x, x)
        yy == cov(y, y)
        xy == cov(x, y)
    IN /\ n > 1 /\ xx > 0 /\ yy > 0
       /\ \/ xy < 0
          \/ 100 * (xy * xy) < (Rules.correlation * Rules.correlation) * (xx * yy)

Verdict(points) ==
    LET paired == Paired(points)
        n == Cardinality(paired)
        window == Rules.window
        Residuals(days) == SumFunction([d \in days |-> Residual(points, d)])
        errors == SumFunction([d \in Newest(paired, window) |-> Magnitude(Residual(points, d))])
        bias == Magnitude(Residuals(Newest(paired, window)))
        Wide(sum, limit) == n >= window /\ sum >= limit * window
        covered == Newest(DOMAIN points, window)
        changed ==
            \/ /\ Streak(points) >= Rules.streak
               /\ Wide(errors, Rules.likelyMae) \/ Wide(bias, Rules.likelyBias)
            \/ Magnitude(Residuals(paired)) >= Rules.cumulative /\ Uncorrelated(points)
        diverging == \/ Wide(errors, Rules.slightlyMae) \/ Wide(bias, Rules.slightlyBias)
                     \/ Uncorrelated(points)
    IN IF \/ n < Rules.minimum
          \/ SumFunction([d \in covered |-> points[d].explained]) < Rules.coverage * Cardinality(covered)
       THEN "INSUFFICIENT_DATA"
       ELSE IF n >= Rules.likelyMinimum /\ changed THEN "LIKELY_EXPOSURE_CHANGED"
       ELSE IF diverging THEN "SLIGHTLY_DIVERGING"
       ELSE "CONSISTENT"

\* The estimate of a day without NAV is no observation.
Consistency(rows, share, asOf) ==
    LET all == Predictions(rows, share, asOf)
        observed == IF HasEstimate(rows, share, asOf)
                    THEN DOMAIN all \ {LatestComparable(asOf)} ELSE DOMAIN all
    IN Verdict([d \in observed |-> all[d].point])

-----------------------------------------------------------------------------
(* The portfolio.  Values are in halves of a CNY.                           *)

Current(asOf) == {share \in DOMAIN Holdings : Holdings[share].snapshot <= asOf}

\* The newest NAV within the analysis, or the anchor if that is.
UnitNav(navs, share, asOf) ==
    LET stored == {d \in navs[share] : StartDate <= d /\ d <= asOf}
    IN IF stored # {} THEN NavsPublished[share][Max(stored)].nav
       ELSE IF Holdings[share].anchorDay >= StartDate THEN Holdings[share].anchorNav
       ELSE None

\* 2 is one CNY; the reference rate is always 2 CNY here.
UnitRate(currency, rates, asOf) ==
    IF currency = "CNY" THEN 2
    ELSE IF currency = "USD" /\ \E d \in rates : StartDate <= d /\ d <= asOf THEN 4
    ELSE None

PositionValue(navs, rates, share, asOf) ==
    LET nav == UnitNav(navs, share, asOf)
        rate == UnitRate(ShareOfFund[share].currency, rates, asOf)
    IN IF None \in {nav, rate} THEN None ELSE Holdings[share].units * (nav * rate)

\* One position without a value, and there are no weights.
ResultWeights(navs, rates, asOf) ==
    LET value == [share \in Current(asOf) |-> PositionValue(navs, rates, share, asOf)]
    IN IF DOMAIN value = {} \/ None \in Range(value) \/ SumFunction(value) = 0
       THEN [total |-> None, of |-> [share \in AnalysisTargets |-> 0]]
       ELSE [total |-> SumFunction(value),
             of |-> [share \in AnalysisTargets |-> IF share \in DOMAIN value THEN value[share] ELSE 0]]

\* Faulty variant: a fund that has no prediction is left out of the mean.
PortfolioComplete_Analysed(weights, predicted) == weights.total # None /\ predicted # {}

\* The shares that have a prediction make up the whole portfolio; exact here, where the
\* code's decimal fractions may be 1e-8 away from 1.
PortfolioComplete(weights, predicted) ==
    weights.total # None /\ SumFunction([s \in predicted |-> weights.of[s]]) = weights.total

\* result is per target its predictions; parts is the sum of weight times
\* prediction, to be divided by the total.
PortfolioPrediction(result, weights, asOf) ==
    LET newest == LatestComparable(asOf)
        predicted == {s \in AnalysisTargets : /\ weights.of[s] > 0 /\ newest \in DOMAIN result[s]
                                      /\ result[s][newest].point.predicted # None}
    IN IF PortfolioComplete(weights, predicted)
       THEN [shares |-> predicted,
             parts |-> SumFunction([s \in predicted |->
                             weights.of[s] * result[s][newest].point.predicted])]
       ELSE None

\* The days for which every share has a NAV's return and a prediction.
ComparisonDays(result, weighted) ==
    {d \in Calendar : \A s \in weighted :
        d \in DOMAIN result[s] /\ None \notin {result[s][d].point.actual,
                                               result[s][d].point.predicted}}

\* The row of a fund, all its shares together: a day to compare at and, to that
\* day, the sums over the days all have in common.
FundRow(result, weights, fund) ==
    LET weighted == {s \in AnalysisTargets : ShareOfFund[s].fund = fund /\ weights.of[s] > 0}
        days == ComparisonDays(result, weighted)
        last == Max(days)
        modes == {result[s][last].point.mode : s \in weighted}
        common == {d \in days : d <= last}
        cumulative(field) == [s \in weighted |->
                                SumFunction([d \in common |-> result[s][d].point[field]])]
    IN IF weighted = {} \/ days = {} THEN None
       ELSE IF Cardinality(modes) # 1 THEN None
       ELSE [at |-> last, shares |-> weighted, mode |-> CHOOSE m \in modes : TRUE,
             days |-> Cardinality(common),
             actual |-> cumulative("actual"), predicted |-> cumulative("predicted")]

-----------------------------------------------------------------------------

ReviewInit ==
    /\ series = [name \in DOMAIN Level |-> {}]
    /\ fundNavs = [share \in Shares |-> {}]
    /\ references = {}
    /\ day = StartDate

\* Closes, NAVs and rates of days gone by are published or filled in.
PublishClose(name, d) ==
    /\ d < day /\ d \notin series[name] /\ d \in DOMAIN Level[name]
    /\ series' = [series EXCEPT ![name] = @ \cup {d}]
    /\ UNCHANGED <<fundNavs, references, day>>

StoreFundNav(share, d) ==
    /\ d < day /\ d \notin fundNavs[share] /\ d \in DOMAIN NavsPublished[share]
    /\ fundNavs' = [fundNavs EXCEPT ![share] = @ \cup {d}]
    /\ UNCHANGED <<series, references, day>>

StoreReference(d) ==
    /\ d \notin references
    /\ references' = references \cup {d}
    /\ UNCHANGED <<series, fundNavs, day>>

DayPasses ==
    /\ day + 1 \in Calendar
    /\ day' = day + 1
    /\ UNCHANGED <<series, fundNavs, references>>

ReviewNext ==
    \/ \E d \in Calendar :
          \/ \E name \in DOMAIN Level : PublishClose(name, d)
          \/ \E share \in Shares : StoreFundNav(share, d)
    \/ \E d \in ReferenceDays : StoreReference(d)
    \/ DayPasses

ReviewSpec == ReviewInit /\ [][ReviewNext]_reviewVars

-----------------------------------------------------------------------------

RowsRead == [series |-> series, navs |-> fundNavs]
Until(d) == [series |-> [name \in DOMAIN Level |-> {e \in series[name] : e <= d}],
             navs |-> [share \in Shares |-> {e \in fundNavs[share] : e <= d}]]

\* The first day a request shows day d: the next weekday, unless d is a weekend for
\* which funds have a NAV, as at the end of a half-year.
FirstShown(d) == Min({e \in Calendar : StartDate <= e /\ d <= LatestComparable(e)})

\* No hindsight: the prediction and the interval shown for a day are those that
\* would have been shown first, when none was newer, from the closes and NAVs up to
\* it; an actual return decides nothing for its own day.  No move of a price is
\* counted for two days.  And the verdict does not wait for, or change with, the
\* estimate of a day without NAV: it is that of the newest NAV's day.
PastStandsStill ==
    \A share \in AnalysisTargets :
        LET all == Predictions(RowsRead, share, day)
            navDays == ComparableNavs(RowsRead, share, day)
        IN /\ \A d \in DOMAIN all :
                 LET then == Predictions(Until(d), share, FirstShown(d))[d]
                 IN /\ then.point = all[d].point /\ then.width = all[d].width
                    /\ all[d].point.actual # None => d \in navDays
           /\ \A h \in {h \in FundOf(share).holdings : h.series # None} :
                 LET dates == DOMAIN all
                     between == [d \in dates |->
                         Between(Points(RowsRead, h.series, day), dates,
                                 Lag(FundOf(share).policy, h.market), d)]
                 IN \A d, e \in dates :
                       /\ d < e
                       /\ None \notin {between[d].from, between[e].from}
                       /\ between[e].from # between[e].to
                       => between[d].to <= between[e].from
           /\ navDays # {} =>
                 Consistency(RowsRead, share, day)
                     = Consistency(RowsRead, share, FirstShown(Max(navDays)))

\* What is shown of the portfolio is of all of it and of one day: a prediction is
\* the mean of predictions of one day for every position that was held, so it is
\* not outside them; the shares of a fund are compared at one day, the newest all
\* have, under one mode, over the same days; and no day shown is yet to come.
ReviewIsWhole ==
    LET result == Tabulated([share \in AnalysisTargets |-> Predictions(RowsRead, share, day)])
        weights == ResultWeights(fundNavs, references, day)
        portfolio == PortfolioPrediction(result, weights, day)
        newest == LatestComparable(day)
    IN /\ portfolio # None =>
             LET shown == {result[s][newest].point.predicted : s \in portfolio.shares}
             IN /\ portfolio.shares = Current(day)
                /\ portfolio.parts \in (weights.total * Min(shown))..(weights.total * Max(shown))
                /\ NextWeekday(newest) <= day
       /\ \A fund \in DOMAIN Funds :
             LET row == FundRow(result, weights, fund)
             IN row # None =>
                   /\ NextWeekday(row.at) <= day
                   /\ \A s \in row.shares :
                         LET seen == {d \in ComparableNavs(RowsRead, s, day) :
                                        /\ NavsPublished[s][d].actual # None
                                        /\ result[s][d].point.predicted # None}
                         IN /\ row.at \in seen
                            /\ result[s][row.at].point.mode = row.mode
                            /\ row.days <= Cardinality(seen)
                            /\ row.shares = {s} =>
                                  row.at = Max(seen) /\ row.days = Cardinality(seen)
=============================================================================
