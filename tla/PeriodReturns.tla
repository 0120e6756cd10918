----------------------------- MODULE PeriodReturns -----------------------------
(***************************************************************************)
(* The returns of a pool of funds that are shown side by side: DAILY, MTD  *)
(* and QTD, per fund, up to a day for which every fund that has NAVs has   *)
(* one.  The state is the stored NAVs; the day of the request moves on.    *)
(***************************************************************************)
EXTENDS SqlNull, Integers, FiniteSets, FiniteSetsExt, Functions

CONSTANTS
    Pool,            \* the active funds of the pool
    SharesOf,        \* fund |-> its shares; a share has code, cny, exchange, classA
    RepresentativeCode, \* fund |-> its representative code
    ReturnDays,
    MonthStart,      \* day |-> the first day of its month
    QuarterStart,    \* day |-> the first day of its quarter
    NavRows,         \* what may be stored of a day: [unit, accumulated]
    StaleAfter       \* STALE_NAV_AFTER_DAYS

ASSUME CalendarAssumption ==
    /\ ReturnDays \subseteq Nat /\ ReturnDays # {} /\ StaleAfter \in Nat
    /\ None \notin NavRows
    /\ \A row \in NavRows : row.unit # None /\ row.unit \in Nat \ {0}
    /\ \A d \in ReturnDays : QuarterStart[d] <= MonthStart[d] /\ MonthStart[d] <= d

\* A fund has a share, and the codes of shares are ordered.
ASSUME PoolAssumption ==
    /\ IsFiniteSet(Pool)
    /\ \A fund \in Pool :
          /\ SharesOf[fund] # {}
          /\ \A share \in SharesOf[fund] :
                share.code \in Nat /\ {share.cny, share.exchange, share.classA} \subseteq BOOLEAN

VARIABLES
    shareNavs,  \* share code |-> day |-> [unit, accumulated], or None
    asOf        \* the day of the request

returnVars == <<shareNavs, asOf>>

Periods == {"DAILY", "MTD", "QTD"}
Codes(fund) == {share.code : share \in SharesOf[fund]}
ShareCodes == UNION {Codes(fund) : fund \in Pool}

-----------------------------------------------------------------------------
(* One share per fund.                                                      *)

Preferred(a, b) ==
    LET badness(share) == (IF share.cny THEN 0 ELSE 4) + (IF share.exchange THEN 2 ELSE 0)
                            + (IF share.classA THEN 0 ELSE 1)
    IN badness(a) < badness(b) \/ (badness(a) = badness(b) /\ a.code <= b.code)

\* The representative, or the share that comes first.
ShareOf ==
    [fund \in Pool |->
        IF RepresentativeCode[fund] \in Codes(fund) THEN RepresentativeCode[fund]
        ELSE (CHOOSE a \in SharesOf[fund] : \A b \in SharesOf[fund] : Preferred(a, b)).code]

-----------------------------------------------------------------------------
(* calculate_period_return over the rows of one share.                      *)

Boundary(day, period) ==
    CASE period = "DAILY" -> None
      [] period = "MTD" -> MonthStart[day]
      [] period = "QTD" -> QuarterStart[day]

NoReturn(status, end) == [status |-> status, baseline |-> None, end |-> end,
                          accumulated |-> FALSE, from |-> None, to |-> None]

\* Faulty variant: the first NAV of the period is taken for the baseline.
Baselines_Inside(days, end, period, day) ==
    IF period = "DAILY" THEN days \ {end}
    ELSE {d \in days : d <= Boundary(day, period)}

\* The days that may be the baseline: the newest of them is.
Baselines(days, end, period, day) ==
    IF period = "DAILY" THEN days \ {end}
    ELSE {d \in days : d < Boundary(day, period)}

\* The return is to / from - 1.  day is the day whose month or quarter it is.
PeriodReturn(rows, period, endDate, day) ==
    LET days == {d \in ReturnDays : rows[d] # None /\ d <= endDate}
        end == Max(days)
        candidates == Baselines(days, end, period, day)
        baseline == Max(candidates)
        accumulated == rows[baseline].accumulated # None /\ rows[end].accumulated # None
    IN IF days = {} THEN NoReturn("MISSING_NAV", None)
       ELSE IF candidates = {} THEN NoReturn("MISSING_BASELINE", end)
       ELSE [status |-> "READY", baseline |-> baseline, end |-> end,
             accumulated |-> accumulated,
             from |-> IF accumulated THEN rows[baseline].accumulated ELSE rows[baseline].unit,
             to |-> IF accumulated THEN rows[end].accumulated ELSE rows[end].unit]

-----------------------------------------------------------------------------
(* active_tech_returns.                                                     *)

NavDays(fund) == {d \in ReturnDays : d <= asOf /\ shareNavs[ShareOf[fund]][d] # None}
WithNavs == {fund \in Pool : NavDays(fund) # {}}

\* The days for which all funds that have NAVs have one.
CommonDates ==
    LET withNavs == WithNavs
    IN IF withNavs = {} THEN {} ELSE {d \in ReturnDays : \A fund \in withNavs : d \in NavDays(fund)}

EndDate(common) == Max(common)

Item(fund, period, common) ==
    LET result == PeriodReturn(shareNavs[ShareOf[fund]], period, EndDate(common), asOf)
        lag == asOf - Max(NavDays(fund))
    IN IF NavDays(fund) = {} \/ common = {} THEN NoReturn("MISSING_NAV", None)
       ELSE IF result.status = "READY" /\ lag > StaleAfter THEN [result EXCEPT !.status = "STALE"]
       ELSE result

Table(period) == LET common == CommonDates IN [fund \in Pool |-> Item(fund, period, common)]

\* The counts above the table.
Summary(table) ==
    LET missing == {"MISSING_NAV", "MISSING_BASELINE"}
        compared == {fund \in Pool : table[fund].from # None}
    IN [comparable |-> Cardinality(compared),
        missing  |-> Cardinality({fund \in Pool : table[fund].status \in missing}),
        stale    |-> Cardinality({fund \in Pool : table[fund].status = "STALE"}),
        positive |-> Cardinality({fund \in compared : table[fund].to > table[fund].from}),
        negative |-> Cardinality({fund \in compared : table[fund].to < table[fund].from})]

-----------------------------------------------------------------------------

ReturnsInit ==
    /\ shareNavs = [code \in ShareCodes |-> [d \in ReturnDays |-> None]]
    /\ asOf = Min(ReturnDays)

StoreShareNav(code, d, row) ==
    /\ shareNavs' = [shareNavs EXCEPT ![code][d] = row]
    /\ UNCHANGED asOf

NextDay ==
    /\ asOf + 1 \in ReturnDays
    /\ asOf' = asOf + 1
    /\ UNCHANGED shareNavs

ReturnsNext ==
    \/ \E code \in ShareCodes, d \in 1..asOf, row \in NavRows : StoreShareNav(code, d, row)
    \/ NextDay

ReturnsSpec == ReturnsInit /\ [][ReturnsNext]_returnVars

-----------------------------------------------------------------------------

\* The rows of the table may be compared: every return shown ends on one day, for
\* which its fund has a NAV, begins at the newest NAV that is older than the month or
\* quarter of the request, and is between two NAVs of one kind; a fund without NAVs
\* takes no part in the choice of the day; each fund is counted once, as compared or
\* as missing; and in the first month of a quarter MTD is QTD.
ReturnsAreComparable ==
    /\ \A period \in Periods :
        LET table == Table(period)
            shown == {fund \in Pool : table[fund].from # None}
            boundary == Boundary(asOf, period)
        IN /\ \A f, g \in shown : table[f].end = table[g].end
           /\ \A f \in shown :
                 LET item == table[f]
                     days == NavDays(f)
                     rows == shareNavs[ShareOf[f]]
                 IN /\ item.end \in days
                    /\ \/ item.from = rows[item.baseline].unit /\ item.to = rows[item.end].unit
                       \/ /\ item.from = rows[item.baseline].accumulated
                          /\ item.to = rows[item.end].accumulated
                    /\ period # "DAILY" =>
                          /\ item.baseline < boundary
                          /\ \A d \in days : d < boundary /\ d <= item.end => d <= item.baseline
           /\ Summary(table).comparable + Summary(table).missing = Cardinality(Pool)
    /\ MonthStart[asOf] = QuarterStart[asOf] => Table("MTD") = Table("QTD")
=============================================================================
