----------------------------- MODULE ReadSideProofs ----------------------------
(***************************************************************************)
(* Theorems about what the read side shows, for every value of the         *)
(* constants: returns that may be compared (PeriodReturns), predictions    *)
(* without hindsight and of the whole portfolio (HoldingsReview), and a    *)
(* portfolio whose daily profits and sums are what they say                *)
(* (PortfolioValuation). They are proved one after the other and share the *)
(* lemmas about days and sums, as does LookthroughProofs.                  *)
(***************************************************************************)
EXTENDS PeriodReturns, HoldingsReview, PortfolioValuation,
        FiniteSetTheorems, WellFoundedInduction, TLAPS

-----------------------------------------------------------------------------
(* The least and the greatest of a set of days.                             *)

\* A set of naturals that is not empty has a least element.
LEMMA LeastNatural ==
  ASSUME NEW S \in SUBSET Nat, S # {}
  PROVE  \E m \in S : \A n \in S : m <= n
<1>1. IsWellFoundedOn(OpToRel(<, Nat), Nat)  BY NatLessThanWellFounded
<1>2. PICK m \in S : \A n \in S : ~ (<<n, m>> \in OpToRel(<, Nat))
  BY <1>1, WFMin
<1>3. \A n \in S : ~ (n < m)  BY <1>2 DEF OpToRel
<1> QED  BY <1>3

\* The least day of a set is one of it.
LEMMA FirstDay ==
  ASSUME NEW S \in SUBSET Nat, S # {}
  PROVE  Min(S) \in S
<1>1. \E x \in S : \A y \in S : x =< y  BY LeastNatural
<1> QED  BY <1>1 DEF Min

\* So is the greatest, where the days are bounded.
LEMMA LastDay ==
  ASSUME NEW S \in SUBSET Nat, S # {}, NEW n \in Nat, \A d \in S : d <= n
  PROVE  Max(S) \in S /\ \A e \in S : e <= Max(S)
<1> DEFINE back == {k \in 0..n : n - k \in S}
<1>1. \A d \in S : n - d \in 0..n /\ n - (n - d) = d /\ n - d \in back
  <2> TAKE d \in S
  <2>1. d \in Nat /\ d <= n  OBVIOUS
  <2>2. n - d \in 0..n /\ n - (n - d) = d  BY <2>1
  <2> QED  BY <2>2
<1>2. PICK m \in back : \A k \in back : m <= k
  <2>1. \A k \in back : k \in Nat  OBVIOUS
  <2>2. back \in SUBSET Nat /\ back # {}  BY <1>1, <2>1
  <2> HIDE DEF back
  <2> QED  BY <2>2, LeastNatural
<1>3. ASSUME NEW e \in S  PROVE n - m >= e
  <2>1. n - e \in back /\ e \in Nat  BY <1>1
  <2>2. m <= n - e /\ m \in 0..n  BY <1>2, <2>1
  <2> QED  BY <2>1, <2>2
<1>4. \E x \in S : \A y \in S : x >= y  BY <1>2, <1>3
<1>5. Max(S) \in S /\ \A y \in S : Max(S) >= y  BY <1>4 DEF Max
<1> QED  BY <1>5

-----------------------------------------------------------------------------
(* The types.                                                               *)

ReturnTypes ==
  /\ asOf \in ReturnDays
  /\ shareNavs \in [ShareCodes -> [ReturnDays -> NavRows \cup {None}]]

\* Every fund has its share: the representative, or the first in the order of
\* preference, which two shares cannot share.
LEMMA FundsHaveShares ==
  ASSUME NEW fund \in Pool
  PROVE  ShareOf[fund] \in Codes(fund) /\ ShareOf[fund] \in ShareCodes
<1> DEFINE badness(share) == (IF share.cny THEN 0 ELSE 4) + (IF share.exchange THEN 2 ELSE 0)
                            + (IF share.classA THEN 0 ELSE 1)
           shares == SharesOf[fund]
<1>1. \A share \in shares : badness(share) \in Nat /\ share.code \in Nat
  <2> SUFFICES ASSUME NEW share \in shares  PROVE badness(share) \in Nat /\ share.code \in Nat
    OBVIOUS
  <2> DEFINE a == IF share.cny THEN 0 ELSE 4
             b == IF share.exchange THEN 2 ELSE 0
             c == IF share.classA THEN 0 ELSE 1
  <2>1. a \in Nat /\ b \in Nat /\ c \in Nat /\ badness(share) = a + b + c  OBVIOUS
  <2>2. share.code \in Nat  BY PoolAssumption
  <2> HIDE DEF a, b, c, badness
  <2> QED  BY <2>1, <2>2
<1>2. shares # {}  BY PoolAssumption
<1>3. \A x, y : Preferred(x, y) <=>
         badness(x) < badness(y) \/ (badness(x) = badness(y) /\ x.code <= y.code)
  BY DEF Preferred
<1> HIDE DEF badness
<1>4. PICK best \in shares : \A y \in shares : badness(best) <= badness(y)
  <2> DEFINE all == {badness(x) : x \in shares}
  <2>1. \A n \in all : n \in Nat  BY <1>1
  <2>2. all \in SUBSET Nat /\ all # {}  BY <1>2, <2>1
  <2>3. PICK m \in all : \A n \in all : m <= n
    <3> HIDE DEF all
    <3> QED  BY <2>2, LeastNatural
  <2>4. \A y \in shares : badness(y) \in all  OBVIOUS
  <2> QED  BY <2>3, <2>4
<1>5. PICK first \in shares : /\ badness(first) = badness(best)
                              /\ \A y \in shares : badness(y) = badness(best) => first.code <= y.code
  <2> DEFINE codes == {x.code : x \in {y \in shares : badness(y) = badness(best)}}
  <2>1. \A n \in codes : n \in Nat  BY <1>1
  <2>2. codes \in SUBSET Nat /\ codes # {}  BY <2>1
  <2>3. PICK m \in codes : \A n \in codes : m <= n
    <3> HIDE DEF codes
    <3> QED  BY <2>2, LeastNatural
  <2>4. \A y \in shares : badness(y) = badness(best) => y.code \in codes  OBVIOUS
  <2> QED  BY <2>3, <2>4
<1>6. \A y \in shares : Preferred(first, y)
  <2> TAKE y \in shares
  <2>1. badness(best) <= badness(y) /\ badness(best) \in Nat /\ badness(y) \in Nat  BY <1>1, <1>4
  <2> QED  BY <1>3, <1>5, <2>1
<1> DEFINE chosen == CHOOSE a \in shares : \A b \in shares : Preferred(a, b)
<1>7. chosen \in shares  BY <1>6
<1>8. ShareOf[fund] = IF RepresentativeCode[fund] \in Codes(fund) THEN RepresentativeCode[fund]
                      ELSE chosen.code
  BY DEF ShareOf
<1>9. chosen.code \in Codes(fund)  BY <1>7 DEF Codes
<1>10. ShareOf[fund] \in Codes(fund)  BY <1>8, <1>9
<1> QED  BY <1>10 DEF ShareCodes

\* The rows are typed when the first return is asked for ...
LEMMA TypesStart == ReturnsInit => ReturnTypes
<1>1. Min(ReturnDays) \in ReturnDays  BY FirstDay, CalendarAssumption
<1> QED  BY <1>1 DEF ReturnsInit, ReturnTypes

\* ... and every NAV that is stored keeps them so.
LEMMA TypesStay ==
  ASSUME ReturnTypes, [ReturnsNext]_returnVars
  PROVE  ReturnTypes'
<1>1. ASSUME NEW code \in ShareCodes, NEW d \in 1..asOf, NEW row \in NavRows,
             StoreShareNav(code, d, row)
      PROVE  ReturnTypes'
  BY <1>1 DEF StoreShareNav, ReturnTypes
<1>2. CASE NextDay  BY <1>2 DEF NextDay, ReturnTypes
<1>3. CASE UNCHANGED returnVars  BY <1>3 DEF returnVars, ReturnTypes
<1> QED  BY <1>1, <1>2, <1>3 DEF ReturnsNext

-----------------------------------------------------------------------------
(* What a row of the table is.                                              *)

\* A row that shows no return is counted as missing ...
IsMissing(item) ==
  /\ item.from = None
  /\ item.status \in {"MISSING_NAV", "MISSING_BASELINE"}

\* ... and a row that shows one is between two NAVs of one kind, up to the day all
\* the funds have in common.
IsReturn(item, fund, period) ==
  /\ item.from # None
  /\ item.status \in {"READY", "STALE"}
  /\ item.end = EndDate(CommonDates)
  /\ item.end \in NavDays(fund)
  /\ LET rows == shareNavs[ShareOf[fund]]
     IN \/ item.from = rows[item.baseline].unit /\ item.to = rows[item.end].unit
        \/ item.from = rows[item.baseline].accumulated /\ item.to = rows[item.end].accumulated
  /\ period # "DAILY" =>
        /\ item.baseline < Boundary(asOf, period)
        /\ \A d \in NavDays(fund) :
              d < Boundary(asOf, period) /\ d <= item.end => d <= item.baseline

\* The day all the funds have in common is a day of each fund that has NAVs.
LEMMA CommonDay ==
  ASSUME ReturnTypes, CommonDates # {}, NEW fund \in Pool, NavDays(fund) # {}
  PROVE  /\ EndDate(CommonDates) \in NavDays(fund)
         /\ NavDays(fund) \subseteq ReturnDays
<1>1. CommonDates \subseteq ReturnDays /\ fund \in WithNavs  BY DEF CommonDates, WithNavs
<1>2. \A d \in CommonDates : d \in NavDays(fund)  BY <1>1 DEF CommonDates
<1>3. \A d \in NavDays(fund) : d \in ReturnDays /\ d <= asOf  BY DEF NavDays
<1>4. CommonDates \in SUBSET Nat /\ asOf \in Nat  BY <1>1, CalendarAssumption DEF ReturnTypes
<1>5. \A d \in CommonDates : d <= asOf  BY <1>2, <1>3
<1>6. Max(CommonDates) \in CommonDates  BY <1>4, <1>5, LastDay
<1> QED  BY <1>2, <1>3, <1>6 DEF EndDate

\* Every row of the table is one or the other.
LEMMA RowsAreOneOrTheOther ==
  ASSUME ReturnTypes, NEW fund \in Pool, NEW period \in Periods
  PROVE  \/ IsMissing(Item(fund, period, CommonDates))
         \/ IsReturn(Item(fund, period, CommonDates), fund, period)
<1> DEFINE common == CommonDates
           last == EndDate(common)
           rows == shareNavs[ShareOf[fund]]
           days == {d \in ReturnDays : rows[d] # None /\ d <= last}
           end == Max(days)
           candidates == Baselines(days, end, period, asOf)
           baseline == Max(candidates)
           result == PeriodReturn(rows, period, last, asOf)
           item == Item(fund, period, common)
           nothing == NoReturn("MISSING_NAV", None)
<1>1. IsMissing(nothing)  BY DEF IsMissing, NoReturn
<1>2. CASE NavDays(fund) = {} \/ common = {}
  <2>1. item = nothing  BY <1>2 DEF Item
  <2> QED  BY <1>1, <2>1
<1>3. CASE NavDays(fund) # {} /\ common # {}
  <2>1. last \in NavDays(fund) /\ NavDays(fund) \subseteq ReturnDays  BY <1>3, CommonDay
  <2>2. asOf \in Nat /\ last \in Nat /\ last <= asOf
    BY <2>1, CalendarAssumption DEF NavDays, ReturnTypes
  <2>3. last \in days /\ days \in SUBSET Nat /\ days # {} /\ (\A d \in days : d <= last)
    <3>1. last \in days  BY <2>1, <2>2 DEF NavDays
    <3>2. \A d \in days : d \in Nat /\ d <= last  BY CalendarAssumption
    <3>3. days \in SUBSET Nat  BY <3>2
    <3> QED  BY <3>1, <3>2, <3>3
  <2>4. end \in days /\ \A d \in days : d <= end
    <3> HIDE DEF days, last
    <3> QED  BY <2>2, <2>3, LastDay
  <2>5. end = last
    <3>1. end \in Nat /\ end <= last /\ last <= end  BY <2>3, <2>4
    <3> HIDE DEF end, last
    <3> QED  BY <2>2, <3>1
  <2>6. days = {d \in NavDays(fund) : d <= last}
    <3>1. \A d \in ReturnDays : d <= last => d <= asOf  BY <2>2, CalendarAssumption
    <3> QED  BY <3>1 DEF NavDays
  <2>7. candidates \subseteq days /\ (period # "DAILY" =>
           candidates = {d \in days : d < Boundary(asOf, period)})
    BY DEF Baselines
  <2>8. CASE candidates = {}
    <3> DEFINE noBase == NoReturn("MISSING_BASELINE", end)
    <3>1. result = noBase  BY <2>3, <2>8 DEF PeriodReturn
    <3>2. IsMissing(noBase) /\ noBase.status = "MISSING_BASELINE"  BY DEF IsMissing, NoReturn
    <3>3. item = result  BY <1>3, <3>1, <3>2 DEF Item
    <3> QED  BY <3>1, <3>2, <3>3
  <2>9. CASE candidates # {}
    <3>1. baseline \in candidates /\ \A d \in candidates : d <= baseline
      <4>1. candidates \in SUBSET Nat /\ \A d \in candidates : d <= last  BY <2>3, <2>7
      <4> HIDE DEF candidates, last
      <4> QED  BY <2>2, <2>9, <4>1, LastDay
    <3> DEFINE accumulated == rows[baseline].accumulated # None /\ rows[end].accumulated # None
               from == IF accumulated THEN rows[baseline].accumulated ELSE rows[baseline].unit
               to == IF accumulated THEN rows[end].accumulated ELSE rows[end].unit
               ready == [status |-> "READY", baseline |-> baseline, end |-> end,
                         accumulated |-> accumulated, from |-> from, to |-> to]
    <3>2. result = ready  BY <2>3, <2>9 DEF PeriodReturn
    <3>3. rows[baseline] \in NavRows
      <4>1. baseline \in ReturnDays /\ rows[baseline] # None  BY <3>1, <2>7
      <4>2. rows \in [ReturnDays -> NavRows \cup {None}]  BY FundsHaveShares DEF ReturnTypes
      <4> HIDE DEF rows, baseline
      <4> QED  BY <4>1, <4>2
    <3>4. from # None
      <4>1. rows[baseline].unit # None  BY <3>3, CalendarAssumption
      <4> HIDE DEF baseline, rows, end
      <4> QED  BY <4>1
    <3>5. \/ from = rows[baseline].unit /\ to = rows[end].unit
          \/ from = rows[baseline].accumulated /\ to = rows[end].accumulated
      <4> HIDE DEF baseline, rows, end
      <4> QED  OBVIOUS
    <3>6. period # "DAILY" =>
             /\ baseline < Boundary(asOf, period)
             /\ \A d \in NavDays(fund) :
                   d < Boundary(asOf, period) /\ d <= end => d <= baseline
      <4> HIDE DEF baseline, candidates, end, last, days
      <4> QED  BY <2>5, <2>6, <2>7, <3>1
    <3>7. end \in NavDays(fund)  BY <2>1, <2>5
    <3>8. /\ item.status \in {"READY", "STALE"} /\ item.from = from /\ item.to = to
          /\ item.end = end /\ item.baseline = baseline
      <4>1. item = result \/ item = [result EXCEPT !.status = "STALE"]  BY <1>3 DEF Item
      <4> HIDE DEF item, result, from, to, end, baseline, accumulated
      <4> QED  BY <3>2, <4>1
    <3>9. IsReturn(item, fund, period)
      <4> HIDE DEF item, from, to, end, baseline
      <4>1. item.end = EndDate(CommonDates)  BY <2>5, <3>8
      <4> QED  BY <3>4, <3>5, <3>6, <3>7, <3>8, <4>1 DEF IsReturn
    <3> QED  BY <3>9
  <2> QED  BY <2>8, <2>9
<1> QED  BY <1>2, <1>3

-----------------------------------------------------------------------------
(* The table.                                                               *)

\* No fund is counted twice and none is left out.
LEMMA EachFundIsCountedOnce ==
  ASSUME ReturnTypes, NEW period \in Periods
  PROVE  Summary(Table(period)).comparable + Summary(Table(period)).missing = Cardinality(Pool)
<1> DEFINE table == Table(period)
           compared == {fund \in Pool : table[fund].from # None}
           left == {fund \in Pool : table[fund].status \in {"MISSING_NAV", "MISSING_BASELINE"}}
<1>1. \A fund \in Pool : fund \in compared <=> fund \notin left
  <2> TAKE fund \in Pool
  <2>1. IsMissing(table[fund]) \/ IsReturn(table[fund], fund, period)
    BY RowsAreOneOrTheOther DEF Table
  <2> HIDE DEF table
  <2> QED  BY <2>1 DEF IsMissing, IsReturn
<1>2. Summary(table).comparable = Cardinality(compared) /\ Summary(table).missing = Cardinality(left)
  <2> HIDE DEF table
  <2> QED  BY DEF Summary
<1> HIDE DEF table
<1>3. compared \subseteq Pool /\ left \subseteq Pool /\ IsFiniteSet(Pool)
  BY PoolAssumption
<1>4. compared \cup left = Pool /\ compared \cap left = {}  BY <1>1
<1> HIDE DEF compared, left
<1>5. IsFiniteSet(compared) /\ IsFiniteSet(left)  BY <1>3, FS_Subset
<1>6. Cardinality(compared \cup left)
        = Cardinality(compared) + Cardinality(left) - Cardinality(compared \cap left)
  BY <1>5, FS_Union
<1>7. Cardinality({}) = 0  BY FS_EmptySet
<1>8. Cardinality(compared) \in Nat /\ Cardinality(left) \in Nat  BY <1>5, FS_CardinalityType
<1>9. Cardinality(Pool) = Cardinality(compared) + Cardinality(left)
  <2>1. Cardinality(compared \cup left) = Cardinality(Pool)  BY <1>4, Zenon
  <2>2. Cardinality(compared \cap left) = 0  BY <1>4, <1>7, Zenon
  <2> DEFINE n == Cardinality(Pool)
             both == Cardinality(compared \cup left)
             none == Cardinality(compared \cap left)
             a == Cardinality(compared)
             b == Cardinality(left)
  <2>3. n = both /\ none = 0 /\ both = a + b - none /\ a \in Nat /\ b \in Nat
    BY <1>6, <1>8, <2>1, <2>2
  <2> HIDE DEF n, both, none, a, b
  <2>4. n = a + b  BY <2>3
  <2> QED  BY <2>4 DEF n, a, b
<1>10. Summary(table).comparable + Summary(table).missing = Cardinality(Pool)
  BY <1>2, <1>9
<1> QED  BY <1>10 DEF table

\* In the first month of a quarter the two periods begin on one day.
LEMMA OneBeginning ==
  ASSUME MonthStart[asOf] = QuarterStart[asOf]
  PROVE  Table("MTD") = Table("QTD")
<1> DEFINE mtd == "MTD"
           qtd == "QTD"
<1>1. Boundary(asOf, mtd) = Boundary(asOf, qtd) /\ mtd # "DAILY" /\ qtd # "DAILY"
  BY DEF Boundary
<1> HIDE DEF mtd, qtd
<1>2. ASSUME NEW days, NEW end
      PROVE  Baselines(days, end, mtd, asOf) = Baselines(days, end, qtd, asOf)
  BY <1>1 DEF Baselines
<1>3. ASSUME NEW rows, NEW last
      PROVE  PeriodReturn(rows, mtd, last, asOf) = PeriodReturn(rows, qtd, last, asOf)
  BY <1>2 DEF PeriodReturn
<1>4. ASSUME NEW fund \in Pool, NEW common
      PROVE  Item(fund, mtd, common) = Item(fund, qtd, common)
  BY <1>3 DEF Item
<1>5. Table(mtd) = Table(qtd)  BY <1>4 DEF Table
<1> QED  BY <1>5 DEF mtd, qtd

\* The types are all that comparability needs.
LEMMA TypedReturnsAreComparable == ReturnTypes => ReturnsAreComparable
<1> SUFFICES ASSUME ReturnTypes  PROVE ReturnsAreComparable
  OBVIOUS
<1>1. ASSUME NEW period \in Periods, NEW f \in Pool, Table(period)[f].from # None
      PROVE  IsReturn(Table(period)[f], f, period)
  <2>1. Table(period)[f] = Item(f, period, CommonDates)  BY DEF Table
  <2>2. \/ IsMissing(Item(f, period, CommonDates))
        \/ IsReturn(Item(f, period, CommonDates), f, period)
    BY RowsAreOneOrTheOther
  <2> QED  BY <1>1, <2>1, <2>2 DEF IsMissing
<1>2. ASSUME NEW period \in Periods, NEW f \in Pool, NEW g \in Pool,
             Table(period)[f].from # None, Table(period)[g].from # None
      PROVE  Table(period)[f].end = Table(period)[g].end
  BY <1>1, <1>2 DEF IsReturn
<1> QED  BY <1>1, <1>2, EachFundIsCountedOnce, OneBeginning DEF ReturnsAreComparable, IsReturn

-----------------------------------------------------------------------------

\* The stored NAVs and the day of the request keep their types (api.active_tech_returns
\* reads FundNavHistory up to date.today()).
THEOREM ReturnsAreTyped == ReturnsSpec => []ReturnTypes
<1>1. ReturnsInit => ReturnTypes  BY TypesStart
<1>2. ReturnTypes /\ [ReturnsNext]_returnVars => ReturnTypes'  BY TypesStay
<1> QED  BY <1>1, <1>2, PTL DEF ReturnsSpec

\* Whatever NAVs are stored, and in whatever order, the returns the table shows may be
\* compared: they end on one day, for which each fund has a NAV, they begin at the
\* newest NAV before the month or the quarter, between NAVs of one kind, and every
\* fund is counted once (calculate_period_return and active_tech_returns).
THEOREM ReturnsMayBeCompared == ReturnsSpec => []ReturnsAreComparable
<1>1. ReturnTypes => ReturnsAreComparable  BY TypedReturnsAreComparable
<1> QED  BY <1>1, ReturnsAreTyped, PTL

-----------------------------------------------------------------------------
(* What SumFunctionOnSet computes. The library defines it by a recursive     *)
(* function over the subsets of a set and proves nothing of it.              *)

\* SumFunctionOnSet is the end of a recursion over the subsets of the set; Sums says
\* that g is one, for the sets of a family.
Chosen(s) == CHOOSE x \in s : TRUE
Sums(f, g, sets) ==
    g = [s \in sets |-> IF s = {} THEN 0 ELSE f[Chosen(s)] + g[s \ {Chosen(s)}]]

UpTo(S, n) == {s \in SUBSET S : Cardinality(s) <= n}

\* Induction on a finite set: what is false is false of a least set.
LEMMA LeastSet ==
  ASSUME NEW S, IsFiniteSet(S), NEW bad \in SUBSET (SUBSET S), bad # {}
  PROVE  \E s \in bad : /\ IsFiniteSet(s)
                        /\ s = {} \/ Chosen(s) \in s
                        /\ \A x \in s : s \ {x} \notin bad
<1>1. \A s \in SUBSET S : IsFiniteSet(s) /\ Cardinality(s) \in Nat
  BY FS_Subset, FS_CardinalityType
<1> DEFINE sizes == {Cardinality(s) : s \in bad}
<1>2. sizes \in SUBSET Nat /\ sizes # {}  BY <1>1
<1>3. PICK n \in sizes : \A m \in sizes : n <= m
  <2> HIDE DEF sizes
  <2> QED  BY <1>2, LeastNatural
<1>4. PICK s \in bad : Cardinality(s) = n  BY <1>3
<1>5. ASSUME NEW x \in s  PROVE s \ {x} \notin bad
  <2>1. Cardinality(s \ {x}) = Cardinality(s) - 1  BY <1>1, FS_RemoveElement
  <2>2. Cardinality(s) \in Nat  BY <1>1
  <2>3. ASSUME s \ {x} \in bad  PROVE FALSE
    <3>1. Cardinality(s) <= Cardinality(s \ {x})  BY <1>3, <1>4, <2>3
    <3> QED  BY <2>1, <2>2, <3>1
  <2> QED  BY <2>3
<1>6. s = {} \/ Chosen(s) \in s  BY DEF Chosen
<1> QED  BY <1>1, <1>5, <1>6

\* There is such a g for the small subsets, hence for all.
LEMMA SmallSums ==
  ASSUME NEW f, NEW S, IsFiniteSet(S)
  PROVE  \A n \in Nat : \E g : Sums(f, g, UpTo(S, n))
<1> DEFINE bad == {n \in Nat : ~ \E g : Sums(f, g, UpTo(S, n))}
<1> SUFFICES ASSUME bad # {}  PROVE FALSE  OBVIOUS
<1>1. PICK n \in bad : \A m \in bad : n <= m
  <2>1. bad \in SUBSET Nat  OBVIOUS
  <2> HIDE DEF bad
  <2> QED  BY <2>1, LeastNatural
<1>2. \A s \in SUBSET S : IsFiniteSet(s) /\ Cardinality(s) \in Nat
  BY FS_Subset, FS_CardinalityType
<1>3. CASE n = 0
  <2>1. UpTo(S, 0) = {{}}
    <3>1. \A s \in UpTo(S, 0) : s = {}
      <4> TAKE s \in UpTo(S, 0)
      <4>1. IsFiniteSet(s) /\ Cardinality(s) = 0  BY <1>2 DEF UpTo
      <4> QED  BY <4>1, FS_EmptySet
    <3>2. {} \in UpTo(S, 0)  BY FS_EmptySet DEF UpTo
    <3> QED  BY <3>1, <3>2
  <2>2. Sums(f, [s \in {{}} |-> 0], {{}})  BY DEF Sums
  <2>3. \E g : Sums(f, g, UpTo(S, 0))  BY <2>1, <2>2
  <2> QED  BY <1>3, <2>3
<1>4. CASE n # 0
  <2>1. n - 1 \in Nat /\ n - 1 \notin bad  BY <1>1, <1>4
  <2>2. PICK h : Sums(f, h, UpTo(S, n - 1))  BY <2>1
  <2> DEFINE g == [s \in UpTo(S, n) |-> IF s = {} THEN 0 ELSE f[Chosen(s)] + h[s \ {Chosen(s)}]]
  <2>3. ASSUME NEW s \in UpTo(S, n - 1)  PROVE s \in UpTo(S, n) /\ g[s] = h[s]
    <3>1. s \in SUBSET S /\ Cardinality(s) <= n - 1  BY DEF UpTo
    <3>2. s \in UpTo(S, n)  BY <3>1, <1>2 DEF UpTo
    <3>3. h[s] = IF s = {} THEN 0 ELSE f[Chosen(s)] + h[s \ {Chosen(s)}]  BY <2>2 DEF Sums
    <3> QED  BY <3>2, <3>3
  <2>4. ASSUME NEW s \in UpTo(S, n), s # {}  PROVE g[s \ {Chosen(s)}] = h[s \ {Chosen(s)}]
    <3>1. s \in SUBSET S /\ Cardinality(s) <= n /\ Chosen(s) \in s  BY <2>4 DEF UpTo, Chosen
    <3>2. Cardinality(s \ {Chosen(s)}) = Cardinality(s) - 1  BY <1>2, <3>1, FS_RemoveElement
    <3>3. s \ {Chosen(s)} \in UpTo(S, n - 1)  BY <1>2, <3>1, <3>2 DEF UpTo
    <3> QED  BY <2>3, <3>3
  <2>5. Sums(f, g, UpTo(S, n))
    <3>1. g = [s \in UpTo(S, n) |-> IF s = {} THEN 0 ELSE f[Chosen(s)] + g[s \ {Chosen(s)}]]
      <4>1. \A s \in UpTo(S, n) : (IF s = {} THEN 0 ELSE f[Chosen(s)] + h[s \ {Chosen(s)}])
                             = (IF s = {} THEN 0 ELSE f[Chosen(s)] + g[s \ {Chosen(s)}])
        <5> HIDE DEF g
        <5> QED  BY <2>4
      <4>2. g = [s \in UpTo(S, n) |-> IF s = {} THEN 0 ELSE f[Chosen(s)] + h[s \ {Chosen(s)}]]
        OBVIOUS
      <4> HIDE DEF g
      <4> QED  BY <4>1, <4>2
    <3> QED  BY <3>1 DEF Sums
  <2> QED  BY <2>5
<1> QED  BY <1>3, <1>4

\* So there is one for all subsets.
LEMMA SumsExist ==
  ASSUME NEW f, NEW S, IsFiniteSet(S)
  PROVE  \E g : Sums(f, g, SUBSET S)
<1>1. Cardinality(S) \in Nat  BY FS_CardinalityType
<1>2. UpTo(S, Cardinality(S)) = SUBSET S
  BY FS_Subset DEF UpTo
<1>3. PICK g : Sums(f, g, UpTo(S, Cardinality(S)))  BY <1>1, SmallSums
<1>4. Sums(f, g, SUBSET S)  BY <1>2, <1>3
<1> QED  BY <1>4

\* What SumFunctionOnSet is: the value of any g like that.
LEMMA SumIsRecursive ==
  ASSUME NEW f, NEW S, IsFiniteSet(S)
  PROVE  \E g : Sums(f, g, SUBSET S) /\ SumFunctionOnSet(f, S) = g[S]
<1> DEFINE G == CHOOSE g : g = [s \in SUBSET S |->
                 IF s = {} THEN 0 ELSE f[CHOOSE x \in s : TRUE] + g[s \ {CHOOSE x \in s : TRUE}]]
<1>1. SumFunctionOnSet(f, S) = G[S]
  BY Zenon DEF SumFunctionOnSet, FoldFunctionOnSet, MapThenFoldSet
<1>2. Sums(f, G, SUBSET S)
  <2>1. PICK g : Sums(f, g, SUBSET S)  BY SumsExist
  <2>2. g = [s \in SUBSET S |->
               IF s = {} THEN 0 ELSE f[CHOOSE x \in s : TRUE] + g[s \ {CHOOSE x \in s : TRUE}]]
    BY <2>1 DEF Sums, Chosen
  <2>3. G = [s \in SUBSET S |->
               IF s = {} THEN 0 ELSE f[CHOOSE x \in s : TRUE] + G[s \ {CHOOSE x \in s : TRUE}]]
    BY <2>2, Zenon
  <2> HIDE DEF G
  <2> QED  BY <2>3 DEF Sums, Chosen
<1> QED BY <1>1, <1>2

IsPart(T, S) == T \subseteq S

\* Sums of functions that agree are the same ...
LEMMA SumsAgree ==
  ASSUME NEW S, IsFiniteSet(S), NEW T, IsPart(T, S), NEW f, NEW g, NEW F, NEW G,
         Sums(f, F, SUBSET S), Sums(g, G, SUBSET T), \A x \in T : f[x] = g[x]
  PROVE  F[T] = G[T]
<1> DEFINE bad == {s \in SUBSET T : F[s] # G[s]}
<1> SUFFICES ASSUME bad # {}  PROVE FALSE
  <2> SUFFICES ASSUME F[T] # G[T]  PROVE T \in bad  OBVIOUS
  <2> QED  OBVIOUS
<1>0. T \subseteq S  BY DEF IsPart
<1>1. IsFiniteSet(T)  BY <1>0, FS_Subset
<1>2. PICK s \in bad : (s = {} \/ Chosen(s) \in s) /\ \A x \in s : s \ {x} \notin bad
  <2>1. bad \in SUBSET (SUBSET T)  OBVIOUS
  <2> HIDE DEF bad
  <2> QED  BY <1>1, <2>1, LeastSet
<1>3. s \in SUBSET T /\ s \in SUBSET S  BY <1>0
<1>4. F[s] = IF s = {} THEN 0 ELSE f[Chosen(s)] + F[s \ {Chosen(s)}]  BY <1>3 DEF Sums
<1>5. G[s] = IF s = {} THEN 0 ELSE g[Chosen(s)] + G[s \ {Chosen(s)}]  BY <1>3 DEF Sums
<1>6. CASE s # {}
  <2>1. F[s \ {Chosen(s)}] = G[s \ {Chosen(s)}]  BY <1>2, <1>6
  <2>2. f[Chosen(s)] = g[Chosen(s)]  BY <1>2, <1>6
  <2> QED  BY <1>4, <1>5, <2>1, <2>2
<1>7. CASE s = {}  BY <1>4, <1>5, <1>7
<1> QED  BY <1>6, <1>7

\* Functions that agree on a set have one sum over it.
LEMMA SumCongruence ==
  ASSUME NEW S, IsFiniteSet(S), NEW f, NEW g, \A x \in S : f[x] = g[x]
  PROVE  SumFunctionOnSet(f, S) = SumFunctionOnSet(g, S)
<1>1. PICK F : Sums(f, F, SUBSET S) /\ SumFunctionOnSet(f, S) = F[S]  BY SumIsRecursive
<1>2. PICK G : Sums(g, G, SUBSET S) /\ SumFunctionOnSet(g, S) = G[S]  BY SumIsRecursive
<1>3. F[S] = G[S]
  <2>1. IsPart(S, S)  BY DEF IsPart
  <2> QED  BY <1>1, <1>2, <2>1, SumsAgree
<1> QED  BY <1>1, <1>2, <1>3

\* ... and their equation needs no g.
LEMMA SumEquation ==
  ASSUME NEW S, IsFiniteSet(S), NEW f
  PROVE  SumFunctionOnSet(f, S) = IF S = {} THEN 0
             ELSE f[Chosen(S)] + SumFunctionOnSet(f, S \ {Chosen(S)})
<1>1. PICK F : Sums(f, F, SUBSET S) /\ SumFunctionOnSet(f, S) = F[S]  BY SumIsRecursive
<1> DEFINE T == S \ {Chosen(S)}
<1>2. IsFiniteSet(T) /\ T \subseteq S  BY FS_Subset
<1>3. PICK G : Sums(f, G, SUBSET T) /\ SumFunctionOnSet(f, T) = G[T]  BY <1>2, SumIsRecursive
<1>4. F[T] = G[T]
  <2>1. \A x \in T : f[x] = f[x]  OBVIOUS
  <2>3. IsPart(T, S)  BY <1>2 DEF IsPart
  <2> HIDE DEF T
  <2>2. Sums(f, F, SUBSET S) /\ Sums(f, G, SUBSET T)  BY <1>1, <1>3
  <2> QED  BY <1>2, <2>1, <2>2, <2>3, SumsAgree
<1>5. F[S] = IF S = {} THEN 0 ELSE f[Chosen(S)] + F[T]  BY <1>1 DEF Sums
<1> QED  BY <1>1, <1>3, <1>4, <1>5

\* A sum of integers is an integer.
LEMMA SumType ==
  ASSUME NEW S, IsFiniteSet(S), NEW f, \A x \in S : f[x] \in Int
  PROVE  SumFunctionOnSet(f, S) \in Int
<1> DEFINE bad == {s \in SUBSET S : SumFunctionOnSet(f, s) \notin Int}
<1> SUFFICES ASSUME bad # {}  PROVE FALSE  OBVIOUS
<1>1. PICK s \in bad : /\ IsFiniteSet(s) /\ (s = {} \/ Chosen(s) \in s)
                       /\ \A x \in s : s \ {x} \notin bad
  <2>1. bad \in SUBSET (SUBSET S)  OBVIOUS
  <2> HIDE DEF bad
  <2> QED  BY <2>1, LeastSet
<1>2. SumFunctionOnSet(f, s) = IF s = {} THEN 0
          ELSE f[Chosen(s)] + SumFunctionOnSet(f, s \ {Chosen(s)})
  BY <1>1, SumEquation
<1>3. CASE s # {}
  <2>1. f[Chosen(s)] \in Int /\ SumFunctionOnSet(f, s \ {Chosen(s)}) \in Int  BY <1>1, <1>3
  <2> QED  BY <1>2, <1>3, <2>1
<1>4. CASE s = {}  BY <1>2, <1>4
<1> QED  BY <1>3, <1>4

\* Any element may be taken out.
LEMMA SumRemove ==
  ASSUME NEW S, IsFiniteSet(S), NEW f, \A x \in S : f[x] \in Int, NEW x \in S
  PROVE  SumFunctionOnSet(f, S) = f[x] + SumFunctionOnSet(f, S \ {x})
<1> DEFINE sum(s) == SumFunctionOnSet(f, s)
           bad == {s \in SUBSET S : \E z \in s : sum(s) # f[z] + sum(s \ {z})}
<1> SUFFICES ASSUME bad # {}  PROVE FALSE  OBVIOUS
<1>1. PICK s \in bad : /\ IsFiniteSet(s) /\ (s = {} \/ Chosen(s) \in s)
                       /\ \A y \in s : s \ {y} \notin bad
  <2>1. bad \in SUBSET (SUBSET S)  OBVIOUS
  <2> HIDE DEF bad
  <2> QED  BY <2>1, LeastSet
<1>2. \A t \in SUBSET S : IsFiniteSet(t) /\ sum(t) \in Int
  <2> TAKE t \in SUBSET S
  <2>1. IsFiniteSet(t)  BY FS_Subset
  <2> QED  BY <2>1, SumType
<1>3. PICK z \in s : sum(s) # f[z] + sum(s \ {z})  BY <1>1
<1> DEFINE y == Chosen(s)
<1>4. y \in s /\ s \in SUBSET S  BY <1>1, <1>3
<1>5. sum(s) = f[y] + sum(s \ {y})  BY <1>1, <1>4, SumEquation
<1>6. z # y  BY <1>3, <1>5
<1>7. sum(s \ {y}) = f[z] + sum((s \ {y}) \ {z})  BY <1>1, <1>4, <1>6
<1>8. sum(s \ {z}) = f[y] + sum((s \ {z}) \ {y})  BY <1>1, <1>4, <1>6
<1>9. (s \ {z}) \ {y} = (s \ {y}) \ {z}  OBVIOUS
<1>10. f[y] \in Int /\ f[z] \in Int /\ sum((s \ {y}) \ {z}) \in Int
  BY <1>2, <1>4
<1>11. sum(s) = f[y] + (f[z] + sum((s \ {y}) \ {z}))  BY <1>5, <1>7
<1>12. f[z] + sum(s \ {z}) = f[z] + (f[y] + sum((s \ {y}) \ {z}))  BY <1>8, <1>9
<1>13. \A i, j, k \in Int : i + (j + k) = j + (i + k)  OBVIOUS
<1>14. sum(s) = f[z] + sum(s \ {z})  BY <1>10, <1>11, <1>12, <1>13
<1> QED  BY <1>3, <1>14

\* What is summed: functions that have an integer for every element of a finite set.
Summable(f, S) == IsFiniteSet(S) /\ \A x \in S : f[x] \in Int

\* The products of the sums below, for a prover that knows no products of two unknowns.
LEMMA Distribute ==
  ASSUME NEW i \in Int, NEW j \in Int, NEW k \in Int
  PROVE  i * j \in Int /\ i * (j + k) = i * j + i * k
OBVIOUS

\* What is summable in whole is so in part.
LEMMA SummableParts ==
  ASSUME NEW f, NEW S, Summable(f, S), NEW s, s \subseteq S
  PROVE  Summable(f, s) /\ SumFunctionOnSet(f, s) \in Int
<1>1. IsFiniteSet(s)  BY FS_Subset DEF Summable
<1>2. \A x \in s : f[x] \in Int  BY DEF Summable
<1>3. SumFunctionOnSet(f, s) \in Int  BY <1>1, <1>2, SumType
<1> QED  BY <1>1, <1>2, <1>3 DEF Summable

\* The sum over no element.
LEMMA SumOfNothing ==
  ASSUME NEW f  PROVE SumFunctionOnSet(f, {}) = 0
<1>1. IsFiniteSet({})  BY FS_EmptySet
<1> QED  BY <1>1, SumEquation

\* One element, taken out of a sum.
LEMMA SumOut ==
  ASSUME NEW f, NEW S, Summable(f, S), NEW x \in S
  PROVE  SumFunctionOnSet(f, S) = f[x] + SumFunctionOnSet(f, S \ {x})
BY SumRemove DEF Summable

\* Sums are compared element by element: what lies between, lies between.
LEMMA SumClose ==
  ASSUME NEW f, NEW g, NEW S, Summable(f, S), Summable(g, S), NEW a \in Int, NEW b \in Int,
         \A x \in S : a <= f[x] - g[x] /\ f[x] - g[x] <= b
  PROVE  LET d == SumFunctionOnSet(f, S) - SumFunctionOnSet(g, S)
         IN a * Cardinality(S) <= d /\ d <= b * Cardinality(S)
<1> DEFINE d(s) == SumFunctionOnSet(f, s) - SumFunctionOnSet(g, s)
           bad == {s \in SUBSET S : ~ (a * Cardinality(s) <= d(s) /\ d(s) <= b * Cardinality(s))}
<1> SUFFICES ASSUME bad # {}  PROVE FALSE  OBVIOUS
<1>1. PICK s \in bad : /\ IsFiniteSet(s) /\ (s = {} \/ Chosen(s) \in s)
                       /\ \A x \in s : s \ {x} \notin bad
  <2>1. bad \in SUBSET (SUBSET S) /\ IsFiniteSet(S)  BY DEF Summable
  <2> HIDE DEF bad
  <2> QED  BY <2>1, LeastSet
<1>2. CASE s = {}
  <2>1. Cardinality(s) = 0 /\ d(s) = 0  BY <1>2, SumOfNothing, FS_EmptySet
  <2> QED  BY <1>1, <2>1
<1>3. CASE s # {}
  <2> DEFINE x == Chosen(s)
             t == s \ {x}
             F == SumFunctionOnSet(f, t)
             G == SumFunctionOnSet(g, t)
             n == Cardinality(t)
  <2>1. x \in s /\ t \in SUBSET S /\ s \in SUBSET S  BY <1>1, <1>3
  <2>2. Summable(f, s) /\ Summable(g, s) /\ F \in Int /\ G \in Int  BY <2>1, SummableParts
  <2>3. f[x] \in Int /\ g[x] \in Int  BY <2>1 DEF Summable
  <2>4. SumFunctionOnSet(f, s) = f[x] + F /\ SumFunctionOnSet(g, s) = g[x] + G
    BY <2>1, <2>2, SumOut
  <2>5. n \in Nat /\ Cardinality(s) = n + 1
    <3>1. IsFiniteSet(s) /\ x \in s  BY <1>1, <2>1
    <3>2. IsFiniteSet(t) /\ Cardinality(t) = Cardinality(s) - 1
      <4> HIDE DEF x
      <4> QED  BY <3>1, FS_RemoveElement
    <3>3. Cardinality(s) \in Nat /\ Cardinality(t) \in Nat  BY <3>1, <3>2, FS_CardinalityType
    <3> QED  BY <3>2, <3>3
  <2>6. a * n <= F - G /\ F - G <= b * n
    <3>1. t \notin bad  BY <1>1, <2>1
    <3> QED  BY <2>1, <3>1
  <2>7. a <= f[x] - g[x] /\ f[x] - g[x] <= b  BY <2>1
  <2>8. a * (n + 1) = a * n + a /\ b * (n + 1) = b * n + b /\ a * n \in Int /\ b * n \in Int
    <3> HIDE DEF n
    <3>1. n \in Int /\ 1 \in Int  BY <2>5
    <3>2. a * 1 = a /\ b * 1 = b  OBVIOUS
    <3>3. a * n \in Int /\ a * (n + 1) = a * n + a * 1  BY <3>1, Distribute
    <3>4. b * n \in Int /\ b * (n + 1) = b * n + b * 1  BY <3>1, Distribute
    <3> QED  BY <3>2, <3>3, <3>4
  <2>9. a * (n + 1) <= d(s) /\ d(s) <= b * (n + 1)
    <3> DEFINE an == a * n
               bn == b * n
               fx == f[x]
               gx == g[x]
    <3>1. /\ an <= F - G /\ F - G <= bn /\ a <= fx - gx /\ fx - gx <= b
          /\ an \in Int /\ bn \in Int /\ fx \in Int /\ gx \in Int
      BY <2>3, <2>6, <2>7, <2>8
    <3> HIDE DEF an, bn, fx, gx, F, G, n
    <3>2. an + a <= (fx + F) - (gx + G) /\ (fx + F) - (gx + G) <= bn + b  BY <2>2, <3>1
    <3> QED  BY <2>4, <2>8, <3>2 DEF an, bn, fx, gx
  <2> HIDE DEF d, n
  <2> QED  BY <1>1, <2>5, <2>9
<1> QED  BY <1>2, <1>3

\* A factor may be taken out ...
LEMMA SumScale ==
  ASSUME NEW f, NEW g, NEW S, Summable(f, S), Summable(g, S), NEW k \in Int,
         \A x \in S : f[x] = k * g[x]
  PROVE  SumFunctionOnSet(f, S) = k * SumFunctionOnSet(g, S)
<1> DEFINE F(s) == SumFunctionOnSet(f, s)
           G(s) == SumFunctionOnSet(g, s)
           bad == {s \in SUBSET S : F(s) # k * G(s)}
<1> SUFFICES ASSUME bad # {}  PROVE FALSE  OBVIOUS
<1>1. PICK s \in bad : /\ IsFiniteSet(s) /\ (s = {} \/ Chosen(s) \in s)
                       /\ \A x \in s : s \ {x} \notin bad
  <2>1. bad \in SUBSET (SUBSET S) /\ IsFiniteSet(S)  BY DEF Summable
  <2> HIDE DEF bad
  <2> QED  BY <2>1, LeastSet
<1>2. CASE s = {}
  <2>1. F(s) = 0 /\ G(s) = 0  BY <1>2, SumOfNothing
  <2> QED  BY <1>1, <2>1
<1>3. CASE s # {}
  <2> DEFINE x == Chosen(s)
             t == s \ {x}
             Gt == G(t)
             gx == g[x]
  <2>1. x \in s /\ t \in SUBSET S /\ s \in SUBSET S  BY <1>1, <1>3
  <2>2. Summable(f, s) /\ Summable(g, s) /\ Gt \in Int  BY <2>1, SummableParts
  <2>3. F(s) = f[x] + F(t) /\ G(s) = gx + Gt  BY <2>1, <2>2, SumOut
  <2>4. F(t) = k * Gt
    <3>1. t \notin bad  BY <1>1, <2>1
    <3> QED  BY <2>1, <3>1
  <2>5. f[x] = k * gx /\ gx \in Int  BY <2>1 DEF Summable
  <2>6. F(s) = k * G(s)
    <3> HIDE DEF F, G, Gt, gx, t, x
    <3>1. k * (gx + Gt) = k * gx + k * Gt  BY <2>2, <2>5
    <3> QED  BY <2>3, <2>4, <2>5, <3>1
  <2> QED  BY <1>1, <2>6
<1> QED  BY <1>2, <1>3

\* ... and the set be split in two.
LEMMA SumSplit ==
  ASSUME NEW f, NEW S, Summable(f, S), NEW A, A \subseteq S
  PROVE  SumFunctionOnSet(f, S) = SumFunctionOnSet(f, A) + SumFunctionOnSet(f, S \ A)
<1> DEFINE F(s) == SumFunctionOnSet(f, s)
           bad == {s \in SUBSET A : F((S \ A) \cup s) # F(s) + F(S \ A)}
<1> SUFFICES ASSUME bad # {}  PROVE FALSE
  <2> SUFFICES ASSUME F(S) # F(A) + F(S \ A)  PROVE A \in bad  OBVIOUS
  <2>1. (S \ A) \cup A = S  OBVIOUS
  <2> QED  BY <2>1
<1>1. PICK s \in bad : /\ IsFiniteSet(s) /\ (s = {} \/ Chosen(s) \in s)
                       /\ \A x \in s : s \ {x} \notin bad
  <2>1. bad \in SUBSET (SUBSET A) /\ IsFiniteSet(A)  BY FS_Subset DEF Summable
  <2> HIDE DEF bad
  <2> QED  BY <2>1, LeastSet
<1> DEFINE rest == S \ A
<1>2. F(rest) \in Int  BY SummableParts
<1>3. CASE s = {}
  <2>1. F(s) = 0 /\ rest \cup s = rest  BY <1>3, SumOfNothing
  <2>2. F(rest \cup s) = F(s) + F(rest)
    <3>1. F(rest \cup s) = F(rest)  BY <2>1
    <3>2. \A n \in Int : 0 + n = n  OBVIOUS
    <3> HIDE DEF F, rest
    <3> QED  BY <1>2, <2>1, <3>1, <3>2
  <2> QED  BY <1>1, <2>2
<1>4. CASE s # {}
  <2> DEFINE x == Chosen(s)
             t == s \ {x}
  <2>1. x \in s /\ t \in SUBSET A /\ s \in SUBSET A /\ rest \cup s \subseteq S /\ t \subseteq S /\ s \subseteq S
    BY <1>1, <1>4
  <2>2. Summable(f, s) /\ Summable(f, rest \cup s) /\ F(t) \in Int /\ f[x] \in Int
    <3>1. f[x] \in Int  BY <2>1 DEF Summable
    <3> DEFINE r == rest \cup s
    <3>2. r \subseteq S  BY <2>1
    <3> HIDE DEF r
    <3>3. Summable(f, r)  BY <3>2, SummableParts
    <3>4. Summable(f, s) /\ F(t) \in Int  BY <2>1, SummableParts
    <3> QED  BY <3>1, <3>3, <3>4 DEF r
  <2>3. F(s) = f[x] + F(t)  BY <2>1, <2>2, SumOut
  <2>4. F(rest \cup s) = f[x] + F((rest \cup s) \ {x})
    <3> DEFINE r == rest \cup s
    <3>1. x \in r  BY <2>1
    <3> HIDE DEF r, x
    <3>2. Summable(f, r)  BY <2>2 DEF r
    <3>3. F(r) = f[x] + F(r \ {x})  BY <3>1, <3>2, SumOut
    <3> QED  BY <3>3 DEF r
  <2>5. (rest \cup s) \ {x} = rest \cup t  BY <2>1
  <2>6. F(rest \cup t) = F(t) + F(rest)
    <3>1. t \notin bad  BY <1>1, <2>1
    <3> QED  BY <2>1, <3>1
  <2>7. F(rest \cup s) = F(s) + F(rest)
    <3> DEFINE Frest == F(rest)
               Ft == F(t)
               fx == f[x]
               Fs == F(s)
               Fall == F(rest \cup s)
    <3>1. Frest \in Int /\ Ft \in Int /\ fx \in Int  BY <1>2, <2>2
    <3>2. Fs = fx + Ft /\ Fall = fx + (Ft + Frest)  BY <2>3, <2>4, <2>5, <2>6
    <3> HIDE DEF Frest, Ft, fx, Fs, Fall
    <3>3. Fall = Fs + Frest  BY <3>1, <3>2
    <3> QED  BY <3>3 DEF Fall, Fs, Frest
  <2> QED  BY <1>1, <2>7
<1> QED  BY <1>3, <1>4

\* Parts that are no part of one another, and the sum of their sums.
LEMMA SumOfParts ==
  ASSUME NEW f, NEW g, NEW S, NEW T, Summable(f, S), Summable(g, T), NEW part,
         \A t \in T : part[t] \subseteq S /\ g[t] = SumFunctionOnSet(f, part[t]),
         \A t, u \in T : t # u => part[t] \cap part[u] = {},
         \A x \in S : \E t \in T : x \in part[t]
  PROVE  SumFunctionOnSet(f, S) = SumFunctionOnSet(g, T)
<1> DEFINE F(s) == SumFunctionOnSet(f, s)
           G(u) == SumFunctionOnSet(g, u)
           all(u) == UNION {part[t] : t \in u}
           bad == {u \in SUBSET T : F(all(u)) # G(u)}
<1> SUFFICES ASSUME bad # {}  PROVE FALSE
  <2> SUFFICES ASSUME F(S) # G(T)  PROVE T \in bad  OBVIOUS
  <2>1. all(T) = S  OBVIOUS
  <2> QED  BY <2>1
<1>1. PICK u \in bad : /\ IsFiniteSet(u) /\ (u = {} \/ Chosen(u) \in u)
                       /\ \A t \in u : u \ {t} \notin bad
  <2>1. bad \in SUBSET (SUBSET T) /\ IsFiniteSet(T)  BY DEF Summable
  <2> HIDE DEF bad
  <2> QED  BY <2>1, LeastSet
<1>2. CASE u = {}
  <2>1. all(u) = {}  BY <1>2
  <2>2. F(all(u)) = 0 /\ G(u) = 0  BY <1>2, <2>1, SumOfNothing
  <2> QED  BY <1>1, <2>2
<1>3. CASE u # {}
  <2> DEFINE t == Chosen(u)
             v == u \ {t}
  <2>1. t \in u /\ v \in SUBSET T /\ u \in SUBSET T /\ t \in T  BY <1>1, <1>3
  <2>2. Summable(g, u)  BY <2>1, SummableParts
  <2>3. G(u) = g[t] + G(v)  BY <2>1, <2>2, SumOut
  <2>4. F(all(v)) = G(v)
    <3>1. v \notin bad  BY <1>1, <2>1
    <3> QED  BY <2>1, <3>1
  <2>5. all(u) \subseteq S /\ part[t] \subseteq all(u) /\ all(u) \ part[t] = all(v)
    <3>1. \A w \in v : part[t] \cap part[w] = {}  BY <2>1
    <3>2. u = v \cup {t}  BY <2>1
    <3>3. all(u) = all(v) \cup part[t]  BY <3>2
    <3>4. all(u) \subseteq S  BY <2>1
    <3>5. all(v) \cap part[t] = {}  BY <3>1
    <3> HIDE DEF all
    <3> QED  BY <3>3, <3>4, <3>5
  <2>6. F(all(u)) = F(part[t]) + F(all(v))
    <3>1. Summable(f, all(u))  BY <2>5, SummableParts
    <3> HIDE DEF all, t, v
    <3>2. F(all(u)) = F(part[t]) + F(all(u) \ part[t])  BY <2>5, <3>1, SumSplit
    <3> QED  BY <2>5, <3>2
  <2>7. F(part[t]) = g[t]  BY <2>1
  <2> HIDE DEF F, G, all
  <2> QED  BY <1>1, <2>3, <2>4, <2>6, <2>7 DEF F, G, all
<1> QED  BY <1>2, <1>3

\* A sum of multiples is one.
LEMMA SumOfMultiples ==
  ASSUME NEW f, NEW S, Summable(f, S), NEW k \in Nat \ {0}, \A x \in S : \E n \in Int : f[x] = k * n
  PROVE  \E n \in Int : SumFunctionOnSet(f, S) = k * n
<1> DEFINE g == [x \in S |-> CHOOSE n \in Int : f[x] = k * n]
<1>1. \A x \in S : g[x] \in Int /\ f[x] = k * g[x]  OBVIOUS
<1>2. Summable(g, S)  BY <1>1 DEF Summable
<1> HIDE DEF g
<1>3. SumFunctionOnSet(f, S) = k * SumFunctionOnSet(g, S)  BY <1>1, <1>2, SumScale
<1>4. SumFunctionOnSet(g, S) \in Int  BY <1>2, SummableParts
<1> QED  BY <1>3, <1>4

\* Induction over a finite set, an element at a time.
LEMMA SetInduction ==
  ASSUME NEW S, IsFiniteSet(S), NEW good, {} \in good,
         \A s \in SUBSET S : \A x \in s : s \ {x} \in good => s \in good
  PROVE  \A s \in SUBSET S : s \in good
<1> DEFINE bad == {s \in SUBSET S : s \notin good}
<1> SUFFICES ASSUME bad # {}  PROVE FALSE  OBVIOUS
<1>1. PICK s \in bad : /\ s = {} \/ Chosen(s) \in s
                       /\ \A x \in s : s \ {x} \notin bad
  <2>1. bad \in SUBSET (SUBSET S)  OBVIOUS
  <2> HIDE DEF bad
  <2> QED  BY <2>1, LeastSet
<1>2. s # {} /\ s \in SUBSET S  BY <1>1
<1>3. Chosen(s) \in s /\ s \ {Chosen(s)} \in SUBSET S  BY <1>1, <1>2
<1>4. s \ {Chosen(s)} \in good  BY <1>1, <1>3
<1>5. s \in good  BY <1>2, <1>3, <1>4
<1> QED  BY <1>1, <1>5

\* Sums of natural numbers are none less than a part of them.
LEMMA SumOfNaturals ==
  ASSUME NEW f, NEW S, IsFiniteSet(S), \A x \in S : f[x] \in Nat
  PROVE  /\ Summable(f, S) /\ SumFunctionOnSet(f, S) \in Nat
         /\ \A x \in S : f[x] <= SumFunctionOnSet(f, S)
<1>1. Summable(f, S)  BY DEF Summable
<1> DEFINE good == {s \in SUBSET S : SumFunctionOnSet(f, s) \in Nat}
<1>2. {} \in good  BY SumOfNothing
<1>3. ASSUME NEW s \in SUBSET S, NEW x \in s, s \ {x} \in good  PROVE s \in good
  <2>1. Summable(f, s)  BY <1>1, SummableParts
  <2>2. SumFunctionOnSet(f, s) = f[x] + SumFunctionOnSet(f, s \ {x})  BY <2>1, SumOut
  <2>3. f[x] \in Nat /\ SumFunctionOnSet(f, s \ {x}) \in Nat  BY <1>3
  <2> QED  BY <2>2, <2>3
<1>4. \A s \in SUBSET S : s \in good
  <2> HIDE DEF good
  <2> QED  BY <1>2, <1>3, SetInduction
<1>5. ASSUME NEW x \in S  PROVE f[x] <= SumFunctionOnSet(f, S)
  <2>1. SumFunctionOnSet(f, S) = f[x] + SumFunctionOnSet(f, S \ {x})  BY <1>1, SumOut
  <2>2. f[x] \in Nat /\ SumFunctionOnSet(f, S \ {x}) \in Nat  BY <1>4
  <2> QED  BY <2>1, <2>2
<1>6. SumFunctionOnSet(f, S) \in Nat  BY <1>4
<1> QED  BY <1>1, <1>5, <1>6

\* Two sums added are the sum of what is added.
LEMMA SumAdd ==
  ASSUME NEW f, NEW g, NEW h, NEW S, Summable(f, S), Summable(g, S), \A x \in S : h[x] = f[x] + g[x]
  PROVE  /\ Summable(h, S)
         /\ SumFunctionOnSet(h, S) = SumFunctionOnSet(f, S) + SumFunctionOnSet(g, S)
<1>1. Summable(h, S) /\ IsFiniteSet(S)  BY DEF Summable
<1> DEFINE good == {s \in SUBSET S : SumFunctionOnSet(h, s)
                                       = SumFunctionOnSet(f, s) + SumFunctionOnSet(g, s)}
<1>2. {} \in good  BY SumOfNothing
<1>3. ASSUME NEW s \in SUBSET S, NEW x \in s, s \ {x} \in good  PROVE s \in good
  <2> DEFINE F == SumFunctionOnSet(f, s \ {x})
             G == SumFunctionOnSet(g, s \ {x})
             H == SumFunctionOnSet(h, s \ {x})
  <2>1. Summable(f, s) /\ Summable(g, s) /\ Summable(h, s) /\ F \in Int /\ G \in Int
    BY <1>1, SummableParts
  <2>2. /\ SumFunctionOnSet(f, s) = f[x] + F /\ SumFunctionOnSet(g, s) = g[x] + G
        /\ SumFunctionOnSet(h, s) = h[x] + H
    BY <2>1, SumOut
  <2>3. f[x] \in Int /\ g[x] \in Int /\ h[x] = f[x] + g[x] /\ H = F + G  BY <1>3 DEF Summable
  <2> HIDE DEF F, G, H
  <2> QED  BY <2>1, <2>2, <2>3
<1> HIDE DEF good
<1>4. \A s \in SUBSET S : s \in good  BY <1>1, <1>2, <1>3, SetInduction
<1> QED  BY <1>1, <1>4 DEF good

\* A sum of more is no less.
LEMMA SumGrows ==
  ASSUME NEW f, NEW g, NEW S, Summable(f, S), Summable(g, S), \A x \in S : f[x] <= g[x]
  PROVE  SumFunctionOnSet(f, S) <= SumFunctionOnSet(g, S)
<1> DEFINE h == [x \in S |-> g[x] - f[x]]
<1>1. \A x \in S : f[x] \in Int /\ g[x] \in Int  BY DEF Summable
<1>2. \A x \in S : h[x] \in Nat /\ g[x] = f[x] + h[x]  BY <1>1
<1>3. IsFiniteSet(S)  BY DEF Summable
<1> HIDE DEF h
<1>4. Summable(h, S) /\ SumFunctionOnSet(h, S) \in Nat  BY <1>2, <1>3, SumOfNaturals
<1>5. SumFunctionOnSet(g, S) = SumFunctionOnSet(f, S) + SumFunctionOnSet(h, S)
  BY <1>2, <1>4, SumAdd
<1>6. SumFunctionOnSet(f, S) \in Int  BY SummableParts
<1> QED  BY <1>4, <1>5, <1>6

-----------------------------------------------------------------------------
(* The types of the review.                                                 *)

ReviewTypes ==
  /\ day \in Calendar /\ StartDate <= day
  /\ series \in [DOMAIN Level -> SUBSET Calendar]
  /\ fundNavs \in [Shares -> SUBSET Calendar]
  /\ references \in SUBSET ReferenceDays
  /\ \A share \in Shares : fundNavs[share] \subseteq DOMAIN NavsPublished[share]

\* The rows are typed when the review starts ...
LEMMA ReviewTypesStart == ReviewInit => ReviewTypes
<1>1. StartDate \in Nat  BY ReviewAssumption
<1> QED  BY <1>1, ReviewAssumption DEF ReviewInit, ReviewTypes, Shares

\* ... and every stage, import and day keeps them so.
LEMMA ReviewTypesStay ==
  ASSUME ReviewTypes, [ReviewNext]_reviewVars
  PROVE  ReviewTypes'
<1>1. ASSUME NEW d \in Calendar, NEW name \in DOMAIN Level, PublishClose(name, d)
      PROVE  ReviewTypes'
  BY <1>1 DEF PublishClose, ReviewTypes
<1>2. ASSUME NEW d \in Calendar, NEW share \in Shares, StoreFundNav(share, d)
      PROVE  ReviewTypes'
  BY <1>2 DEF StoreFundNav, ReviewTypes
<1>3. ASSUME NEW d \in ReferenceDays, StoreReference(d)
      PROVE  ReviewTypes'
  BY <1>3 DEF StoreReference, ReviewTypes
<1>4. CASE DayPasses
  <2>1. day \in Nat /\ StartDate \in Nat  BY ReviewAssumption DEF ReviewTypes
  <2> QED  BY <1>4, <2>1 DEF DayPasses, ReviewTypes
<1>5. CASE UNCHANGED reviewVars  BY <1>5 DEF reviewVars, ReviewTypes
<1> QED  BY <1>1, <1>2, <1>3, <1>4, <1>5 DEF ReviewNext

-----------------------------------------------------------------------------
(* The days of a request.                                                   *)

\* A request is of a day from which two weekdays can be counted back.
RequestDays == {e \in Calendar : StartDate <= e}

\* The weekday such a request counts back from.
Displayed(e) == Max({d \in Valued : d <= e})

\* A request of e displays the last weekday up to e, and compares with the one before.
LEMMA Display ==
  ASSUME NEW e \in RequestDays
  PROVE  /\ Displayed(e) \in Valued /\ Displayed(e) <= e
         /\ \A d \in Valued : d <= e => d <= Displayed(e)
         /\ LatestComparable(e) \in Valued /\ LatestComparable(e) < Displayed(e)
         /\ \A d \in Valued : d < Displayed(e) => d <= LatestComparable(e)
<1>1. PICK a, b \in Valued : a < b /\ b <= StartDate
  BY ReviewAssumption DEF Valued
<1>2. Valued \subseteq Nat /\ e \in Nat /\ StartDate \in Nat /\ StartDate <= e
  BY ReviewAssumption DEF Valued, RequestDays
<1> DEFINE upTo == {d \in Valued : d <= e}
           display == Max(upTo)
           before == {d \in Valued : d < display}
<1>3. upTo \in SUBSET Nat /\ b \in upTo /\ \A d \in upTo : d <= e
  <2>1. b <= e  BY <1>1, <1>2 DEF Valued
  <2> QED  BY <1>1, <1>2, <2>1
<1>4. display \in upTo /\ \A d \in upTo : d <= display
  <2> HIDE DEF upTo
  <2>1. upTo # {}  BY <1>3
  <2> QED  BY <1>2, <1>3, <2>1, LastDay
<1>5. before \in SUBSET Nat /\ a \in before /\ \A d \in before : d <= display
  <2> HIDE DEF display
  <2>1. display \in Valued /\ b <= display  BY <1>3, <1>4
  <2>2. a < display /\ \A d \in Valued : d < display => d <= display  BY <1>1, <1>2, <2>1
  <2> QED  BY <1>1, <1>2, <2>2
<1>6. Max(before) \in before /\ \A d \in before : d <= Max(before)
  <2> HIDE DEF before
  <2>1. before # {} /\ display \in Nat  BY <1>2, <1>4, <1>5
  <2> QED  BY <1>5, <2>1, LastDay
<1>7. LatestComparable(e) = Max(before)  BY DEF LatestComparable
<1>8. Displayed(e) = display  BY DEF Displayed
<1> QED  BY <1>4, <1>6, <1>7, <1>8

\* Later requests show later days; and the first that shows a weekday shows it last.
LEMMA ComparableGrows ==
  ASSUME NEW e \in RequestDays, NEW f \in RequestDays, e <= f
  PROVE  LatestComparable(e) <= LatestComparable(f)
<1>1. Valued \subseteq Nat /\ e \in Nat /\ f \in Nat
  BY ReviewAssumption DEF Valued, RequestDays
<1> DEFINE de == Displayed(e)
           df == Displayed(f)
<1>2. de \in Valued /\ de <= e /\ LatestComparable(e) \in Valued /\ LatestComparable(e) < de
  BY Display
<1>3. df \in Valued /\ (\A d \in Valued : d <= f => d <= df)
      /\ \A d \in Valued : d < df => d <= LatestComparable(f)
  BY Display
<1> HIDE DEF de, df
<1>4. de \in Nat /\ df \in Nat /\ LatestComparable(e) \in Nat  BY <1>1, <1>2, <1>3
<1>5. de <= df
  <2>1. de <= f  BY <1>1, <1>2, <1>4
  <2> QED  BY <1>2, <1>3, <2>1
<1>6. LatestComparable(e) < df  BY <1>2, <1>4, <1>5
<1> QED  BY <1>2, <1>3, <1>6

\* A day is shown first by a request of a day that came later than it, and no later than any
\* other request that shows it.
LEMMA ShownFirst ==
  ASSUME NEW request \in RequestDays, NEW d \in Calendar, StartDate <= d, d <= LatestComparable(request)
  PROVE  /\ FirstShown(d) \in RequestDays /\ FirstShown(d) <= request /\ d < FirstShown(d)
         /\ d <= LatestComparable(FirstShown(d))
         /\ d \in Valued => LatestComparable(FirstShown(d)) = d
<1> DEFINE days == {e \in Calendar : StartDate <= e /\ d <= LatestComparable(e)}
           first == Min(days)
<1>1. Calendar \subseteq Nat /\ Valued \subseteq Calendar  BY ReviewAssumption DEF Valued
<1>2. days \in SUBSET Nat /\ request \in days  BY <1>1 DEF RequestDays
<1>3. first \in days /\ \A e \in days : first <= e
  <2> HIDE DEF days
  <2>1. \E x \in days : \A y \in days : x =< y  BY <1>2, LeastNatural
  <2> QED  BY <2>1 DEF Min
<1>4. FirstShown(d) = first  BY DEF FirstShown
<1>5. first \in RequestDays /\ d <= LatestComparable(first)  BY <1>3 DEF RequestDays
<1> DEFINE display == Displayed(first)
<1>6. /\ display \in Valued /\ display <= first
      /\ LatestComparable(first) \in Valued /\ LatestComparable(first) < display
  BY <1>5, Display
<1>7. first \in Nat /\ d \in Nat /\ LatestComparable(first) \in Nat /\ display \in Nat /\ request \in Nat
  BY <1>1, <1>5, <1>6 DEF RequestDays
<1>8. d < first /\ first <= request
  <2> HIDE DEF first, display
  <2> QED  BY <1>2, <1>3, <1>5, <1>6, <1>7
<1>9. ASSUME d \in Valued, LatestComparable(first) # d  PROVE FALSE
  <2> DEFINE e == LatestComparable(first)
  <2>1. e \in Valued /\ d < e /\ e < first
    <3> HIDE DEF first, display
    <3> QED  BY <1>5, <1>6, <1>7, <1>9
  <2>2. e \in RequestDays
    <3> HIDE DEF first, display
    <3> QED  BY <1>1, <1>7, <2>1, ReviewAssumption DEF RequestDays
  <2> HIDE DEF e, display
  <2>3. /\ Displayed(e) \in Valued
        /\ \A x \in Valued : x <= e => x <= Displayed(e)
        /\ \A x \in Valued : x < Displayed(e) => x <= LatestComparable(e)
        /\ LatestComparable(e) \in Valued
    BY <2>2, Display
  <2>4. e <= Displayed(e)
    <3>1. e \in Nat /\ e <= e  BY <1>1, <2>1
    <3> QED  BY <2>1, <2>3, <3>1
  <2>5. d < Displayed(e)
    <3>1. e \in Nat /\ Displayed(e) \in Nat  BY <1>1, <2>1, <2>3
    <3> QED  BY <1>7, <2>1, <2>4, <3>1
  <2>6. d <= LatestComparable(e)
    <3>1. d \in Valued  BY <1>9
    <3> QED  BY <2>3, <2>5, <3>1
  <2>7. e \in days  BY <2>2, <2>6 DEF RequestDays
  <2>8. first <= e  BY <1>3, <2>7
  <2> HIDE DEF first
  <2> QED  BY <1>1, <1>7, <2>1, <2>8
<1> QED  BY <1>4, <1>5, <1>8, <1>9

-----------------------------------------------------------------------------
(* What a day is shown with depends on the rows up to it.                   *)

\* Two sets of days are the same up to d.
AreDays(S) == S \subseteq Nat
Same(S, T, d) == \A x \in Nat : x <= d => (x \in S <=> x \in T)

\* The close that is selected for a day is of the rows up to the day.
LEMMA SelectedIsOld ==
  ASSUME NEW S \in SUBSET Nat, NEW T \in SUBSET Nat, NEW d \in Nat, Same(S, T, d),
         NEW lag \in {0, 1}, NEW x \in Nat, x <= d
  PROVE  /\ Selected(S, lag, x) = Selected(T, lag, x)
         /\ Selected(S, lag, x) # None => Selected(S, lag, x) \in S /\ Selected(S, lag, x) <= x
<1> DEFINE s == {p \in S : p <= x - lag}
           t == {p \in T : p <= x - lag}
<1>1. s = t
  <2>1. \A p \in Nat : p <= x - lag => p <= d  OBVIOUS
  <2> QED  BY <2>1 DEF Same
<1>2. Selected(S, lag, x) = LastOf(s) /\ Selected(T, lag, x) = LastOf(t)  BY DEF Selected
<1>3. CASE s = {}
  <2>1. Selected(S, lag, x) = None  BY <1>2, <1>3 DEF LastOf
  <2> QED  BY <1>1, <1>2, <2>1
<1>4. CASE s # {}
  <2>1. s \in SUBSET Nat /\ \A p \in s : p <= x
    <3>1. lag = 0 \/ lag = 1  OBVIOUS
    <3>2. \A p \in Nat : p <= x - lag => p <= x  BY <3>1
    <3> QED  BY <3>2
  <2>2. Max(s) \in s
    <3> HIDE DEF s
    <3> QED  BY <1>4, <2>1, LastDay
  <2>3. Selected(S, lag, x) = Max(s)  BY <1>2, <1>4 DEF LastOf
  <2> HIDE DEF t
  <2>4. Max(s) \in S /\ Max(s) <= x  BY <2>1, <2>2
  <2> QED  BY <1>1, <1>2, <2>3, <2>4
<1> QED  BY <1>3, <1>4

\* The sessions a day's return lies between.
LEMMA SpanIsOld ==
  ASSUME NEW S, NEW T, NEW D, NEW E, AreDays(S), AreDays(T), AreDays(D), AreDays(E),
         NEW d \in Nat, Same(S, T, d), Same(D, E, d),
         NEW lag \in {0, 1}, NEW x \in Nat, x <= d
  PROVE  /\ Between(S, D, lag, x) = Between(T, E, lag, x)
         /\ Between(S, D, lag, x).to = Selected(S, lag, x)
         /\ \A p \in {Between(S, D, lag, x).from, Between(S, D, lag, x).to} \ {None} :
               p \in Nat /\ p <= x
         /\ \A e \in D : e < x /\ {Selected(S, lag, e), Selected(S, lag, x)} \cap {None} = {} =>
                /\ Between(S, D, lag, x).from # None
                /\ Selected(S, lag, e) <= Between(S, D, lag, x).from
<1> DEFINE before == {e \in D : e < x}
           earlier == {Selected(S, lag, e) : e \in before} \ {None}
           to == Selected(S, lag, x)
<1>0. S \subseteq Nat /\ T \subseteq Nat /\ D \subseteq Nat /\ E \subseteq Nat
  BY DEF AreDays
<1>1. before = {e \in E : e < x}
  <2>1. \A e \in Nat : e < x => e <= d  OBVIOUS
  <2> QED  BY <1>0, <2>1 DEF Same
<1>2. \A e \in Nat : e <= x =>
         /\ Selected(S, lag, e) = Selected(T, lag, e)
         /\ Selected(S, lag, e) # None => /\ Selected(S, lag, e) \in S
                                          /\ Selected(S, lag, e) \in Nat
                                          /\ Selected(S, lag, e) <= x
  <2> SUFFICES ASSUME NEW e \in Nat, e <= x
               PROVE  /\ Selected(S, lag, e) = Selected(T, lag, e)
                      /\ Selected(S, lag, e) # None => /\ Selected(S, lag, e) \in S
                                                       /\ Selected(S, lag, e) \in Nat
                                                       /\ Selected(S, lag, e) <= x
    OBVIOUS
  <2>1. e <= d  OBVIOUS
  <2>2. /\ Selected(S, lag, e) = Selected(T, lag, e)
        /\ Selected(S, lag, e) # None => Selected(S, lag, e) \in S /\ Selected(S, lag, e) <= e
    BY <1>0, <2>1, SelectedIsOld
  <2>3. ASSUME Selected(S, lag, e) # None  PROVE Selected(S, lag, e) \in Nat /\ Selected(S, lag, e) <= x
    <3> DEFINE p == Selected(S, lag, e)
    <3>1. p \in Nat /\ p <= e  BY <1>0, <2>2, <2>3
    <3> HIDE DEF p
    <3>2. p <= x  BY <3>1
    <3> QED  BY <3>1, <3>2 DEF p
  <2> QED  BY <1>0, <2>2, <2>3
<1>3. earlier = {Selected(T, lag, e) : e \in {e \in E : e < x}} \ {None}
  <2>1. \A e \in before : e \in Nat /\ e <= x  BY <1>0
  <2>2. \A e \in before : Selected(S, lag, e) = Selected(T, lag, e)  BY <1>2, <2>1
  <2> HIDE DEF before
  <2> QED  BY <1>1, <2>2
<1>4. \A p \in earlier : p \in Nat /\ p <= x
  <2> SUFFICES ASSUME NEW e \in before, Selected(S, lag, e) # None
               PROVE  Selected(S, lag, e) \in Nat /\ Selected(S, lag, e) <= x
    OBVIOUS
  <2>1. e \in Nat /\ e <= x  BY <1>0
  <2> QED  BY <1>2, <2>1
<1>5. earlier # {} => Max(earlier) \in earlier /\ \A p \in earlier : p <= Max(earlier)
  <2> HIDE DEF earlier
  <2> SUFFICES ASSUME earlier # {}  PROVE Max(earlier) \in earlier /\ \A p \in earlier : p <= Max(earlier)
    OBVIOUS
  <2>1. earlier \in SUBSET Nat /\ \A p \in earlier : p <= x  BY <1>4
  <2> QED  BY <2>1, LastDay
<1>6. to = Selected(T, lag, x) /\ (to # None => to \in Nat /\ to <= x)
  <2>1. x <= x  OBVIOUS
  <2> QED  BY <1>2, <2>1
<1>7. to # None => /\ {p \in S : p < to} = {p \in T : p < to}
                   /\ {p \in S : p < to} # {} => LastOf({p \in S : p < to}) \in Nat
                                                 /\ LastOf({p \in S : p < to}) <= x
  <2> SUFFICES ASSUME to # None
               PROVE  /\ {p \in S : p < to} = {p \in T : p < to}
                      /\ {p \in S : p < to} # {} => LastOf({p \in S : p < to}) \in Nat
                                                    /\ LastOf({p \in S : p < to}) <= x
    OBVIOUS
  <2>1. to \in Nat /\ to <= x  BY <1>6
  <2> HIDE DEF to
  <2>2. \A p \in Nat : p < to => p <= d /\ p <= x  BY <2>1
  <2>3. {p \in S : p < to} = {p \in T : p < to}  BY <1>0, <2>2 DEF Same
  <2> DEFINE older == {p \in S : p < to}
  <2>4. older \in SUBSET Nat /\ \A p \in older : p <= x  BY <1>0, <2>2
  <2>5. ASSUME older # {}  PROVE LastOf(older) \in Nat /\ LastOf(older) <= x
    <3> HIDE DEF older
    <3>1. Max(older) \in older  BY <2>4, <2>5, LastDay
    <3>2. LastOf(older) = Max(older)  BY <2>5 DEF LastOf
    <3> QED  BY <2>4, <3>1, <3>2
  <2> QED  BY <2>3, <2>5
<1>8. Between(S, D, lag, x) = Span(S, earlier, to)  BY DEF Between
<1>9. Between(T, E, lag, x) = Span(T, earlier, to)
  <2> HIDE DEF earlier, to
  <2> QED  BY <1>3, <1>6 DEF Between
<1>10. Span(S, earlier, to) = Span(T, earlier, to)
  <2> HIDE DEF earlier, to
  <2> QED  BY <1>7 DEF Span
<1>11. /\ Span(S, earlier, to).to = to
       /\ Span(S, earlier, to).from = IF to = None THEN None
                                      ELSE IF earlier # {} THEN Max(earlier)
                                      ELSE LastOf({p \in S : p < to})
  <2> HIDE DEF earlier, to
  <2> QED  BY DEF Span
<1>12. \A p \in {Span(S, earlier, to).from, Span(S, earlier, to).to} \ {None} : p \in Nat /\ p <= x
  <2>1. LastOf({}) = None  BY DEF LastOf
  <2> HIDE DEF earlier, to
  <2>2. earlier # {} => Max(earlier) \in Nat /\ Max(earlier) <= x  BY <1>4, <1>5
  <2> DEFINE from == Span(S, earlier, to).from
  <2>3. from # None => from \in Nat /\ from <= x
    <3> HIDE DEF from
    <3>1. CASE earlier # {}  BY <1>11, <2>2, <3>1 DEF from
    <3>2. CASE earlier = {}
      <4>1. CASE {p \in S : p < to} = {}  BY <1>11, <2>1, <3>2, <4>1 DEF from
      <4>2. CASE {p \in S : p < to} # {}  BY <1>7, <1>11, <3>2, <4>2 DEF from
      <4> QED  BY <4>1, <4>2
    <3> QED  BY <3>1, <3>2
  <2> QED  BY <1>6, <1>11, <2>3
<1>13. ASSUME NEW e \in D, e < x, Selected(S, lag, e) # None, to # None
       PROVE  /\ Span(S, earlier, to).from # None
              /\ Selected(S, lag, e) <= Span(S, earlier, to).from
  <2>1. Selected(S, lag, e) \in earlier  BY <1>13
  <2> HIDE DEF earlier, to
  <2>2. Span(S, earlier, to).from = Max(earlier)  BY <1>11, <1>13, <2>1
  <2>3. Max(earlier) \in Nat /\ Selected(S, lag, e) <= Max(earlier)  BY <1>4, <1>5, <2>1
  <2> QED  BY <2>2, <2>3, ReviewAssumption
<1> HIDE DEF earlier
<1> QED  BY <1>8, <1>9, <1>10, <1>11, <1>12, <1>13

-----------------------------------------------------------------------------

\* Two requests agree on what they read of the days up to d.
Agree(rows, asOf1, old, asOf2, share, d) ==
  /\ d <= asOf1 /\ d <= asOf2
  /\ \A name \in DOMAIN Level : Same(Points(rows, name, asOf1), Points(old, name, asOf2), d)
  /\ \A s \in Shares : Same(rows.navs[s], old.navs[s], d)
  /\ Same(ComparableNavs(rows, share, asOf1), ComparableNavs(old, share, asOf2), d)
  /\ Same(AnalysisDates(rows, share, asOf1), AnalysisDates(old, share, asOf2), d)

\* What a request reads.
IsRows(rows) ==
  /\ \A name \in DOMAIN Level : rows.series[name] \subseteq Calendar
  /\ \A s \in Shares : rows.navs[s] \subseteq Calendar

\* What a request reads are days of the calendar before its own.
LEMMA ReadDays ==
  ASSUME NEW rows, IsRows(rows), NEW share \in Shares, NEW request \in RequestDays
  PROVE  /\ \A name \in DOMAIN Level : Points(rows, name, request) \in SUBSET Nat
         /\ AnalysisDates(rows, share, request) \in SUBSET Nat
         /\ \A d \in AnalysisDates(rows, share, request) :
               d \in Calendar /\ StartDate <= d /\ d <= LatestComparable(request) /\ d < request
<1>1. Calendar \subseteq Nat /\ Valued \subseteq Calendar  BY ReviewAssumption DEF Valued
<1>2. \A name \in DOMAIN Level : Points(rows, name, request) \subseteq Calendar
  BY DEF IsRows, Points
<1>3. LatestComparable(request) \in Valued /\ LatestComparable(request) < request
  <2>1. /\ Displayed(request) \in Valued /\ Displayed(request) <= request
        /\ LatestComparable(request) \in Valued /\ LatestComparable(request) < Displayed(request)
    BY Display
  <2>2. Displayed(request) \in Nat /\ LatestComparable(request) \in Nat /\ request \in Nat
    BY <1>1, <2>1 DEF RequestDays
  <2> QED  BY <2>1, <2>2
<1>4. ASSUME NEW d \in AnalysisDates(rows, share, request)
      PROVE  d \in Calendar /\ StartDate <= d /\ d <= LatestComparable(request) /\ d < request
  <2>1. LatestComparable(request) \in Nat /\ request \in Nat /\ StartDate \in Nat
    BY <1>1, <1>3, ReviewAssumption DEF RequestDays
  <2>2. CASE d \in ComparableNavs(rows, share, request)
    <3>1. d \in Calendar /\ StartDate <= d /\ d <= LatestComparable(request)
      BY <2>2 DEF ComparableNavs, IsRows
    <3> QED  BY <1>1, <1>3, <2>1, <3>1
  <2>3. CASE d = LatestComparable(request) /\ d \in StartDate..request
    BY <1>1, <1>3, <2>1, <2>3
  <2> QED  BY <2>2, <2>3 DEF AnalysisDates
<1> QED  BY <1>1, <1>2, <1>4

\* The return between two days is of the rows up to the second.
LEMMA ReturnIsOld ==
  ASSUME NEW fx, NEW oldRates, NEW d \in Nat, Same(fx, oldRates, d),
         NEW name, NEW foreign,
         NEW between, \A p \in {between.from, between.to} \ {None} : p \in Nat /\ p <= d
  PROVE  Return(name, between, fx, foreign) = Return(name, between, oldRates, foreign)
<1>1. CASE None \in {between.from, between.to}  BY <1>1 DEF Return
<1>2. CASE None \notin {between.from, between.to}
  <2>1. {between.from, between.to} \subseteq fx <=> {between.from, between.to} \subseteq oldRates
    BY <1>2 DEF Same
  <2> QED  BY <2>1 DEF Return
<1> QED  BY <1>1, <1>2

\* A session is valued on its day or on the next.
LEMMA LagIsOneAtMost == \A policy, market : Lag(policy, market) \in {0, 1}
BY DEF Lag

\* So is the return that an item is predicted with ...
LEMMA AlignedIsOld ==
  ASSUME NEW rows, IsRows(rows), NEW old, IsRows(old), NEW share \in Shares,
         NEW a \in RequestDays, NEW b \in RequestDays, NEW d \in Nat,
         Agree(rows, a, old, b, share, d),
         NEW x \in Nat, x <= d, NEW item, item.series \in DOMAIN Level
  PROVE  Aligned(rows, share, a, item, x) = Aligned(old, share, b, item, x)
<1> DEFINE S == Points(rows, item.series, a)
           T == Points(old, item.series, b)
           D == AnalysisDates(rows, share, a)
           E == AnalysisDates(old, share, b)
           lag == Lag(FundOf(share).policy, item.market)
           foreign == item.currency # ShareOfFund[share].currency
           fx == Points(rows, "fx", a)
           oldFx == Points(old, "fx", b)
<1>1. AreDays(S) /\ AreDays(T) /\ AreDays(D) /\ AreDays(E)
  BY ReadDays DEF AreDays
<1>2. Same(S, T, d) /\ Same(D, E, d) /\ Same(fx, oldFx, d)
  <2>1. "fx" \in DOMAIN Level  BY NamesAssumption
  <2>2. \A name \in DOMAIN Level : Same(Points(rows, name, a), Points(old, name, b), d)
    BY DEF Agree
  <2>3. Same(D, E, d)  BY DEF Agree
  <2> QED  BY <2>1, <2>2, <2>3
<1>3. lag \in {0, 1}  BY LagIsOneAtMost
<1>4. /\ Aligned(rows, share, a, item, x) = Return(item.series, Between(S, D, lag, x), fx, foreign)
      /\ Aligned(old, share, b, item, x) = Return(item.series, Between(T, E, lag, x), oldFx, foreign)
  BY DEF Aligned
<1> HIDE DEF S, T, D, E, lag, foreign, fx, oldFx
<1> DEFINE between == Between(S, D, lag, x)
<1>5. /\ between = Between(T, E, lag, x)
      /\ \A p \in {between.from, between.to} \ {None} : p \in Nat /\ p <= x
  <2>1. between = Between(T, E, lag, x)  BY <1>1, <1>2, <1>3, SpanIsOld
  <2>2. \A p \in {between.from, between.to} \ {None} : p \in Nat /\ p <= x
    BY <1>1, <1>2, <1>3, SpanIsOld
  <2> QED  BY <2>1, <2>2
<1>6. \A p \in {between.from, between.to} \ {None} : p \in Nat /\ p <= d
  <2> HIDE DEF between
  <2>1. \A p \in Nat : p <= x => p <= d  OBVIOUS
  <2> QED  BY <1>5, <2>1
<1>7. Return(item.series, between, fx, foreign) = Return(item.series, between, oldFx, foreign)
  <2> HIDE DEF between
  <2> QED  BY <1>2, <1>6, ReturnIsOld
<1> QED  BY <1>4, <1>5, <1>7

\* The definition of a fund names series and shares that exist.
LEMMA FundsOfShares ==
  ASSUME NEW share \in Shares
  PROVE  /\ \A h \in FundOf(share).holdings : h.series \in DOMAIN Level \cup {None}
         /\ \A h \in FundOf(share).proxies : h.series \in DOMAIN Level
         /\ \A h \in FundOf(share).funds : h.share \in Shares \cup {None}
<1>1. ShareOfFund[share].fund \in DOMAIN Funds  BY NamesAssumption DEF Shares
<1> QED  BY <1>1, NamesAssumption DEF FundOf, Shares

\* ... so are the parts of a prediction ...
LEMMA PartsAreOld ==
  ASSUME NEW rows, IsRows(rows), NEW old, IsRows(old), NEW share \in Shares,
         NEW a \in RequestDays, NEW b \in RequestDays, NEW d \in Nat,
         Agree(rows, a, old, b, share, d), NEW x \in Nat, x <= d
  PROVE  Parts(rows, share, a, x) = Parts(old, share, b, x)
<1> DEFINE fund == FundOf(share)
           aligned(r, e, kind, items) ==
             {[kind |-> kind, of |-> h, weight |-> h.weight,
               return |-> Aligned(r, share, e, h, x)] : h \in items}
           held(r, e) ==
             {[kind |-> "fund", of |-> h, weight |-> h.weight,
               return |-> FundReturn(r, e, h, x)] : h \in fund.funds}
           listed == {h \in fund.holdings : h.series # None}
<1>1. ASSUME NEW kind, NEW items, \A h \in items : h.series \in DOMAIN Level
      PROVE  aligned(rows, a, kind, items) = aligned(old, b, kind, items)
  <2>1. \A h \in items : Aligned(rows, share, a, h, x) = Aligned(old, share, b, h, x)
    BY <1>1, AlignedIsOld
  <2> QED  BY <2>1
<1>2. ASSUME NEW h \in fund.funds
      PROVE  FundReturn(rows, a, h, x) = FundReturn(old, b, h, x)
  <2>1. h.share \in Shares \cup {None}  BY FundsOfShares
  <2>2. CASE h.share = None  BY <2>2 DEF FundReturn
  <2>3. CASE h.share \in Shares /\ h.share # None
    <3>1. x \in rows.navs[h.share] <=> x \in old.navs[h.share]
      <4>1. Same(rows.navs[h.share], old.navs[h.share], d)  BY <2>3 DEF Agree
      <4> QED  BY <4>1 DEF Same
    <3>2. x <= a /\ x <= b
      <4>1. d <= a /\ d <= b /\ a \in Nat /\ b \in Nat
        BY ReviewAssumption DEF Agree, RequestDays
      <4> QED  BY <4>1
    <3>3. ~(x > a) /\ ~(x > b)
      <4>1. a \in Nat /\ b \in Nat  BY ReviewAssumption DEF RequestDays
      <4> QED  BY <3>2, <4>1
    <3>4. Actual(h.share, rows.navs[h.share], x) = Actual(h.share, old.navs[h.share], x)
      BY <3>1 DEF Actual
    <3> QED  BY <3>3, <3>4 DEF FundReturn
  <2> QED  BY <2>1, <2>2, <2>3
<1>3. held(rows, a) = held(old, b)  BY <1>2
<1>4. /\ \A h \in listed : h.series \in DOMAIN Level
      /\ \A h \in fund.proxies : h.series \in DOMAIN Level
  BY FundsOfShares
<1>5. /\ aligned(rows, a, "holding", listed) = aligned(old, b, "holding", listed)
      /\ aligned(rows, a, "proxy", fund.proxies) = aligned(old, b, "proxy", fund.proxies)
  <2> HIDE DEF aligned, listed, fund
  <2> QED  BY <1>1, <1>4
<1>6. /\ Parts(rows, share, a, x) = aligned(rows, a, "holding", listed)
                   \cup aligned(rows, a, "proxy", fund.proxies) \cup held(rows, a)
      /\ Parts(old, share, b, x) = aligned(old, b, "holding", listed)
                   \cup aligned(old, b, "proxy", fund.proxies) \cup held(old, b)
  BY DEF Parts
<1> HIDE DEF aligned, held, listed, fund
<1> QED  BY <1>3, <1>5, <1>6

\* ... and the prediction with the NAV it is compared with.
LEMMA PointIsOld ==
  ASSUME NEW rows, IsRows(rows), NEW old, IsRows(old), NEW share \in Shares,
         NEW a \in RequestDays, NEW b \in RequestDays, NEW d \in Nat,
         Agree(rows, a, old, b, share, d), NEW x \in Nat, x <= d
  PROVE  Point(rows, share, a, x) = Point(old, share, b, x)
<1>1. Parts(rows, share, a, x) = Parts(old, share, b, x)  BY PartsAreOld
<1>2. x \in ComparableNavs(rows, share, a) <=> x \in ComparableNavs(old, share, b)
  BY DEF Agree, Same
<1>3. Actual(share, ComparableNavs(rows, share, a), x) = Actual(share, ComparableNavs(old, share, b), x)
  BY <1>2 DEF Actual
<1> QED  BY <1>1, <1>3 DEF Point

-----------------------------------------------------------------------------
(* The interval of a day, and the verdict.                                  *)

\* A table is the function it is a table of.
LEMMA TabulatedIsIt == \A f : Tabulated(f) = f
BY DEF Tabulated

\* The interval of a day is of the errors before it (portfolio_review).
LEMMA WidthIsOld ==
  ASSUME NEW p, NEW q, AreDays(DOMAIN p), AreDays(DOMAIN q), NEW d, d \in DOMAIN p,
         Same(DOMAIN p, DOMAIN q, d), \A x \in DOMAIN p : x <= d => p[x] = q[x]
  PROVE  HalfWidth(p, d) = HalfWidth(q, d)
<1> DEFINE D == DOMAIN p
           E == DOMAIN q
<1>1. D \subseteq Nat /\ E \subseteq Nat /\ d \in Nat  BY DEF AreDays
<1>2. {e \in Paired(p) : e < d} = {e \in Paired(q) : e < d}
  <2>1. \A e \in Nat : e < d => e <= d  BY <1>1
  <2> QED  BY <1>1, <2>1 DEF Paired, Same
<1>3. PriorResiduals(p, d) = PriorResiduals(q, d)  BY <1>2 DEF PriorResiduals
<1> DEFINE recent == PriorResiduals(p, d)
<1>4. \A e \in recent : p[e] = q[e]
  <2>1. recent \subseteq {e \in Paired(p) : e < d}
    <3> DEFINE older == {e \in Paired(p) : e < d}
    <3>1. recent = Newest(older, RecentResiduals)  BY DEF PriorResiduals
    <3> HIDE DEF older
    <3>2. Newest(older, RecentResiduals) \subseteq older  BY DEF Newest
    <3> QED  BY <3>1, <3>2 DEF older
  <2>2. \A e \in recent : e \in D /\ e \in Nat /\ e < d  BY <1>1, <2>1 DEF Paired
  <2>3. \A e \in Nat : e < d => e <= d  BY <1>1
  <2> HIDE DEF recent
  <2> QED  BY <2>2, <2>3
<1>5. [e \in recent |-> Magnitude(Residual(p, e))] = [e \in recent |-> Magnitude(Residual(q, e))]
  <2> HIDE DEF recent
  <2> QED  BY <1>4 DEF Residual
<1>6. p[d].missing = q[d].missing
  <2>1. d <= d  BY <1>1
  <2> QED  BY <2>1
<1> HIDE DEF recent
<1>7. PriorResiduals(p, d) = recent /\ PriorResiduals(q, d) = recent  BY <1>3 DEF recent
<1> QED  BY <1>5, <1>6, <1>7 DEF HalfWidth

\* What Predictions is, without the detour for TLC.
PointsOf(rows, share, request) ==
    [d \in AnalysisDates(rows, share, request) |-> Point(rows, share, request, d)]

\* What is shown of a day: the prediction, and the interval where there is one.
LEMMA PredictionsAre ==
  ASSUME NEW rows, NEW share, NEW request
  PROVE  /\ DOMAIN Predictions(rows, share, request) = AnalysisDates(rows, share, request)
         /\ \A d \in AnalysisDates(rows, share, request) :
               /\ Predictions(rows, share, request)[d].point = Point(rows, share, request, d)
               /\ Predictions(rows, share, request)[d].width =
                     IF Point(rows, share, request, d).predicted = None THEN None
                     ELSE HalfWidth(PointsOf(rows, share, request), d)
<1> DEFINE D == AnalysisDates(rows, share, request)
           points == PointsOf(rows, share, request)
<1>1. DOMAIN points = D /\ \A d \in D : points[d] = Point(rows, share, request, d)  BY DEF PointsOf
<1>2. Predictions(rows, share, request) = WithIntervals(points)
  BY TabulatedIsIt DEF Predictions, PointsOf
<1> HIDE DEF points, D
<1>3. WithIntervals(points) = [d \in D |->
                [point |-> points[d],
                 width |-> IF points[d].predicted = None THEN None ELSE HalfWidth(points, d)]]
  BY <1>1, TabulatedIsIt DEF WithIntervals
<1>4. /\ DOMAIN Predictions(rows, share, request) = D
      /\ \A d \in D :
            /\ Predictions(rows, share, request)[d].point = points[d]
            /\ Predictions(rows, share, request)[d].width =
                  IF points[d].predicted = None THEN None ELSE HalfWidth(points, d)
  <2> DEFINE all == Predictions(rows, share, request)
             width(d) == IF points[d].predicted = None THEN None ELSE HalfWidth(points, d)
  <2>1. all = [d \in D |-> [point |-> points[d], width |-> width(d)]]  BY <1>2, <1>3
  <2> HIDE DEF all, width
  <2>2. DOMAIN all = D /\ \A d \in D : all[d] = [point |-> points[d], width |-> width(d)]  BY <2>1
  <2>3. \A d \in D : all[d].point = points[d] /\ all[d].width = width(d)  BY <2>2
  <2> QED  BY <2>2, <2>3 DEF all, width
<1>5. \A d \in D :
            /\ Predictions(rows, share, request)[d].point = Point(rows, share, request, d)
            /\ Predictions(rows, share, request)[d].width =
                  IF Point(rows, share, request, d).predicted = None THEN None ELSE HalfWidth(points, d)
  BY <1>1, <1>4
<1> QED  BY <1>4, <1>5 DEF points, D

\* Two requests that agree up to a day show the same of it.
LEMMA PredictionIsOld ==
  ASSUME NEW rows, IsRows(rows), NEW old, IsRows(old), NEW share \in Shares,
         NEW a \in RequestDays, NEW b \in RequestDays, NEW d \in Nat,
         Agree(rows, a, old, b, share, d), d \in AnalysisDates(rows, share, a)
  PROVE  /\ d \in AnalysisDates(old, share, b)
         /\ Predictions(old, share, b)[d].point = Predictions(rows, share, a)[d].point
         /\ Predictions(old, share, b)[d].width = Predictions(rows, share, a)[d].width
<1> DEFINE D == AnalysisDates(rows, share, a)
           E == AnalysisDates(old, share, b)
           p == PointsOf(rows, share, a)
           q == PointsOf(old, share, b)
<1>1. AreDays(D) /\ AreDays(E) /\ Same(D, E, d)  BY ReadDays DEF AreDays, Agree
<1>2. d \in E
  <2>1. d <= d  OBVIOUS
  <2> QED  BY <1>1, <2>1 DEF Same
<1>3. /\ DOMAIN p = D /\ DOMAIN q = E
      /\ \A x \in D : p[x] = Point(rows, share, a, x)
      /\ \A x \in E : q[x] = Point(old, share, b, x)
  BY DEF PointsOf
<1>4. \A x \in D : x <= d => x \in E /\ Point(rows, share, a, x) = Point(old, share, b, x)
  <2> SUFFICES ASSUME NEW x \in D, x <= d
               PROVE  x \in E /\ Point(rows, share, a, x) = Point(old, share, b, x)
    OBVIOUS
  <2>1. x \in Nat  BY <1>1 DEF AreDays
  <2>2. x \in E  BY <1>1, <2>1 DEF Same
  <2>3. Point(rows, share, a, x) = Point(old, share, b, x)  BY <2>1, PointIsOld
  <2> QED  BY <2>2, <2>3
<1>5. Point(rows, share, a, d) = Point(old, share, b, d)
  <2>1. d <= d  OBVIOUS
  <2> QED  BY <1>4, <2>1
<1>6. HalfWidth(p, d) = HalfWidth(q, d)
  <2> HIDE DEF p, q
  <2>1. \A x \in DOMAIN p : x <= d => p[x] = q[x]  BY <1>3, <1>4
  <2>2. AreDays(DOMAIN p) /\ AreDays(DOMAIN q) /\ Same(DOMAIN p, DOMAIN q, d) /\ d \in DOMAIN p
    BY <1>1, <1>3
  <2> QED  BY <2>1, <2>2, WidthIsOld
<1>7. /\ Predictions(rows, share, a)[d].point = Point(rows, share, a, d)
      /\ Predictions(rows, share, a)[d].width =
             IF Point(rows, share, a, d).predicted = None THEN None ELSE HalfWidth(p, d)
  BY PredictionsAre
<1>8. /\ Predictions(old, share, b)[d].point = Point(old, share, b, d)
      /\ Predictions(old, share, b)[d].width =
             IF Point(old, share, b, d).predicted = None THEN None ELSE HalfWidth(q, d)
  BY <1>2, PredictionsAre
<1> HIDE DEF p, q
<1> QED  BY <1>2, <1>5, <1>6, <1>7, <1>8

-----------------------------------------------------------------------------
(* The request that shows a day first.                                      *)

\* The request that shows a day first agrees with each that shows it later.
LEMMA FirstRequestAgrees ==
  ASSUME NEW rows, IsRows(rows), NEW old, IsRows(old), NEW share \in Shares,
         NEW request \in RequestDays, NEW d, d \in AnalysisDates(rows, share, request),
         \A name \in DOMAIN Level : Same(rows.series[name], old.series[name], d),
         \A s \in Shares : Same(rows.navs[s], old.navs[s], d)
  PROVE  /\ d \in Nat /\ FirstShown(d) \in RequestDays /\ FirstShown(d) <= request
         /\ Agree(rows, request, old, FirstShown(d), share, d)
<1> DEFINE first == FirstShown(d)
           newest == LatestComparable(request)
           thenNewest == LatestComparable(first)
<1>1. d \in Calendar /\ StartDate <= d /\ d <= newest /\ d < request  BY ReadDays
<1>2. /\ first \in RequestDays /\ first <= request /\ d < first /\ d <= thenNewest
      /\ d \in Valued => thenNewest = d
  BY <1>1, ShownFirst
<1>3. newest \in Valued /\ thenNewest \in Valued  BY <1>2, Display
<1>4. /\ d \in Nat /\ request \in Nat /\ first \in Nat /\ newest \in Nat /\ thenNewest \in Nat
      /\ StartDate \in Nat
  BY <1>1, <1>2, <1>3, ReviewAssumption DEF RequestDays, Valued
<1> HIDE DEF first, newest, thenNewest
<1>5. \A x \in Nat : x <= d => x <= request /\ x <= first /\ x <= newest /\ x <= thenNewest
  BY <1>1, <1>2, <1>4
<1>6. \A name \in DOMAIN Level : Same(Points(rows, name, request), Points(old, name, first), d)
  BY <1>5 DEF Points, Same
<1>7. Same(ComparableNavs(rows, share, request), ComparableNavs(old, share, first), d)
  <2>1. Same(rows.navs[share], old.navs[share], d)  OBVIOUS
  <2> QED  BY <1>5, <2>1 DEF ComparableNavs, Same, newest, thenNewest
<1>8. Same(AnalysisDates(rows, share, request), AnalysisDates(old, share, first), d)
  <2> DEFINE D == AnalysisDates(rows, share, request)
             E == AnalysisDates(old, share, first)
             seen == ComparableNavs(rows, share, request)
             thenNavs == ComparableNavs(old, share, first)
  <2>1. D = seen \cup ({newest} \cap (StartDate..request))  BY DEF AnalysisDates, newest
  <2>2. E = thenNavs \cup ({thenNewest} \cap (StartDate..first))
    BY DEF AnalysisDates, thenNewest
  <2>3. \A x \in Nat : x <= d => (x \in seen <=> x \in thenNavs)  BY <1>7 DEF Same
  <2>4. d \in D  OBVIOUS
  <2> HIDE DEF D, E, seen, thenNavs
  <2>5. ASSUME NEW x \in Nat, x <= d, x \in D  PROVE x \in E
    <3>1. CASE x \in seen  BY <2>2, <2>3, <2>5, <3>1
    <3>2. CASE x = newest
      <4>1. x = d  BY <1>1, <1>4, <2>5, <3>2
      <4>2. thenNewest = d  BY <1>2, <1>3, <3>2, <4>1
      <4>3. d \in StartDate..first  BY <1>1, <1>2, <1>4
      <4> QED  BY <2>2, <4>1, <4>2, <4>3
    <3> QED  BY <2>1, <2>5, <3>1, <3>2
  <2>6. ASSUME NEW x \in Nat, x <= d, x \in E  PROVE x \in D
    <3>1. CASE x \in thenNavs  BY <2>1, <2>3, <2>6, <3>1
    <3>2. CASE x = thenNewest
      <4>1. x = d  BY <1>2, <1>4, <2>6, <3>2
      <4> QED  BY <2>4, <4>1
    <3> QED  BY <2>2, <2>6, <3>1, <3>2
  <2> QED  BY <2>5, <2>6 DEF Same, D, E
<1>9. d <= request /\ d <= first  BY <1>1, <1>2, <1>4
<1>10. \A s \in Shares : Same(rows.navs[s], old.navs[s], d)  OBVIOUS
<1>11. Agree(rows, request, old, first, share, d)  BY <1>6, <1>7, <1>8, <1>9, <1>10 DEF Agree
<1> QED  BY <1>2, <1>4, <1>11 DEF first

\* The rows of today and the rows of a day are the same up to the day.
LEMMA RowsAreRows ==
  ASSUME ReviewTypes, NEW d
  PROVE  /\ IsRows(RowsRead) /\ IsRows(Until(d))
         /\ \A name \in DOMAIN Level : Same(RowsRead.series[name], Until(d).series[name], d)
         /\ \A s \in Shares : Same(RowsRead.navs[s], Until(d).navs[s], d)
<1>1. /\ RowsRead.series = series /\ RowsRead.navs = fundNavs
      /\ \A name \in DOMAIN Level : Until(d).series[name] = {e \in series[name] : e <= d}
      /\ \A s \in Shares : Until(d).navs[s] = {e \in fundNavs[s] : e <= d}
  BY DEF RowsRead, Until
<1>2. /\ \A name \in DOMAIN Level : series[name] \subseteq Calendar
      /\ \A s \in Shares : fundNavs[s] \subseteq Calendar
  BY DEF ReviewTypes
<1> QED  BY <1>1, <1>2 DEF IsRows, Same

\* A day is shown now as it was first.
LEMMA DayIsShownAsFirst ==
  ASSUME ReviewTypes, NEW share \in Shares, NEW d, d \in AnalysisDates(RowsRead, share, day)
  PROVE  /\ Predictions(Until(d), share, FirstShown(d))[d].point
              = Predictions(RowsRead, share, day)[d].point
         /\ Predictions(Until(d), share, FirstShown(d))[d].width
              = Predictions(RowsRead, share, day)[d].width
<1>1. day \in RequestDays  BY DEF ReviewTypes, RequestDays
<1>2. /\ IsRows(RowsRead) /\ IsRows(Until(d))
      /\ \A name \in DOMAIN Level : Same(RowsRead.series[name], Until(d).series[name], d)
      /\ \A s \in Shares : Same(RowsRead.navs[s], Until(d).navs[s], d)
  BY RowsAreRows
<1>3. /\ d \in Nat /\ FirstShown(d) \in RequestDays
      /\ Agree(RowsRead, day, Until(d), FirstShown(d), share, d)
  BY <1>1, <1>2, FirstRequestAgrees
<1> QED  BY <1>1, <1>2, <1>3, PredictionIsOld

\* No move of a price is counted for two days.
LEMMA MovesAreCountedOnce ==
  ASSUME NEW S, NEW D, AreDays(S), AreDays(D), NEW lag \in {0, 1}, NEW d \in D, NEW e \in D, d < e,
         Between(S, D, lag, d).from # None, Between(S, D, lag, e).from # None
  PROVE  Between(S, D, lag, d).to <= Between(S, D, lag, e).from
<1>1. d \in Nat /\ e \in Nat /\ e <= e /\ d <= d  BY DEF AreDays
<1>2. Same(S, S, e) /\ Same(D, D, e) /\ Same(S, S, d) /\ Same(D, D, d)  BY DEF Same
<1>3. /\ Between(S, D, lag, d).to = Selected(S, lag, d)
      /\ Between(S, D, lag, e).to = Selected(S, lag, e)
  BY <1>1, <1>2, SpanIsOld
<1>4. Between(S, D, lag, d).to # None /\ Between(S, D, lag, e).to # None
  BY DEF Between, Span
<1>5. {Selected(S, lag, d), Selected(S, lag, e)} \cap {None} = {}  BY <1>3, <1>4
<1>6. \A c \in D : c < e /\ {Selected(S, lag, c), Selected(S, lag, e)} \cap {None} = {} =>
                /\ Between(S, D, lag, e).from # None
                /\ Selected(S, lag, c) <= Between(S, D, lag, e).from
  BY <1>1, <1>2, SpanIsOld
<1> QED  BY <1>3, <1>5, <1>6

\* The verdict is of the days that have a NAV.
LEMMA VerdictIsOfNavs ==
  ASSUME NEW rows, NEW share, NEW request
  PROVE  Consistency(rows, share, request)
           = Verdict([d \in ComparableNavs(rows, share, request) |-> Point(rows, share, request, d)])
<1> DEFINE all == Predictions(rows, share, request)
           D == AnalysisDates(rows, share, request)
           seen == ComparableNavs(rows, share, request)
           newest == LatestComparable(request)
           observed == IF HasEstimate(rows, share, request) THEN DOMAIN all \ {newest} ELSE DOMAIN all
           point(d) == Point(rows, share, request, d)
<1>1. DOMAIN all = D /\ \A d \in D : all[d].point = point(d)  BY PredictionsAre
<1>2. D = seen \cup ({newest} \cap (StartDate..request))  BY DEF AnalysisDates
<1>3. HasEstimate(rows, share, request) <=> seen # D  BY DEF HasEstimate
<1>4. Consistency(rows, share, request) = Verdict([d \in observed |-> all[d].point])
  BY DEF Consistency
<1> HIDE DEF all, D, seen, newest, point
<1>5. observed = seen  BY <1>1, <1>2, <1>3
<1> HIDE DEF observed
<1>6. [d \in observed |-> all[d].point] = [d \in seen |-> point(d)]  BY <1>1, <1>2, <1>5
<1> QED  BY <1>4, <1>6 DEF seen, point

\* The verdict was the same when its last NAV was first shown.
LEMMA VerdictIsOld ==
  ASSUME ReviewTypes, NEW share \in Shares, ComparableNavs(RowsRead, share, day) # {}
  PROVE  Consistency(RowsRead, share, day)
           = Consistency(RowsRead, share, FirstShown(Max(ComparableNavs(RowsRead, share, day))))
<1> DEFINE seen == ComparableNavs(RowsRead, share, day)
           last == Max(seen)
           first == FirstShown(last)
           thenNavs == ComparableNavs(RowsRead, share, first)
<1>1. day \in RequestDays  BY DEF ReviewTypes, RequestDays
<1>2. IsRows(RowsRead)  BY RowsAreRows
<1>3. seen \subseteq AnalysisDates(RowsRead, share, day)  BY DEF AnalysisDates
<1>4. \A d \in seen : d \in Calendar /\ StartDate <= d /\ d <= LatestComparable(day) /\ d < day
  <2> HIDE DEF seen
  <2>1. \A d \in AnalysisDates(RowsRead, share, day) :
            d \in Calendar /\ StartDate <= d /\ d <= LatestComparable(day) /\ d < day
    BY <1>1, <1>2, ReadDays
  <2> QED  BY <1>3, <2>1
<1>5. last \in seen /\ \A d \in seen : d <= last
  <2>1. seen # {}  OBVIOUS
  <2> HIDE DEF seen
  <2>2. day \in Nat /\ \A d \in seen : d \in Nat /\ d <= day
    <3>1. day \in Nat /\ Calendar \subseteq Nat  BY <1>1, ReviewAssumption DEF RequestDays
    <3>2. ASSUME NEW d \in seen  PROVE d \in Nat /\ d <= day
      <4>1. d \in Calendar /\ d < day  BY <1>4
      <4> QED  BY <3>1, <4>1
    <3> QED  BY <3>1, <3>2
  <2>3. seen \in SUBSET Nat  BY <2>2
  <2> QED  BY <2>1, <2>2, <2>3, LastDay
<1>6. /\ last \in Nat /\ first \in RequestDays /\ first <= day
      /\ Agree(RowsRead, day, RowsRead, first, share, last)
  <2>1. last \in AnalysisDates(RowsRead, share, day)  BY <1>3, <1>5
  <2>2. /\ \A name \in DOMAIN Level : Same(RowsRead.series[name], RowsRead.series[name], last)
        /\ \A s \in Shares : Same(RowsRead.navs[s], RowsRead.navs[s], last)
    BY DEF Same
  <2> HIDE DEF last, seen
  <2> QED  BY <1>1, <1>2, <2>1, <2>2, FirstRequestAgrees
<1>7. last <= LatestComparable(first)
  <2>1. last \in Calendar /\ StartDate <= last /\ last <= LatestComparable(day)  BY <1>4, <1>5
  <2> HIDE DEF last, seen
  <2> QED  BY <1>1, <2>1, ShownFirst
<1>8. LatestComparable(first) <= LatestComparable(day)
  <2> HIDE DEF first
  <2> QED  BY <1>1, <1>6, ComparableGrows
<1>9. LatestComparable(first) \in Nat /\ LatestComparable(day) \in Nat
  <2> HIDE DEF first
  <2>1. LatestComparable(first) \in Valued /\ LatestComparable(day) \in Valued
    BY <1>1, <1>6, Display
  <2> QED  BY <2>1, ReviewAssumption DEF Valued
<1>10. thenNavs = seen
  <2> DEFINE newest == LatestComparable(day)
             thenNewest == LatestComparable(first)
             stored == RowsRead.navs[share]
  <2>1. seen = {d \in stored : StartDate <= d /\ d <= newest}  BY DEF ComparableNavs
  <2>2. thenNavs = {d \in stored : StartDate <= d /\ d <= thenNewest}  BY DEF ComparableNavs
  <2>3. stored \subseteq Nat  BY <1>2, ReviewAssumption DEF IsRows
  <2> HIDE DEF seen, thenNavs, last, first, newest, thenNewest, stored
  <2>4. last <= thenNewest /\ thenNewest <= newest /\ thenNewest \in Nat /\ newest \in Nat /\ last \in Nat
    BY <1>6, <1>7, <1>8, <1>9 DEF newest, thenNewest
  <2>5. ASSUME NEW d \in seen  PROVE d \in thenNavs
    <3>1. d \in Nat /\ d <= last  BY <1>5, <2>1, <2>3
    <3>2. d <= thenNewest  BY <2>4, <3>1
    <3> QED  BY <2>1, <2>2, <3>2
  <2>6. ASSUME NEW d \in thenNavs  PROVE d \in seen
    <3>1. d \in Nat /\ d <= thenNewest  BY <2>2, <2>3
    <3>2. d <= newest  BY <2>4, <3>1
    <3> QED  BY <2>1, <2>2, <3>2
  <2> QED  BY <2>5, <2>6
<1>11. \A d \in seen : Point(RowsRead, share, day, d) = Point(RowsRead, share, first, d)
  <2>1. \A d \in seen : d \in Nat /\ d <= last  BY <1>4, <1>5, ReviewAssumption
  <2> HIDE DEF seen, last, first
  <2> SUFFICES ASSUME NEW d \in seen
               PROVE  Point(RowsRead, share, day, d) = Point(RowsRead, share, first, d)
    OBVIOUS
  <2> QED  BY <1>1, <1>2, <1>6, <2>1, PointIsOld
<1>12. [d \in seen |-> Point(RowsRead, share, day, d)]
         = [d \in thenNavs |-> Point(RowsRead, share, first, d)]
  <2> HIDE DEF seen, thenNavs, first
  <2> QED  BY <1>10, <1>11
<1>13. /\ Consistency(RowsRead, share, day)
             = Verdict([d \in seen |-> Point(RowsRead, share, day, d)])
       /\ Consistency(RowsRead, share, first)
             = Verdict([d \in thenNavs |-> Point(RowsRead, share, first, d)])
  BY VerdictIsOfNavs
<1> QED  BY <1>12, <1>13

-----------------------------------------------------------------------------

\* The types are all that it takes to have no hindsight.
LEMMA TypedPastStandsStill == ReviewTypes => PastStandsStill
<1> SUFFICES ASSUME ReviewTypes, NEW share \in AnalysisTargets
             PROVE  LET all == Predictions(RowsRead, share, day)
                        navDays == ComparableNavs(RowsRead, share, day)
                    IN /\ \A d \in DOMAIN all :
                             LET then == Predictions(Until(d), share, FirstShown(d))[d]
                             IN /\ then.point = all[d].point /\ then.width = all[d].width
                                /\ all[d].point.actual # None => d \in navDays
                       /\ \A h \in {h \in FundOf(share).holdings : h.series # None} :
                             LET dates == DOMAIN all
                                 between == [d \in dates |->
                                     Between(Points(RowsRead, h.series, day), dates,
                                             Lag(FundOf(share).policy, h.market), d)]
                             IN \A d, e \in dates :
                                   /\ d < e
                                   /\ None \notin {between[d].from, between[e].from}
                                   /\ between[e].from # between[e].to
                                   => between[d].to <= between[e].from
                       /\ navDays # {} =>
                             Consistency(RowsRead, share, day)
                                 = Consistency(RowsRead, share, FirstShown(Max(navDays)))
  BY DEF PastStandsStill
<1> DEFINE all == Predictions(RowsRead, share, day)
           D == AnalysisDates(RowsRead, share, day)
           navDays == ComparableNavs(RowsRead, share, day)
<1>1. share \in Shares /\ day \in RequestDays /\ IsRows(RowsRead)
  BY ReviewAssumption, RowsAreRows DEF AnalysisTargets, Shares, ReviewTypes, RequestDays
<1>2. DOMAIN all = D  BY PredictionsAre
<1>3. ASSUME NEW d \in D
      PROVE  LET then == Predictions(Until(d), share, FirstShown(d))[d]
             IN /\ then.point = all[d].point /\ then.width = all[d].width
                /\ all[d].point.actual # None => d \in navDays
  <2>1. /\ Predictions(Until(d), share, FirstShown(d))[d].point = all[d].point
        /\ Predictions(Until(d), share, FirstShown(d))[d].width = all[d].width
    BY <1>1, DayIsShownAsFirst
  <2>2. all[d].point = Point(RowsRead, share, day, d)  BY PredictionsAre
  <2>3. Point(RowsRead, share, day, d).actual = Actual(share, navDays, d)  BY DEF Point
  <2>4. d \notin navDays => Actual(share, navDays, d) = None  BY DEF Actual
  <2> HIDE DEF all, navDays
  <2> QED  BY <2>1, <2>2, <2>3, <2>4
<1>4. ASSUME NEW h \in FundOf(share).holdings, h.series # None,
             NEW d \in D, NEW e \in D, d < e,
             Between(Points(RowsRead, h.series, day), D, Lag(FundOf(share).policy, h.market), d).from
               # None,
             Between(Points(RowsRead, h.series, day), D, Lag(FundOf(share).policy, h.market), e).from
               # None
      PROVE  Between(Points(RowsRead, h.series, day), D, Lag(FundOf(share).policy, h.market), d).to
               <= Between(Points(RowsRead, h.series, day), D, Lag(FundOf(share).policy, h.market), e).from
  <2> DEFINE S == Points(RowsRead, h.series, day)
             lag == Lag(FundOf(share).policy, h.market)
  <2>1. h.series \in DOMAIN Level  BY <1>1, <1>4, FundsOfShares
  <2>2. AreDays(S) /\ AreDays(D)  BY <1>1, <2>1, ReadDays DEF AreDays
  <2>3. lag \in {0, 1}  BY LagIsOneAtMost
  <2> HIDE DEF S, lag, D
  <2> QED  BY <1>4, <2>2, <2>3, MovesAreCountedOnce DEF S, lag
<1>5. navDays # {} => Consistency(RowsRead, share, day)
                        = Consistency(RowsRead, share, FirstShown(Max(navDays)))
  BY <1>1, VerdictIsOld
<1> HIDE DEF all, D, navDays
<1>6. \A d \in DOMAIN all :
         LET then == Predictions(Until(d), share, FirstShown(d))[d]
         IN /\ then.point = all[d].point /\ then.width = all[d].width
            /\ all[d].point.actual # None => d \in navDays
  BY <1>2, <1>3
<1>7. ASSUME NEW h \in {h \in FundOf(share).holdings : h.series # None}
      PROVE  LET dates == DOMAIN all
                 between == [d \in dates |->
                     Between(Points(RowsRead, h.series, day), dates,
                             Lag(FundOf(share).policy, h.market), d)]
             IN \A d, e \in dates :
                   /\ d < e
                   /\ None \notin {between[d].from, between[e].from}
                   /\ between[e].from # between[e].to
                   => between[d].to <= between[e].from
  <2> DEFINE S == Points(RowsRead, h.series, day)
             lag == Lag(FundOf(share).policy, h.market)
             between == [d \in D |-> Between(S, D, lag, d)]
  <2>1. \A d \in D : between[d] = Between(S, D, lag, d)  OBVIOUS
  <2>2. ASSUME NEW d \in D, NEW e \in D, d < e, None \notin {between[d].from, between[e].from}
        PROVE  between[d].to <= between[e].from
    <3>1. Between(S, D, lag, d).from # None /\ Between(S, D, lag, e).from # None  BY <2>1, <2>2
    <3>2. Between(S, D, lag, d).to <= Between(S, D, lag, e).from  BY <1>4, <2>2, <3>1
    <3> HIDE DEF between
    <3> QED  BY <2>1, <3>2
  <2> HIDE DEF S, lag, between
  <2>3. \A d, e \in D : /\ d < e
                        /\ None \notin {between[d].from, between[e].from}
                        /\ between[e].from # between[e].to
                        => between[d].to <= between[e].from
    BY <2>2
  <2> QED  BY <1>2, <2>3 DEF S, lag, between
<1> QED  BY <1>5, <1>6, <1>7 DEF all, navDays

\* For any funds, holdings, calendar and closes, and any stages and requests: of the rows
\* stored at any time, the prediction and the interval the review shows of a day are those
\* it computes from the rows of no later day, when no day to show was newer
\* (q2_analysis/portfolio_review.py); the verdict is that of the newest NAV's day; and no
\* move of a holding is counted twice.
THEOREM NoHindsight == ReviewSpec => []PastStandsStill
<1>1. ReviewInit => ReviewTypes  BY ReviewTypesStart
<1>2. ReviewTypes /\ [ReviewNext]_reviewVars => ReviewTypes'  BY ReviewTypesStay
<1>3. ReviewTypes => PastStandsStill  BY TypedPastStandsStill
<1> QED  BY <1>1, <1>2, <1>3, PTL DEF ReviewSpec

-----------------------------------------------------------------------------
(* Rounding.                                                                *)

\* What integer division leaves.
LEMMA Division ==
  ASSUME NEW a \in Int, NEW b \in Nat \ {0}
  PROVE  a \div b \in Int /\ b * (a \div b) <= a /\ a < b * (a \div b) + b
OBVIOUS

\* Rounded to d's multiples, a number moves by half of d at most.
LEMMA RoundedIsClose ==
  ASSUME NEW n \in Int, NEW d \in Nat \ {0}
  PROVE  LET q == RoundHalfUp(n, d)
         IN q \in Int /\ d * q \in Int /\ -d <= 2 * (d * q) - 2 * n /\ 2 * (d * q) - 2 * n <= d
<1>1. 2 * d \in Nat \ {0} /\ 2 * n + d \in Int /\ d - 2 * n \in Int  OBVIOUS
<1>2. CASE n >= 0
  <2> DEFINE q == (2 * n + d) \div (2 * d)
  <2>1. q \in Int /\ (2 * d) * q <= 2 * n + d /\ 2 * n + d < (2 * d) * q + 2 * d
    BY <1>1, Division
  <2>2. RoundHalfUp(n, d) = q  BY <1>2 DEF RoundHalfUp
  <2> HIDE DEF q
  <2>3. (2 * d) * q = 2 * (d * q) /\ d * q \in Int  BY <2>1
  <2> DEFINE dq == d * q
  <2>4. dq \in Int /\ 2 * dq <= 2 * n + d /\ 2 * n + d < 2 * dq + 2 * d  BY <2>1, <2>3
  <2> HIDE DEF dq
  <2>5. -d <= 2 * dq - 2 * n /\ 2 * dq - 2 * n <= d  BY <2>4
  <2> QED  BY <2>1, <2>2, <2>4, <2>5 DEF dq
<1>3. CASE ~(n >= 0)
  <2> DEFINE q == (d - 2 * n) \div (2 * d)
  <2>1. q \in Int /\ (2 * d) * q <= d - 2 * n /\ d - 2 * n < (2 * d) * q + 2 * d
    BY <1>1, Division
  <2>2. RoundHalfUp(n, d) = -q  BY <1>3 DEF RoundHalfUp
  <2> HIDE DEF q
  <2>3. (2 * d) * q = 2 * (d * q) /\ d * q \in Int /\ d * (-q) = -(d * q)  BY <2>1
  <2> DEFINE dq == d * q
  <2>4. dq \in Int /\ 2 * dq <= d - 2 * n /\ d - 2 * n < 2 * dq + 2 * d /\ d * (-q) = -dq
    BY <2>1, <2>3
  <2>5. -q \in Int  BY <2>1
  <2> HIDE DEF dq
  <2>6. -d <= 2 * (-dq) - 2 * n /\ 2 * (-dq) - 2 * n <= d /\ -dq \in Int  BY <2>4
  <2> QED  BY <2>2, <2>4, <2>5, <2>6
<1> QED  BY <1>2, <1>3

WholeCents(value) == \E q \in Int : value = Cent * q

\* An amount rounded to cents is whole cents, half a cent away at most.
LEMMA MoneyIsClose ==
  ASSUME NEW value \in Int
  PROVE  /\ Money(value) \in Int /\ WholeCents(Money(value))
         /\ -Cent <= 2 * Money(value) - 2 * value /\ 2 * Money(value) - 2 * value <= Cent
<1>1. Cent \in Nat \ {0}  BY ValuationAssumption
<1> DEFINE q == RoundHalfUp(value, Cent)
<1>2. q \in Int /\ Cent * q \in Int
      /\ -Cent <= 2 * (Cent * q) - 2 * value /\ 2 * (Cent * q) - 2 * value <= Cent
  BY <1>1, RoundedIsClose
<1>3. Money(value) = Cent * q  BY DEF Money
<1> HIDE DEF q
<1> QED  BY <1>2, <1>3 DEF WholeCents

\* Whole cents stay what they are.
LEMMA CentsAreNotRounded ==
  ASSUME NEW value \in Int, WholeCents(value)
  PROVE  Money(value) = value
<1>1. Cent \in Nat \ {0}  BY ValuationAssumption
<1>2. PICK q \in Int : value = Cent * q  BY DEF WholeCents
<1>3. PICK r \in Int : Money(value) = Cent * r  BY MoneyIsClose DEF WholeCents
<1>4. -Cent <= 2 * (Cent * r) - 2 * (Cent * q) /\ 2 * (Cent * r) - 2 * (Cent * q) <= Cent
  BY <1>2, <1>3, MoneyIsClose
<1>5. r = q
  <2> DEFINE k == r - q
             m == Cent * k
  <2>1. k \in Int /\ r = q + k  OBVIOUS
  <2>2. m \in Int /\ Cent * r = Cent * q + m /\ Cent * q \in Int
    <3> HIDE DEF k
    <3> QED  BY <1>1, <2>1, Distribute
  <2> DEFINE cq == Cent * q
             cr == Cent * r
  <2>3. cq \in Int /\ cr = cq + m /\ -Cent <= 2 * cr - 2 * cq /\ 2 * cr - 2 * cq <= Cent
    BY <1>4, <2>2
  <2>4. -Cent <= 2 * m /\ 2 * m <= Cent
    <3> HIDE DEF cq, cr, m
    <3> QED  BY <1>1, <2>2, <2>3
  <2>5. k >= 1 => m >= Cent  BY <1>1
  <2>6. k <= -1 => m <= -Cent  BY <1>1
  <2>7. k = 0
    <3> HIDE DEF m, k
    <3> QED  BY <1>1, <2>1, <2>2, <2>4, <2>5, <2>6
  <2> QED  BY <2>1, <2>7
<1> QED  BY <1>2, <1>3, <1>5

\* Whole cents add up to whole cents.
LEMMA SumsOfCents ==
  ASSUME NEW v \in Int, WholeCents(v), NEW w \in Int, WholeCents(w)
  PROVE  v + w \in Int /\ WholeCents(v + w)
<1>1. PICK q \in Int : v = Cent * q  BY DEF WholeCents
<1>2. PICK r \in Int : w = Cent * r  BY DEF WholeCents
<1>3. Cent \in Int  BY ValuationAssumption
<1>4. q + r \in Int /\ Cent * (q + r) = v + w  BY <1>1, <1>2, <1>3, Distribute
<1> QED  BY <1>4 DEF WholeCents

\* No remainder, and whole cents.
LEMMA Remainder ==
  ASSUME NEW v \in Int, v % Cent = 0
  PROVE  WholeCents(v)
<1>1. Cent \in Nat \ {0}  BY ValuationAssumption
<1>2. v = Cent * (v \div Cent) /\ v \div Cent \in Int  BY <1>1
<1> QED  BY <1>2 DEF WholeCents

\* The sum of a function is the sum over its domain of any that agrees with it.
LEMMA SumOver ==
  ASSUME NEW f, NEW S, DOMAIN f = S, IsFiniteSet(S), NEW g, \A x \in S : f[x] = g[x]
  PROVE  SumFunction(f) = SumFunctionOnSet(g, S)
<1>1. SumFunction(f) = SumFunctionOnSet(f, S)  BY DEF SumFunction
<1> QED  BY <1>1, SumCongruence

-----------------------------------------------------------------------------
(* What the rows are.                                                       *)

\* What the snapshot has of a position.
LEMMA PositionsAre ==
  ASSUME NEW p \in Positions
  PROVE  /\ Portfolio[p].units \in Int /\ Portfolio[p].market \in Int /\ Portfolio[p].profit \in Int
         /\ WholeCents(Portfolio[p].market) /\ WholeCents(Portfolio[p].profit)
         /\ Portfolio[p].anchorDay \in Days /\ Portfolio[p].anchorNav \in Nat \ {0}
         /\ Portfolio[p].currency \in {"CNY", "USD", "HKD"}
         /\ Portfolio[p].plan # None => Portfolio[p].plan.gross \in Nat /\ Portfolio[p].plan.net \in Nat
<1>1. p \in DOMAIN Portfolio  BY DEF Positions
<1> DEFINE position == Portfolio[p]
<1>2. /\ position.currency \in {"CNY", "USD", "HKD"}
      /\ position.units \in Nat \ {0} /\ position.market \in Nat \ {0} /\ position.profit \in Int
      /\ position.market % Cent = 0 /\ position.profit % Cent = 0
      /\ position.anchorDay \in Days /\ position.anchorNav \in Nat \ {0}
      /\ position.plan # None => position.plan.gross \in Nat \ {0} /\ position.plan.net \in Nat
  BY <1>1, PortfolioAssumption
<1> HIDE DEF position
<1>3. position.market \in Int /\ position.units \in Int  BY <1>2
<1>4. WholeCents(position.market) /\ WholeCents(position.profit)  BY <1>2, <1>3, Remainder
<1> QED  BY <1>2, <1>3, <1>4 DEF position

ValuationTypes ==
  /\ navs \in [Positions -> [Days -> (Nat \ {0}) \cup {None}]]
  /\ executions \in [Positions -> [Days -> [gross : Nat, units : Int] \cup {None}]]
  /\ pending \in [Positions -> SUBSET Days]
  /\ rates \in [RateDays -> Int \cup {None}]

\* Orders are placed after the snapshot, and executed at a NAV that is stored.
OrdersFollowTheSnapshot ==
  \A p \in Positions : \A d \in Days :
     /\ d \in pending[p] \/ executions[p][d] # None =>
           Portfolio[p].plan # None /\ d > Portfolio[p].anchorDay
     /\ executions[p][d] # None =>
           navs[p][d] # None /\ executions[p][d].gross = Portfolio[p].plan.gross

AnchorsStay == \A p \in Positions : navs[p][Portfolio[p].anchorDay] # None

ValuationInv == ValuationTypes /\ OrdersFollowTheSnapshot /\ AnchorsStay

\* The rows are typed when the valuation starts ...
LEMMA ValuationStarts == ValuationInit => ValuationInv
<1> SUFFICES ASSUME ValuationInit  PROVE ValuationInv  OBVIOUS
<1>1. ValuationTypes
  <2>1. \A p \in Positions : Portfolio[p].anchorNav \in Nat \ {0}  BY PositionsAre
  <2> QED  BY <2>1 DEF ValuationInit, ValuationTypes
<1>2. OrdersFollowTheSnapshot  BY DEF ValuationInit, OrdersFollowTheSnapshot
<1>3. AnchorsStay
  <2>1. \A p \in Positions : Portfolio[p].anchorDay \in Days /\ Portfolio[p].anchorNav # None
    BY PositionsAre, ValuationAssumption
  <2> QED  BY <2>1 DEF ValuationInit, AnchorsStay
<1> QED  BY <1>1, <1>2, <1>3 DEF ValuationInv

\* ... and every NAV, rate and settled order keeps them so.
LEMMA ValuationStays ==
  ASSUME ValuationInv, [ValuationNext]_valuationVars
  PROVE  ValuationInv'
<1>1. ASSUME NEW p \in Positions, NEW d \in Days, NEW value \in NavValues, StoreNav(p, d, value)
      PROVE  ValuationInv'
  <2>1. value \in Nat \ {0} /\ value # None  BY ValuationAssumption
  <2>2. \A q \in Positions : \A e \in Days :
           navs'[q][e] = IF q = p /\ e = d THEN value ELSE navs[q][e]
    BY <1>1 DEF StoreNav, ValuationInv, ValuationTypes
  <2>3. ValuationTypes'  BY <1>1, <2>1 DEF StoreNav, ValuationInv, ValuationTypes
  <2>4. OrdersFollowTheSnapshot'
    BY <1>1, <2>1, <2>2 DEF StoreNav, ValuationInv, OrdersFollowTheSnapshot
  <2>5. AnchorsStay'
    <3>1. \A q \in Positions : Portfolio[q].anchorDay \in Days  BY PositionsAre
    <3> QED  BY <2>1, <2>2, <3>1 DEF ValuationInv, AnchorsStay
  <2> QED  BY <2>3, <2>4, <2>5 DEF ValuationInv
<1>2. ASSUME NEW p \in Positions, NEW d \in Days, PlaceOrder(p, d)
      PROVE  ValuationInv'
  <2>1. ValuationTypes'  BY <1>2 DEF PlaceOrder, ValuationInv, ValuationTypes
  <2>2. OrdersFollowTheSnapshot'
    BY <1>2 DEF PlaceOrder, ValuationInv, ValuationTypes, OrdersFollowTheSnapshot
  <2>3. AnchorsStay'  BY <1>2 DEF PlaceOrder, ValuationInv, AnchorsStay
  <2> QED  BY <2>1, <2>2, <2>3 DEF ValuationInv
<1>3. ASSUME NEW p \in Positions, NEW d \in Days, SettleOrder(p, d)
      PROVE  ValuationInv'
  <2> DEFINE bought == [gross |-> Portfolio[p].plan.gross,
                        units |-> RoundHalfUp(Portfolio[p].plan.net, navs[p][d])]
  <2>1. Portfolio[p].plan # None /\ d > Portfolio[p].anchorDay /\ navs[p][d] # None
    BY <1>3 DEF SettleOrder, ValuationInv, OrdersFollowTheSnapshot
  <2>2. Portfolio[p].plan.gross \in Nat /\ Portfolio[p].plan.net \in Nat  BY <2>1, PositionsAre
  <2>3. bought.units \in Int
    <3>1. navs[p][d] \in Nat \ {0}  BY <2>1 DEF ValuationInv, ValuationTypes
    <3> DEFINE net == Portfolio[p].plan.net
               nav == navs[p][d]
    <3>2. net \in Int /\ nav \in Nat \ {0}  BY <2>2, <3>1
    <3> HIDE DEF net, nav
    <3>3. RoundHalfUp(net, nav) \in Int  BY <3>2, RoundedIsClose
    <3> QED  BY <3>3 DEF net, nav
  <2>4. bought \in [gross : Nat, units : Int] /\ bought.gross = Portfolio[p].plan.gross
    BY <2>2, <2>3
  <2>5. executions' = [executions EXCEPT ![p][d] = bought]  BY <1>3 DEF SettleOrder
  <2> HIDE DEF bought
  <2>6. \A q \in Positions : \A e \in Days :
           executions'[q][e] = IF q = p /\ e = d THEN bought ELSE executions[q][e]
    BY <2>5 DEF ValuationInv, ValuationTypes
  <2>7. \A q \in Positions : pending'[q] \subseteq pending[q]
    BY <1>3 DEF SettleOrder, ValuationInv, ValuationTypes
  <2>8. ValuationTypes'
    <3>1. executions' \in [Positions -> [Days -> [gross : Nat, units : Int] \cup {None}]]
      BY <2>4, <2>5 DEF ValuationInv, ValuationTypes
    <3>2. pending' \in [Positions -> SUBSET Days]
      BY <1>3 DEF SettleOrder, ValuationInv, ValuationTypes
    <3> QED  BY <1>3, <3>1, <3>2 DEF SettleOrder, ValuationInv, ValuationTypes
  <2>9. OrdersFollowTheSnapshot'
    <3>1. navs' = navs  BY <1>3 DEF SettleOrder
    <3> QED  BY <2>1, <2>4, <2>6, <2>7, <3>1 DEF ValuationInv, OrdersFollowTheSnapshot
  <2>10. AnchorsStay'  BY <1>3 DEF SettleOrder, ValuationInv, AnchorsStay
  <2> QED  BY <2>8, <2>9, <2>10 DEF ValuationInv
<1>4. ASSUME NEW d \in RateDays, NEW quote \in Quotes, StoreRate(d, quote.cny, quote.usd)
      PROVE  ValuationInv'
  <2>1. quote.cny \in Nat \ {0} /\ quote.usd \in Nat \ {0}  BY ValuationAssumption
  <2> DEFINE rate == (2 * quote.cny) \div quote.usd
  <2>2. rate \in Int
    <3>1. 2 * quote.cny \in Int  BY <2>1
    <3> QED  BY <2>1, <3>1, Division
  <2>3. rates' = [rates EXCEPT ![d] = rate]  BY <1>4 DEF StoreRate
  <2> HIDE DEF rate
  <2>4. ValuationTypes'  BY <1>4, <2>2, <2>3 DEF StoreRate, ValuationInv, ValuationTypes
  <2>5. OrdersFollowTheSnapshot' /\ AnchorsStay'
    BY <1>4 DEF StoreRate, ValuationInv, OrdersFollowTheSnapshot, AnchorsStay
  <2> QED  BY <2>4, <2>5 DEF ValuationInv
<1>5. CASE UNCHANGED valuationVars
  BY <1>5 DEF valuationVars, ValuationInv, ValuationTypes, OrdersFollowTheSnapshot, AnchorsStay
<1> QED  BY <1>1, <1>2, <1>3, <1>4, <1>5 DEF ValuationNext

\* A finite set of days has a last one.
LEMMA LastOfFinite ==
  ASSUME NEW S \in SUBSET Nat, IsFiniteSet(S), S # {}
  PROVE  Max(S) \in S /\ \A x \in S : x <= Max(S)
<1> DEFINE bad == {s \in SUBSET S : s # {} /\ \A x \in s : \E y \in s : ~(x >= y)}
<1>1. bad = {}
  <2> SUFFICES ASSUME bad # {}  PROVE FALSE  OBVIOUS
  <2>1. PICK s \in bad : (s = {} \/ Chosen(s) \in s) /\ \A x \in s : s \ {x} \notin bad
    <3>1. bad \in SUBSET (SUBSET S)  OBVIOUS
    <3> HIDE DEF bad
    <3> QED  BY <3>1, LeastSet
  <2> DEFINE x == Chosen(s)
             t == s \ {x}
  <2>2. x \in s /\ t \notin bad /\ s \subseteq S /\ x \in Nat  BY <2>1
  <2>3. CASE t = {}
    <3>1. \A y \in s : x >= y  BY <2>2, <2>3
    <3> QED  BY <2>2, <3>1
  <2>4. CASE t # {}
    <3>1. PICK m \in t : \A y \in t : m >= y  BY <2>2, <2>4
    <3>2. m \in Nat /\ \A y \in s : y \in Nat /\ (y = x \/ m >= y)  BY <2>2, <3>1
    <3>3. CASE m >= x  BY <2>2, <3>1, <3>2, <3>3
    <3>4. CASE x >= m
      <4>1. \A y \in s : x >= y
        <5> HIDE DEF x
        <5> QED  BY <2>2, <3>2, <3>4
      <4> QED  BY <2>2, <4>1
    <3> QED  BY <2>2, <3>2, <3>3, <3>4
  <2> QED  BY <2>3, <2>4
<1>2. \E x \in S : \A y \in S : x >= y  BY <1>1
<1>3. Max(S) \in S /\ \A y \in S : Max(S) >= y  BY <1>2 DEF Max
<1> QED  BY <1>3

-----------------------------------------------------------------------------
(* One position.                                                            *)

BoughtUnits(bought) == SumFunction([d \in Stored(bought) |-> bought[d].units])
BoughtGross(bought) == SumFunction([d \in Stored(bought) |-> bought[d].gross])
AreExecutions(bought) ==
    /\ IsFiniteSet(Stored(bought))
    /\ \A d \in Stored(bought) : bought[d].units \in Int /\ bought[d].gross \in Int

\* The profit, were nothing rounded.
ExactProfit(position, nav, bought) ==
    position.profit + position.units * (nav - position.anchorNav)
      + nav * BoughtUnits(bought) - BoughtGross(bought)

\* What was bought is a number of units for an amount.
LEMMA BoughtAre ==
  ASSUME NEW bought, AreExecutions(bought)
  PROVE  BoughtUnits(bought) \in Int /\ BoughtGross(bought) \in Int
<1> DEFINE S == Stored(bought)
           u == [d \in S |-> bought[d].units]
           g == [d \in S |-> bought[d].gross]
<1>1. IsFiniteSet(S) /\ (\A d \in S : u[d] \in Int) /\ (\A d \in S : g[d] \in Int)
      /\ DOMAIN u = S /\ DOMAIN g = S
  BY DEF AreExecutions
<1>2. BoughtUnits(bought) = SumFunction(u) /\ BoughtGross(bought) = SumFunction(g)
  BY DEF BoughtUnits, BoughtGross
<1> HIDE DEF S, u, g
<1>3. SumFunction(u) = SumFunctionOnSet(u, S) /\ SumFunction(g) = SumFunctionOnSet(g, S)
  BY <1>1, SumOver
<1> QED  BY <1>1, <1>2, <1>3, SumType

\* The profit is the exact one up to two roundings, three where amounts are no whole cents.
LEMMA ProfitIsClose ==
  ASSUME NEW p \in Positions, NEW navOf, NEW bought, AreExecutions(bought),
         Stored(navOf) # {}, NEW latest \in Nat, latest = Max(Stored(navOf)), navOf[latest] \in Nat
  PROVE  LET error == 2 * Valuation(Portfolio[p], navOf, bought).profit
                        - 2 * ExactProfit(Portfolio[p], navOf[latest], bought)
         IN /\ Valuation(Portfolio[p], navOf, bought).profit \in Int
            /\ ExactProfit(Portfolio[p], navOf[latest], bought) \in Int
            /\ -(3 * Cent) <= error /\ error <= 3 * Cent
            /\ WholeCents(BoughtGross(bought)) => -(2 * Cent) <= error /\ error <= 2 * Cent
<1> DEFINE position == Portfolio[p]
           nav == navOf[latest]
           U == BoughtUnits(bought)
           G == BoughtGross(bought)
           b == position.units * (nav - position.anchorNav)
           r == nav * U
           B == Money(b)
           R == Money(r)
           M == Money(R - G)
           P == position.profit
           profit == Money(Money(P + B) + M)
<1>1. Valuation(position, navOf, bought).profit = profit
  <2>1. latest # None  BY ValuationAssumption
  <2> QED  BY <2>1 DEF Valuation, BoughtUnits, BoughtGross
<1>2. ExactProfit(position, nav, bought) = P + b + r - G  BY DEF ExactProfit
<1>3. U \in Int /\ G \in Int  BY BoughtAre
<1>4. /\ position.units \in Int /\ P \in Int /\ WholeCents(P)
      /\ position.anchorNav \in Int /\ nav \in Int
  <2>1. position.anchorNav \in Int  BY PositionsAre
  <2> QED  BY <2>1, PositionsAre
<1> HIDE DEF position, nav, U, G, P
<1>5. b \in Int /\ r \in Int  BY <1>3, <1>4
<1> HIDE DEF b, r
<1>6. B \in Int /\ WholeCents(B) /\ -Cent <= 2 * B - 2 * b /\ 2 * B - 2 * b <= Cent
  BY <1>5, MoneyIsClose
<1>7. R \in Int /\ WholeCents(R) /\ -Cent <= 2 * R - 2 * r /\ 2 * R - 2 * r <= Cent
  BY <1>5, MoneyIsClose
<1> HIDE DEF B, R
<1>8. R - G \in Int  BY <1>3, <1>7
<1>9. /\ M \in Int /\ WholeCents(M)
      /\ -Cent <= 2 * M - 2 * (R - G) /\ 2 * M - 2 * (R - G) <= Cent
  BY <1>8, MoneyIsClose
<1>10. ASSUME WholeCents(G)  PROVE M = R - G
  <2>1. PICK q \in Int : G = Cent * q  BY <1>10 DEF WholeCents
  <2>2. -G \in Int /\ WholeCents(-G)
    <3>1. -q \in Int /\ -G = Cent * (-q)  BY <2>1, ValuationAssumption
    <3> QED  BY <1>3, <3>1 DEF WholeCents
  <2>3. R + (-G) \in Int /\ WholeCents(R + (-G))  BY <1>7, <2>2, SumsOfCents
  <2>4. R + (-G) = R - G  BY <1>3, <1>7
  <2> QED  BY <2>3, <2>4, CentsAreNotRounded
<1> HIDE DEF M
<1>11. profit = P + B + M
  <2>1. P + B \in Int /\ WholeCents(P + B)  BY <1>4, <1>6, SumsOfCents
  <2>2. Money(P + B) = P + B  BY <2>1, CentsAreNotRounded
  <2>3. (P + B) + M \in Int /\ WholeCents((P + B) + M)  BY <1>9, <2>1, SumsOfCents
  <2>4. Money((P + B) + M) = (P + B) + M  BY <2>3, CentsAreNotRounded
  <2> QED  BY <2>2, <2>4
<1>12. Cent \in Nat  BY ValuationAssumption
<1>13. /\ profit \in Int /\ P + b + r - G \in Int
       /\ -(3 * Cent) <= 2 * profit - 2 * (P + b + r - G)
       /\ 2 * profit - 2 * (P + b + r - G) <= 3 * Cent
  <2> HIDE DEF profit
  <2> QED  BY <1>3, <1>4, <1>5, <1>6, <1>7, <1>9, <1>11, <1>12
<1>14. ASSUME WholeCents(G)
       PROVE  /\ -(2 * Cent) <= 2 * profit - 2 * (P + b + r - G)
              /\ 2 * profit - 2 * (P + b + r - G) <= 2 * Cent
  <2>1. M = R - G  BY <1>10, <1>14
  <2> HIDE DEF profit
  <2> QED  BY <1>3, <1>4, <1>5, <1>6, <1>7, <1>9, <1>11, <1>12, <2>1
<1> HIDE DEF profit
<1> QED  BY <1>1, <1>2, <1>13, <1>14 DEF position, nav, G

\* What was bought on the newest day apart.
UnitsBefore(bought, D) == SumFunction([d \in {d \in Stored(bought) : d < D} |-> bought[d].units])
BoughtUntil(bought, D) == D \in Nat /\ \A d \in Stored(bought) : d \in Nat /\ d <= D
IsBefore(older, bought, D) ==
    /\ Stored(older) = {d \in Stored(bought) : d < D}
    /\ \A d \in Stored(older) : older[d] = bought[d]

\* What was bought until a day is what was bought on it and what was bought before it.
LEMMA BoughtBefore ==
  ASSUME NEW bought, AreExecutions(bought), NEW older, NEW D,
         BoughtUntil(bought, D), IsBefore(older, bought, D)
  PROVE  /\ AreExecutions(older)
         /\ UnitsBefore(bought, D) = BoughtUnits(older)
         /\ D \notin Stored(bought) => BoughtUnits(bought) = BoughtUnits(older)
         /\ D \notin Stored(bought) => BoughtGross(bought) = BoughtGross(older)
         /\ D \in Stored(bought) => BoughtUnits(bought) = bought[D].units + BoughtUnits(older)
         /\ D \in Stored(bought) => BoughtGross(bought) = bought[D].gross + BoughtGross(older)
<1> DEFINE S == Stored(bought)
           T == Stored(older)
           u == [d \in S |-> bought[d].units]
           g == [d \in S |-> bought[d].gross]
           v == [d \in T |-> older[d].units]
           h == [d \in T |-> older[d].gross]
           w == [d \in {d \in S : d < D} |-> bought[d].units]
<1>1. T \subseteq S /\ T = {d \in S : d < D} /\ T = S \ {D}
  <2>1. T = {d \in S : d < D}  BY DEF IsBefore
  <2>2. \A d \in S : d < D <=> d # D  BY DEF BoughtUntil
  <2> HIDE DEF S, T
  <2> QED  BY <2>1, <2>2
<1>2. IsFiniteSet(S) /\ IsFiniteSet(T)
  <2>1. IsFiniteSet(S)  BY DEF AreExecutions
  <2> HIDE DEF S, T
  <2> QED  BY <1>1, <2>1, FS_Subset
<1>3. AreExecutions(older)
  <2>1. \A d \in T : older[d].units \in Int /\ older[d].gross \in Int
    BY <1>1 DEF AreExecutions, IsBefore
  <2> QED  BY <1>2, <2>1 DEF AreExecutions
<1>4. /\ \A d \in S : u[d] = bought[d].units /\ g[d] = bought[d].gross
      /\ \A d \in T : v[d] = u[d] /\ h[d] = g[d] /\ w[d] = u[d]
      /\ DOMAIN u = S /\ DOMAIN g = S /\ DOMAIN v = T /\ DOMAIN h = T /\ DOMAIN w = T
  BY <1>1 DEF IsBefore
<1>5. Summable(u, S) /\ Summable(g, S)  BY <1>2, <1>4 DEF Summable, AreExecutions
<1>6. /\ BoughtUnits(bought) = SumFunction(u) /\ BoughtGross(bought) = SumFunction(g)
      /\ BoughtUnits(older) = SumFunction(v) /\ BoughtGross(older) = SumFunction(h)
  BY DEF BoughtUnits, BoughtGross
<1> HIDE DEF S, T, u, g, v, h, w
<1>7. SumFunction(u) = SumFunctionOnSet(u, S) /\ SumFunction(g) = SumFunctionOnSet(g, S)
  BY <1>2, <1>4, SumOver
<1>8. /\ SumFunction(v) = SumFunctionOnSet(u, T)
      /\ SumFunction(h) = SumFunctionOnSet(g, T)
      /\ SumFunction(w) = SumFunctionOnSet(u, T)
  BY <1>2, <1>4, SumOver
<1>9. ASSUME D \in S
      PROVE  /\ SumFunctionOnSet(u, S) = u[D] + SumFunctionOnSet(u, T)
             /\ SumFunctionOnSet(g, S) = g[D] + SumFunctionOnSet(g, T)
  BY <1>1, <1>5, <1>9, SumOut
<1>10. D \notin S => T = S  BY <1>1
<1>12. UnitsBefore(bought, D) = SumFunction(w)  BY DEF UnitsBefore, w, S
<1>11. UnitsBefore(bought, D) = BoughtUnits(older)  BY <1>6, <1>8, <1>12
<1> QED  BY <1>3, <1>4, <1>6, <1>7, <1>8, <1>9, <1>10, <1>11 DEF S, T

\* The terms of an estimate.
HasNavs(navOf) == Stored(navOf) # {} /\ Max(Stored(navOf)) \in Nat
Latest(navOf) == Max(Stored(navOf))
Earlier(navOf) == Stored(navOf) \ {Latest(navOf)}
BaseChange(position, navOf) == Money(position.units * (navOf[Latest(navOf)] - position.anchorNav))
RecurringMarket(navOf, bought) == Money(navOf[Latest(navOf)] * BoughtUnits(bought))

\* Where there is a NAV there is a last one.
LEMMA LatestIsSome == \A navOf : HasNavs(navOf) => Latest(navOf) # None
BY ValuationAssumption DEF HasNavs, Latest

\* The day of an estimate, ...
LEMMA ValuedDay ==
  ASSUME NEW position, NEW navOf, NEW bought, HasNavs(navOf)
  PROVE  Valuation(position, navOf, bought).day = Latest(navOf)
BY LatestIsSome DEF Valuation, HasNavs, Latest

\* ... its daily profit, ...
LEMMA ValuedDaily ==
  ASSUME NEW position, NEW navOf, NEW bought, HasNavs(navOf), Earlier(navOf) # {}
  PROVE  Valuation(position, navOf, bought).daily =
            Money(DailyUnits(position, bought, Latest(navOf))
                    * (navOf[Latest(navOf)] - navOf[Max(Earlier(navOf))]))
BY LatestIsSome DEF Valuation, HasNavs, Latest, Earlier

\* ... which a single NAV has not, ...
LEMMA ValuedDailyOnce ==
  ASSUME NEW position, NEW navOf, NEW bought, HasNavs(navOf), Earlier(navOf) = {}
  PROVE  Valuation(position, navOf, bought).daily = None
BY LatestIsSome DEF Valuation, HasNavs, Latest, Earlier

\* ... its market value, ...
LEMMA ValuedMarket ==
  ASSUME NEW position, NEW navOf, NEW bought, HasNavs(navOf)
  PROVE  Valuation(position, navOf, bought).market =
            Money(position.market + BaseChange(position, navOf) + RecurringMarket(navOf, bought))
BY LatestIsSome
   DEF Valuation, Market, HasNavs, Latest, BaseChange, RecurringMarket, BoughtUnits

\* ... its profit ...
LEMMA ValuedProfit ==
  ASSUME NEW position, NEW navOf, NEW bought, HasNavs(navOf)
  PROVE  Valuation(position, navOf, bought).profit =
            Money(Money(position.profit + BaseChange(position, navOf))
                    + Money(RecurringMarket(navOf, bought) - BoughtGross(bought)))
BY LatestIsSome
   DEF Valuation, HasNavs, Latest, BaseChange, RecurringMarket, BoughtUnits, BoughtGross

\* ... and its return (api.py, the estimates of a position).
LEMMA ValuedReturn ==
  ASSUME NEW position, NEW navOf, NEW bought, HasNavs(navOf),
         BaseChange(position, navOf) = 0, BoughtGross(bought) = 0
  PROVE  Valuation(position, navOf, bought).return = position.return
BY LatestIsSome DEF Valuation, HasNavs, Latest, BaseChange, BoughtGross

\* The rows of a position: its newest NAV, and what was bought until then.
LEMMA RowsOfPosition ==
  ASSUME ValuationInv, NEW p \in Positions
  PROVE  /\ Stored(navs[p]) \in SUBSET Nat /\ Stored(navs[p]) \subseteq Days
         /\ Portfolio[p].anchorDay \in Stored(navs[p])
         /\ Max(Stored(navs[p])) \in Stored(navs[p]) /\ HasNavs(navs[p])
         /\ \A d \in Stored(navs[p]) : d <= Max(Stored(navs[p])) /\ navs[p][d] \in Nat
         /\ AreExecutions(executions[p]) /\ Stored(executions[p]) \subseteq Nat
         /\ \A d \in Stored(executions[p]) :
               /\ d \in Days /\ d \in Stored(navs[p]) /\ d > Portfolio[p].anchorDay
               /\ Portfolio[p].plan # None /\ executions[p][d].gross = Portfolio[p].plan.gross
         /\ DOMAIN navs[p] = Days /\ DOMAIN executions[p] = Days
<1> DEFINE stored == Stored(navs[p])
           bought == Stored(executions[p])
<1>1. DOMAIN navs[p] = Days /\ DOMAIN executions[p] = Days
  BY DEF ValuationInv, ValuationTypes
<1>2. stored = {d \in Days : navs[p][d] # None} /\ bought = {d \in Days : executions[p][d] # None}
  BY <1>1 DEF Stored
<1>3. Days \subseteq Nat /\ IsFiniteSet(Days)  BY ValuationAssumption
<1>4. IsFiniteSet(stored) /\ IsFiniteSet(bought)
  <2>1. stored \subseteq Days /\ bought \subseteq Days  BY <1>2
  <2> HIDE DEF stored, bought
  <2> QED  BY <1>3, <2>1, FS_Subset
<1>5. Portfolio[p].anchorDay \in stored
  BY <1>2, PositionsAre DEF ValuationInv, AnchorsStay
<1>6. \A d \in stored : navs[p][d] \in Nat  BY <1>2 DEF ValuationInv, ValuationTypes
<1>7. Max(stored) \in stored /\ \A d \in stored : d <= Max(stored)
  <2>1. stored \in SUBSET Nat  BY <1>2, <1>3
  <2> HIDE DEF stored
  <2> QED  BY <1>4, <1>5, <2>1, LastOfFinite
<1>8. \A d \in bought : executions[p][d] \in [gross : Nat, units : Int]
  BY <1>2 DEF ValuationInv, ValuationTypes
<1>9. \A d \in bought : executions[p][d].units \in Int /\ executions[p][d].gross \in Int
  BY <1>8
<1>10. \A d \in bought : /\ d \in Days /\ d \in stored /\ d > Portfolio[p].anchorDay
                         /\ Portfolio[p].plan # None
                         /\ executions[p][d].gross = Portfolio[p].plan.gross
  BY <1>2 DEF ValuationInv, OrdersFollowTheSnapshot
<1>12. HasNavs(navs[p])  BY <1>5, <1>6, <1>7, <1>2, <1>3 DEF HasNavs
<1> HIDE DEF stored, bought
<1>11. AreExecutions(executions[p])  BY <1>4, <1>9 DEF AreExecutions, bought
<1> QED  BY <1>1, <1>2, <1>3, <1>5, <1>6, <1>7, <1>10, <1>11, <1>12 DEF stored, bought

\* Nothing rounds to nothing.
LEMMA NothingMovesNothing == Money(0) = 0
<1>1. Cent * 0 = 0 /\ 0 \in Int  BY ValuationAssumption
<1> QED  BY <1>1, CentsAreNotRounded DEF WholeCents

\* Before a newer NAV the estimate is the snapshot.
LEMMA SnapshotIsTheEstimate ==
  ASSUME ValuationInv, NEW p \in Positions, ~(Row(p).day > Portfolio[p].anchorDay),
         navs[p][Row(p).day] = Portfolio[p].anchorNav
  PROVE  /\ Row(p).market = Portfolio[p].market /\ Row(p).profit = Portfolio[p].profit
         /\ Row(p).return = Portfolio[p].return
<1> DEFINE position == Portfolio[p]
           navOf == navs[p]
           bought == executions[p]
           latest == Max(Stored(navOf))
           U == BoughtUnits(bought)
           G == BoughtGross(bought)
           b == BaseChange(position, navOf)
           r == RecurringMarket(navOf, bought)
<1>1. Stored(navOf) # {} /\ latest \in Nat /\ latest \in Stored(navOf)  BY RowsOfPosition
<1>2. /\ Row(p).day = latest
      /\ Row(p).market = Money(position.market + b + r)
      /\ Row(p).profit = Money(Money(position.profit + b) + Money(r - G))
      /\ b = 0 /\ G = 0 => Row(p).return = position.return
  <2>1. Row(p) = Valuation(position, navOf, bought)  BY DEF Row
  <2>2. HasNavs(navOf) /\ Latest(navOf) = latest  BY RowsOfPosition DEF Latest
  <2> HIDE DEF position, navOf, bought, latest
  <2> QED  BY <2>1, <2>2, ValuedDay, ValuedMarket, ValuedProfit, ValuedReturn
<1>3. Stored(bought) = {}
  <2> SUFFICES ASSUME NEW d \in Stored(bought)  PROVE FALSE  OBVIOUS
  <2>1. d \in Nat /\ d <= latest /\ d > position.anchorDay /\ position.anchorDay \in Nat
    BY RowsOfPosition
  <2>2. ~(latest > position.anchorDay)  BY <1>2
  <2> HIDE DEF latest, position
  <2> QED  BY <1>1, <2>1, <2>2
<1>4. U = 0 /\ G = 0
  <2>1. \A f : DOMAIN f = {} => SumFunction(f) = 0
    <3> TAKE f
    <3>1. SumFunction(f) = SumFunctionOnSet(f, DOMAIN f)  BY DEF SumFunction
    <3> QED  BY <3>1, SumOfNothing
  <2>2. DOMAIN [d \in Stored(bought) |-> bought[d].units] = {}
        /\ DOMAIN [d \in Stored(bought) |-> bought[d].gross] = {}
    BY <1>3
  <2> QED  BY <2>1, <2>2 DEF BoughtUnits, BoughtGross
<1>5. b = 0 /\ r = 0
  <2>1. navOf[latest] = position.anchorNav /\ navOf[latest] \in Int /\ position.units \in Int
    BY <1>1, <1>2, RowsOfPosition, PositionsAre
  <2> DEFINE nav == navOf[latest]
  <2> HIDE DEF nav, position, U
  <2>2. nav = position.anchorNav /\ nav \in Int  BY <2>1 DEF nav
  <2>3. position.units * (nav - position.anchorNav) = 0 /\ nav * U = 0  BY <1>4, <2>1, <2>2
  <2>4. b = Money(position.units * (nav - position.anchorNav)) /\ r = Money(nav * U)
    BY DEF BaseChange, RecurringMarket, Latest, latest, nav, U
  <2> QED  BY <2>3, <2>4, NothingMovesNothing
<1>6. position.market \in Int /\ position.profit \in Int
      /\ Money(position.market) = position.market /\ Money(position.profit) = position.profit
  BY PositionsAre, CentsAreNotRounded
<1> HIDE DEF position, b, r, G, U, latest, navOf
<1>7. position.market + 0 + 0 = position.market /\ position.profit + 0 = position.profit /\ 0 - 0 = 0
  BY <1>6
<1> QED  BY <1>2, <1>4, <1>5, <1>6, <1>7, NothingMovesNothing DEF position

\* The profit of a day, less the profit of the rows before it, is the daily profit and what the
\* day's execution cost, up to the roundings.
LEMMA DailyProfitIsTheChange ==
  ASSUME ValuationInv, NEW p \in Positions, Row(p).day > Portfolio[p].anchorDay,
         NEW older, older = [d \in {d \in Days : d < Row(p).day} |-> navs[p][d]],
         NEW olderBought, olderBought = [d \in {d \in Days : d < Row(p).day} |-> executions[p][d]],
         NEW fees, fees = IF executions[p][Row(p).day] = None THEN 0
                          ELSE executions[p][Row(p).day].gross
                                 - executions[p][Row(p).day].units * navs[p][Row(p).day]
  PROVE  LET error == (Row(p).profit - Valuation(Portfolio[p], older, olderBought).profit)
                        - (Row(p).daily - fees)
         IN /\ error \in Int /\ -(7 * Cent) <= 2 * error /\ 2 * error <= 7 * Cent
            /\ (Portfolio[p].plan # None => WholeCents(Portfolio[p].plan.gross)) =>
                  -(5 * Cent) <= 2 * error /\ 2 * error <= 5 * Cent
<1> DEFINE position == Portfolio[p]
           navOf == navs[p]
           bought == executions[p]
           stored == Stored(navOf)
           D == Max(stored)
           E == Max(Stored(older))
           U == BoughtUnits(bought)
           U0 == BoughtUnits(olderBought)
           G == BoughtGross(bought)
           G0 == BoughtGross(olderBought)
           nav == navOf[D]
           nav0 == navOf[E]
           now == Row(p).profit
           then == Valuation(position, older, olderBought).profit
           exact == ExactProfit(position, nav, bought)
           exact0 == ExactProfit(position, nav0, olderBought)
           gain == (position.units + U0) * (nav - nav0)
           daily == Row(p).daily
<1>1. stored # {} /\ D \in stored /\ D \in Nat /\ stored \in SUBSET Nat /\ stored \subseteq Days
      /\ (\A d \in stored : d <= D /\ navOf[d] \in Nat) /\ position.anchorDay \in stored
  BY RowsOfPosition
<1>2. Row(p) = Valuation(position, navOf, bought)  BY DEF Row
<1>3. Row(p).day = D
  <2>1. HasNavs(navOf) /\ Latest(navOf) = D  BY RowsOfPosition DEF Latest
  <2> HIDE DEF position, navOf, bought, D
  <2> QED  BY <1>2, <2>1, ValuedDay
<1>4. DOMAIN navOf = Days /\ DOMAIN bought = Days  BY RowsOfPosition
<1>5. /\ Stored(older) = {d \in stored : d < D} /\ Stored(older) = stored \ {D}
      /\ \A d \in Stored(older) : older[d] = navOf[d]
      /\ Stored(olderBought) = {d \in Stored(bought) : d < D}
      /\ \A d \in Stored(olderBought) : olderBought[d] = bought[d]
  <2>1. Stored(older) = {d \in Days : d < D /\ navOf[d] # None}
    <3> HIDE DEF D, navOf
    <3> QED  BY <1>3 DEF Stored, navOf
  <2>2. Stored(olderBought) = {d \in Days : d < D /\ bought[d] # None}
    <3> HIDE DEF D, bought
    <3> QED  BY <1>3 DEF Stored, bought
  <2>3. stored = {d \in Days : navOf[d] # None} /\ Stored(bought) = {d \in Days : bought[d] # None}
    BY <1>4 DEF Stored
  <2>4. \A d \in Stored(older) : older[d] = navOf[d]
    <3> HIDE DEF D
    <3> QED  BY <1>3, <2>1
  <2>5. \A d \in Stored(olderBought) : olderBought[d] = bought[d]
    <3> HIDE DEF D
    <3> QED  BY <1>3, <2>2
  <2> HIDE DEF D, navOf, bought
  <2>6. {d \in stored : d < D} = stored \ {D}
    <3>1. D \in Nat /\ \A d \in stored : d \in Nat /\ d <= D  BY <1>1
    <3> HIDE DEF stored
    <3>2. \A d \in stored : d < D <=> d # D  BY <3>1
    <3> QED  BY <3>2
  <2> QED  BY <2>1, <2>2, <2>3, <2>4, <2>5, <2>6
<1>6. /\ Stored(older) # {} /\ E \in Stored(older) /\ E \in Nat
      /\ older[E] = nav0 /\ nav0 \in Nat /\ nav \in Nat
  <2>1. position.anchorDay \in Stored(older)
    <3>1. position.anchorDay # D
      <4>1. D > position.anchorDay  BY <1>3
      <4> HIDE DEF D, position
      <4> QED  BY <1>1, <4>1
    <3> QED  BY <1>1, <1>5, <3>1
  <2>2. Stored(older) \in SUBSET Nat /\ \A d \in Stored(older) : d <= D  BY <1>1, <1>5
  <2>3. E \in Stored(older)
    <3> HIDE DEF D
    <3> QED  BY <1>1, <2>1, <2>2, LastDay
  <2> QED  BY <1>1, <1>5, <2>1, <2>2, <2>3
<1>7. AreExecutions(bought) /\ Stored(bought) \subseteq Nat /\ \A d \in Stored(bought) : d <= D
  BY RowsOfPosition
<1>8. /\ AreExecutions(olderBought)
      /\ UnitsBefore(bought, D) = U0
      /\ D \notin Stored(bought) => U = U0 /\ G = G0
      /\ D \in Stored(bought) => U = bought[D].units + U0 /\ G = bought[D].gross + G0
  <2>1. BoughtUntil(bought, D) /\ IsBefore(olderBought, bought, D)
    BY <1>1, <1>5, <1>7 DEF BoughtUntil, IsBefore
  <2> HIDE DEF D, bought
  <2> QED  BY <1>7, <2>1, BoughtBefore
<1>9. /\ U \in Int /\ U0 \in Int /\ G \in Int /\ G0 \in Int  BY <1>7, <1>8, BoughtAre
<1>10. daily = Money(gain)
  <2>1. HasNavs(navOf) /\ Latest(navOf) = D /\ Earlier(navOf) = Stored(older)
    BY <1>5, RowsOfPosition DEF Latest, Earlier
  <2>2. DailyUnits(position, bought, D) = position.units + U0  BY <1>8 DEF DailyUnits, UnitsBefore
  <2> HIDE DEF position, navOf, bought, D, stored
  <2>3. Valuation(position, navOf, bought).daily =
           Money(DailyUnits(position, bought, D) * (navOf[D] - navOf[E]))
    BY <1>6, <2>1, ValuedDaily
  <2> QED  BY <1>2, <2>2, <2>3
<1>11. /\ now \in Int /\ exact \in Int
       /\ -(3 * Cent) <= 2 * now - 2 * exact /\ 2 * now - 2 * exact <= 3 * Cent
       /\ WholeCents(G) => -(2 * Cent) <= 2 * now - 2 * exact /\ 2 * now - 2 * exact <= 2 * Cent
  <2>1. D = Max(Stored(navOf)) /\ Stored(navOf) # {} /\ navOf[D] \in Nat  BY <1>1
  <2> HIDE DEF D, bought, navOf
  <2> QED  BY <1>1, <1>2, <1>7, <2>1, ProfitIsClose
<1>12. /\ then \in Int /\ exact0 \in Int
       /\ -(3 * Cent) <= 2 * then - 2 * exact0 /\ 2 * then - 2 * exact0 <= 3 * Cent
       /\ WholeCents(G0) => -(2 * Cent) <= 2 * then - 2 * exact0 /\ 2 * then - 2 * exact0 <= 2 * Cent
  <2>1. E = Max(Stored(older))  OBVIOUS
  <2> HIDE DEF E
  <2> QED  BY <1>6, <1>8, <2>1, ProfitIsClose
<1>13. position.units \in Int /\ position.anchorNav \in Int /\ position.profit \in Int
  <2>1. position.anchorNav \in Nat  BY PositionsAre
  <2> QED  BY <2>1, PositionsAre
<1>14. /\ gain \in Int /\ daily \in Int
       /\ -Cent <= 2 * daily - 2 * gain /\ 2 * daily - 2 * gain <= Cent
  <2>1. gain \in Int
    <3> HIDE DEF position, nav, nav0, U0
    <3> QED  BY <1>6, <1>9, <1>13
  <2> HIDE DEF gain, daily
  <2> QED  BY <1>10, <2>1, MoneyIsClose
<1>15. exact - exact0 = gain - fees /\ fees \in Int
  <2> DEFINE x == IF D \in Stored(bought) THEN bought[D].units ELSE 0
             y == IF D \in Stored(bought) THEN bought[D].gross ELSE 0
             u == position.units
             a == position.anchorNav
  <2>1. U = x + U0 /\ G = y + G0 /\ x \in Int /\ y \in Int
    <3>1. D \in Stored(bought) => bought[D].units \in Int /\ bought[D].gross \in Int
      BY <1>7 DEF AreExecutions
    <3> HIDE DEF U, U0, G, G0
    <3> QED  BY <1>8, <1>9, <3>1
  <2>2. fees = y - x * nav
    <3>1. D \in Stored(bought) <=> bought[D] # None
      <4>1. D \in Days  BY <1>1
      <4> QED  BY <1>4, <4>1 DEF Stored
    <3>2. fees = IF bought[D] = None THEN 0 ELSE bought[D].gross - bought[D].units * nav
      BY <1>3
    <3>3. nav \in Int /\ 0 - 0 * nav = 0  BY <1>6
    <3> HIDE DEF D, bought, nav
    <3> QED  BY <3>1, <3>2, <3>3
  <2>3. /\ exact = position.profit + u * (nav - a) + nav * U - G
        /\ exact0 = position.profit + u * (nav0 - a) + nav0 * U0 - G0
    BY DEF ExactProfit
  <2>4. nav \in Int /\ nav0 \in Int /\ u \in Int /\ a \in Int /\ position.profit \in Int
    BY <1>6, <1>13
  <2> DEFINE P == position.profit
  <2> HIDE DEF x, y, u, a, P, U, U0, G, G0, nav, nav0, exact, exact0
  <2>5. gain = (u + U0) * (nav - nav0)  BY DEF u
  <2>6. /\ nav * (x + U0) = nav * x + nav * U0 /\ x * nav = nav * x
        /\ (u + U0) * (nav - nav0) = u * nav - u * nav0 + U0 * nav - U0 * nav0
        /\ u * (nav - a) = u * nav - u * a /\ u * (nav0 - a) = u * nav0 - u * a
        /\ U0 * nav = nav * U0 /\ U0 * nav0 = nav0 * U0
    BY <1>9, <2>1, <2>4
  <2> DEFINE nx == nav * x
             nU == nav * U0
             nU0 == nav0 * U0
             un == u * nav
             un0 == u * nav0
             ua == u * a
  <2>7. nx \in Int /\ nU \in Int /\ nU0 \in Int /\ un \in Int /\ un0 \in Int /\ ua \in Int
        /\ P \in Int /\ y \in Int /\ G0 \in Int
    BY <1>9, <2>1, <2>4 DEF P
  <2>8. /\ exact = P + (un - ua) + (nx + nU) - (y + G0)
        /\ exact0 = P + (un0 - ua) + nU0 - G0
        /\ gain = un - un0 + nU - nU0 /\ fees = y - nx
    BY <2>1, <2>2, <2>3, <2>5, <2>6 DEF P, u, a
  <2> HIDE DEF nx, nU, nU0, un, un0, ua, gain
  <2> QED  BY <2>7, <2>8
<1>16. Row(p).profit = now /\ Row(p).daily = daily  OBVIOUS
<1>17. ASSUME position.plan # None => WholeCents(position.plan.gross)
       PROVE  WholeCents(G) /\ WholeCents(G0)
  <2>1. ASSUME NEW rows, AreExecutions(rows),
               \A d \in Stored(rows) : position.plan # None /\ rows[d].gross = position.plan.gross
        PROVE  WholeCents(BoughtGross(rows))
    <3> DEFINE S == Stored(rows)
               g == [d \in S |-> rows[d].gross]
    <3>1. IsFiniteSet(S) /\ DOMAIN g = S /\ (\A d \in S : g[d] \in Int)
          /\ BoughtGross(rows) = SumFunction(g)
      BY <2>1 DEF AreExecutions, BoughtGross
    <3>2. \A d \in S : \E n \in Int : g[d] = Cent * n  BY <1>17, <2>1 DEF WholeCents
    <3> HIDE DEF S, g
    <3>3. SumFunction(g) = SumFunctionOnSet(g, S)  BY <3>1, SumOver
    <3>4. \E n \in Int : SumFunctionOnSet(g, S) = Cent * n
      <4>1. Cent \in Nat \ {0} /\ Summable(g, S)  BY <3>1, ValuationAssumption DEF Summable
      <4> QED  BY <3>2, <4>1, SumOfMultiples
    <3> QED  BY <3>1, <3>3, <3>4 DEF WholeCents
  <2>2. \A d \in Stored(bought) : position.plan # None /\ bought[d].gross = position.plan.gross
    BY RowsOfPosition
  <2>3. \A d \in Stored(olderBought) :
            position.plan # None /\ olderBought[d].gross = position.plan.gross
    BY <1>5, <2>2
  <2> QED  BY <1>7, <1>8, <2>1, <2>2, <2>3
<1>18. Cent \in Int  BY ValuationAssumption
<1> DEFINE error == (now - then) - (daily - fees)
<1> HIDE DEF now, then, daily, gain, exact, exact0, G, G0, position
<1>19. error \in Int /\ -(7 * Cent) <= 2 * error /\ 2 * error <= 7 * Cent
  BY <1>11, <1>12, <1>14, <1>15, <1>18
<1>20. ASSUME position.plan # None => WholeCents(position.plan.gross)
       PROVE  -(5 * Cent) <= 2 * error /\ 2 * error <= 5 * Cent
  <2>1. /\ -(2 * Cent) <= 2 * now - 2 * exact /\ 2 * now - 2 * exact <= 2 * Cent
        /\ -(2 * Cent) <= 2 * then - 2 * exact0 /\ 2 * then - 2 * exact0 <= 2 * Cent
    BY <1>11, <1>12, <1>17, <1>20
  <2> QED  BY <1>11, <1>12, <1>14, <1>15, <1>18, <2>1
<1> QED  BY <1>19, <1>20 DEF now, then, daily, position

\* The daily profit is the change in every state of the invariant.
LEMMA TypedDailyProfit == ValuationInv => DailyProfitIsTheDaysChange
<1> SUFFICES ASSUME ValuationInv, NEW p \in Positions
             PROVE  LET position == Portfolio[p]
                        now == Row(p)
                        before(row) == [d \in {d \in Days : d < now.day} |-> row[d]]
                        then == Valuation(position, before(navs[p]), before(executions[p]))
                        fees == IF executions[p][now.day] = None THEN 0
                                ELSE executions[p][now.day].gross
                                          - executions[p][now.day].units * navs[p][now.day]
                        roundings == IF position.plan = None THEN 5
                                     ELSE IF position.plan.gross % Cent = 0 THEN 5 ELSE 7
                        error == (now.profit - then.profit) - (now.daily - fees)
                    IN IF now.day > position.anchorDay
                       THEN 2 * error \in -(roundings * Cent)..(roundings * Cent)
                       ELSE navs[p][now.day] = position.anchorNav =>
                                /\ now.market = position.market /\ now.profit = position.profit
                                /\ now.return = position.return
  BY DEF DailyProfitIsTheDaysChange
<1> DEFINE position == Portfolio[p]
           now == Row(p)
           before(row) == [d \in {d \in Days : d < now.day} |-> row[d]]
           older == before(navs[p])
           olderBought == before(executions[p])
           then == Valuation(position, older, olderBought)
           fees == IF executions[p][now.day] = None THEN 0
                   ELSE executions[p][now.day].gross
                             - executions[p][now.day].units * navs[p][now.day]
           roundings == IF position.plan = None THEN 5
                        ELSE IF position.plan.gross % Cent = 0 THEN 5 ELSE 7
           error == (now.profit - then.profit) - (now.daily - fees)
<1>1. ASSUME now.day > position.anchorDay
      PROVE  2 * error \in -(roundings * Cent)..(roundings * Cent)
  <2>1. /\ error \in Int /\ -(7 * Cent) <= 2 * error /\ 2 * error <= 7 * Cent
        /\ (position.plan # None => WholeCents(position.plan.gross)) =>
              -(5 * Cent) <= 2 * error /\ 2 * error <= 5 * Cent
    BY <1>1, DailyProfitIsTheChange
  <2>2. Cent \in Int  BY ValuationAssumption
  <2>3. roundings = 7 \/ (roundings = 5 /\ (position.plan # None => WholeCents(position.plan.gross)))
    <3>1. CASE position.plan = None  BY <3>1
    <3>2. CASE position.plan # None
      <4>1. position.plan.gross \in Int  BY <3>2, PositionsAre
      <4> DEFINE gross == position.plan.gross
      <4> HIDE DEF gross
      <4>2. gross % Cent = 0 => WholeCents(gross)  BY <4>1, Remainder DEF gross
      <4> QED  BY <3>2, <4>2 DEF gross
    <3> QED  BY <3>1, <3>2
  <2> HIDE DEF error, roundings, position
  <2>4. CASE roundings = 7  BY <2>1, <2>2, <2>4
  <2>5. CASE roundings = 5 /\ (position.plan # None => WholeCents(position.plan.gross))
    BY <2>1, <2>2, <2>5
  <2> QED  BY <2>3, <2>4, <2>5
<1>2. ASSUME ~(now.day > position.anchorDay), navs[p][now.day] = position.anchorNav
      PROVE  /\ now.market = position.market /\ now.profit = position.profit
             /\ now.return = position.return
  BY <1>2, SnapshotIsTheEstimate
<1> HIDE DEF now, position, error, roundings
<1>3. IF now.day > position.anchorDay
      THEN 2 * error \in -(roundings * Cent)..(roundings * Cent)
      ELSE navs[p][now.day] = position.anchorNav =>
               /\ now.market = position.market /\ now.profit = position.profit
               /\ now.return = position.return
  BY <1>1, <1>2
<1> QED  BY <1>3 DEF now, position, error, roundings

\* For any portfolio, calendar, NAVs and settled orders: the daily profit api.py shows of a
\* position is the change of its profit since the NAV before, but for the day's purchase fee
\* and half a cent for each rounding, and on the day of the snapshot the estimate is the
\* snapshot.
THEOREM DailyProfitIsExplained == ValuationSpec => []DailyProfitIsTheDaysChange
<1>1. ValuationInit => ValuationInv  BY ValuationStarts
<1>2. ValuationInv /\ [ValuationNext]_valuationVars => ValuationInv'  BY ValuationStays
<1>3. ValuationInv => DailyProfitIsTheDaysChange  BY TypedDailyProfit
<1> QED  BY <1>1, <1>2, <1>3, PTL DEF ValuationSpec

\* The image of a finite set is finite.
LEMMA FiniteImage ==
  ASSUME NEW S, IsFiniteSet(S), NEW F, NEW T, T = {F[x] : x \in S}
  PROVE  IsFiniteSet(T)
<1> DEFINE f == [x \in S |-> F[x]]
<1>1. f \in Surjection(S, T)  BY DEF Surjection
<1> QED  BY <1>1, FS_Surjection

-----------------------------------------------------------------------------
(* The sums.                                                                *)

RowOf(p) == [id |-> p, currency |-> Portfolio[p].currency, valued |-> Row(p)]
RowsOf(c) == {row \in Rows : row.currency = c}
SumOfCurrency(c) == [currency |-> c, of |-> CurrencySummary(RowsOf(c))]
CurrencySums == {SumOfCurrency(c) : c \in {row.currency : row \in Rows}}

\* One row of each position, and finitely many.
LEMMA RowsAre ==
  /\ IsFiniteSet(Rows) /\ IsFiniteSet(CurrencySums)
  /\ \A row \in Rows : \E p \in Positions : row = RowOf(p)
  /\ \A p \in Positions : RowOf(p) \in Rows
<1>1. Rows = {RowOf(p) : p \in Positions}  BY DEF Rows, RowOf
<1>2. IsFiniteSet(Rows)
  <2> DEFINE F == [p \in Positions |-> RowOf(p)]
  <2>1. IsFiniteSet(Positions)  BY ValuationAssumption DEF Positions
  <2>2. Rows = {F[p] : p \in Positions}  BY <1>1
  <2> HIDE DEF F
  <2> QED  BY <2>1, <2>2, FiniteImage
<1>3. IsFiniteSet(CurrencySums)
  <2> DEFINE F == [row \in Rows |-> SumOfCurrency(row.currency)]
  <2>1. CurrencySums = {F[row] : row \in Rows}  BY DEF CurrencySums
  <2> HIDE DEF F
  <2> QED  BY <1>2, <2>1, FiniteImage
<1> QED  BY <1>1, <1>2, <1>3

\* One sum of each currency that a position has.
LEMMA SumsAre ==
  /\ \A s \in CurrencySums : /\ s = SumOfCurrency(s.currency)
                             /\ s.of = CurrencySummary(RowsOf(s.currency))
                             /\ RowsOf(s.currency) # {}
  /\ \A row \in Rows : \E s \in CurrencySums : s.currency = row.currency
<1>1. \A c : SumOfCurrency(c).currency = c /\ SumOfCurrency(c).of = CurrencySummary(RowsOf(c))
  BY DEF SumOfCurrency
<1>2. \A s \in CurrencySums : \E row \in Rows : s = SumOfCurrency(row.currency)
  BY DEF CurrencySums
<1>3. \A row \in Rows : SumOfCurrency(row.currency) \in CurrencySums  BY DEF CurrencySums
<1>4. \A row \in Rows : row \in RowsOf(row.currency)  BY DEF RowsOf
<1> QED  BY <1>1, <1>2, <1>3, <1>4

\* A converted amount, and the amount at the rate.
LEMMA ConvertedIsClose ==
  ASSUME NEW row, ConversionRate(row.currency) \in Int, NEW value \in Int
  PROVE  /\ Converted(row, value) \in Int
         /\ -(Cent + 1) <= 2 * Converted(row, value) - value * ConversionRate(row.currency)
         /\ 2 * Converted(row, value) - value * ConversionRate(row.currency) <= Cent + 1
<1> DEFINE product == value * ConversionRate(row.currency)
           half == product \div 2
<1>1. product \in Int  OBVIOUS
<1>2. Converted(row, value) = Money(half)  BY DEF Converted, AtRate
<1> HIDE DEF product
<1>3. half \in Int /\ 2 * half <= product /\ product <= 2 * half + 1  BY <1>1
<1> HIDE DEF half
<1>4. Money(half) \in Int /\ -Cent <= 2 * Money(half) - 2 * half /\ 2 * Money(half) - 2 * half <= Cent
  BY <1>3, MoneyIsClose
<1>5. Cent \in Int  BY ValuationAssumption
<1>6. -(Cent + 1) <= 2 * Money(half) - product /\ 2 * Money(half) - product <= Cent + 1
  BY <1>1, <1>3, <1>4, <1>5
<1> QED  BY <1>2, <1>4, <1>6 DEF product

AreAmounts(a) == \A row \in Rows : a[row] \in Int
AreConverted(conv, a) == DOMAIN conv = Rows /\ \A row \in Rows : conv[row] = Converted(row, a[row])
AreSums(g, a) ==
    /\ DOMAIN g = CurrencySums
    /\ \A s \in CurrencySums :
          g[s] = SumFunctionOnSet(a, RowsOf(s.currency)) * ConversionRate(s.currency)

\* The converted amounts of the rows add up to the converted sums of the currencies, up to
\* the rounding of each row.
LEMMA CurrenciesAdd ==
  ASSUME NEW a, AreAmounts(a), NEW conv, AreConverted(conv, a), NEW g, AreSums(g, a),
         \A row \in Rows : ConversionRate(row.currency) \in Int
  PROVE  2 * SumFunction(conv) - SumFunction(g)
           \in -(Cardinality(Rows) * (Cent + 1))..(Cardinality(Rows) * (Cent + 1))
<1> DEFINE f == [row \in Rows |-> a[row] * ConversionRate(row.currency)]
           h == [row \in Rows |-> 2 * conv[row]]
           part == [s \in CurrencySums |-> RowsOf(s.currency)]
<1>1. \A row \in Rows : a[row] \in Int /\ conv[row] = Converted(row, a[row])
  BY DEF AreAmounts, AreConverted
<1>2. \A row \in Rows : /\ f[row] \in Int /\ conv[row] \in Int /\ h[row] \in Int
                        /\ -(Cent + 1) <= h[row] - f[row] /\ h[row] - f[row] <= Cent + 1
  <2> SUFFICES ASSUME NEW row \in Rows
               PROVE  /\ f[row] \in Int /\ conv[row] \in Int /\ h[row] \in Int
                      /\ -(Cent + 1) <= h[row] - f[row] /\ h[row] - f[row] <= Cent + 1
    OBVIOUS
  <2>1. /\ Converted(row, a[row]) \in Int
        /\ -(Cent + 1) <= 2 * Converted(row, a[row]) - a[row] * ConversionRate(row.currency)
        /\ 2 * Converted(row, a[row]) - a[row] * ConversionRate(row.currency) <= Cent + 1
    BY <1>1, ConvertedIsClose
  <2>2. a[row] * ConversionRate(row.currency) \in Int  BY <1>1
  <2> QED  BY <1>1, <2>1, <2>2
<1>3. IsFiniteSet(Rows) /\ IsFiniteSet(CurrencySums)  BY RowsAre
<1>4. Summable(f, Rows) /\ Summable(h, Rows) /\ Summable(conv, Rows) /\ Summable(a, Rows)
  BY <1>1, <1>2, <1>3 DEF Summable
<1>5. \A row \in Rows : h[row] = 2 * conv[row]  OBVIOUS
<1>6. \A s \in CurrencySums :
         /\ part[s] \subseteq Rows /\ g[s] = SumFunctionOnSet(f, part[s]) /\ g[s] \in Int
  <2> SUFFICES ASSUME NEW s \in CurrencySums
               PROVE  /\ part[s] \subseteq Rows /\ g[s] = SumFunctionOnSet(f, part[s]) /\ g[s] \in Int
    OBVIOUS
  <2> DEFINE rows == RowsOf(s.currency)
             rate == ConversionRate(s.currency)
  <2>1. rows \subseteq Rows /\ rows # {} /\ part[s] = rows  BY SumsAre DEF RowsOf
  <2>2. \A row \in rows : row \in Rows /\ row.currency = s.currency  BY DEF RowsOf
  <2>3. rate \in Int  BY <2>1, <2>2
  <2>4. g[s] = SumFunctionOnSet(a, rows) * rate  BY DEF AreSums
  <2>5. \A row \in rows : f[row] = rate * a[row]
    <3>1. \A row \in rows : f[row] = a[row] * rate  BY <2>2
    <3>2. \A i, j \in Int : i * j = j * i  OBVIOUS
    <3> HIDE DEF rows, rate, f
    <3> QED  BY <1>1, <2>1, <2>3, <3>1, <3>2
  <2> HIDE DEF rows, rate, f, part
  <2>6. Summable(f, rows) /\ Summable(a, rows)
        /\ SumFunctionOnSet(a, rows) \in Int /\ SumFunctionOnSet(f, rows) \in Int
    BY <1>4, <2>1, SummableParts
  <2>7. SumFunctionOnSet(f, rows) = rate * SumFunctionOnSet(a, rows)
    BY <2>3, <2>5, <2>6, SumScale
  <2>8. \A i, j \in Int : i * j = j * i  OBVIOUS
  <2> QED  BY <2>1, <2>3, <2>4, <2>6, <2>7, <2>8
<1>7. \A s, t \in CurrencySums : s # t => part[s] \cap part[t] = {}
  <2> SUFFICES ASSUME NEW s \in CurrencySums, NEW t \in CurrencySums, NEW row \in part[s], row \in part[t]
               PROVE  s = t
    OBVIOUS
  <2>1. row.currency = s.currency /\ row.currency = t.currency  BY DEF RowsOf
  <2> QED  BY <2>1, SumsAre
<1>8. \A row \in Rows : \E s \in CurrencySums : row \in part[s]  BY SumsAre DEF RowsOf
<1>9. DOMAIN conv = Rows /\ DOMAIN g = CurrencySums  BY DEF AreConverted, AreSums
<1> HIDE DEF f, h, part
<1>10. SumFunctionOnSet(f, Rows) = SumFunctionOnSet(g, CurrencySums)
  <2>1. Summable(g, CurrencySums)  BY <1>3, <1>6 DEF Summable
  <2> QED  BY <1>4, <1>6, <1>7, <1>8, <2>1, SumOfParts
<1>11. SumFunctionOnSet(h, Rows) = 2 * SumFunctionOnSet(conv, Rows)
  BY <1>4, <1>5, SumScale
<1>12. SumFunction(conv) = SumFunctionOnSet(conv, Rows) /\ SumFunction(g) = SumFunctionOnSet(g, CurrencySums)
  BY <1>9 DEF SumFunction
<1> DEFINE n == Cardinality(Rows)
           H == SumFunctionOnSet(h, Rows)
           F == SumFunctionOnSet(f, Rows)
           m == Cent + 1
<1>13. n \in Nat /\ H \in Int /\ F \in Int /\ m \in Int /\ -m \in Int
  <2>1. H \in Int /\ F \in Int  BY <1>4, SummableParts
  <2> QED  BY <1>3, <2>1, FS_CardinalityType, ValuationAssumption
<1>14. -m * n <= H - F /\ H - F <= m * n
  <2>1. \A row \in Rows : -m <= h[row] - f[row] /\ h[row] - f[row] <= m  BY <1>2
  <2> HIDE DEF m
  <2> QED  BY <1>4, <1>13, <2>1, SumClose
<1>15. 2 * SumFunction(conv) - SumFunction(g) = H - F  BY <1>10, <1>11, <1>12
<1> HIDE DEF n, H, F, m
<1>16. -m * n = -(n * m) /\ m * n = n * m /\ n * m \in Int  BY <1>13
<1>17. H - F \in -(n * m)..(n * m)
  <2> DEFINE nm == n * m
  <2>1. nm \in Int /\ -nm <= H - F /\ H - F <= nm  BY <1>14, <1>16
  <2> HIDE DEF nm
  <2>2. H - F \in -nm..nm  BY <1>13, <2>1
  <2> QED  BY <2>2 DEF nm
<1> QED  BY <1>15, <1>17 DEF n, m

\* The amounts of a row are integers, and a daily profit is of two NAVs.
LEMMA ValuedTypes ==
  ASSUME ValuationInv, NEW p \in Positions
  PROVE  /\ Row(p).market \in Int /\ Row(p).profit \in Int /\ Row(p).daily \in Int \cup {None}
         /\ Row(p).daily # None => Cardinality(Stored(navs[p])) > 1
<1> DEFINE position == Portfolio[p]
           navOf == navs[p]
           bought == executions[p]
           D == Latest(navOf)
           U == BoughtUnits(bought)
           G == BoughtGross(bought)
           b == BaseChange(position, navOf)
           r == RecurringMarket(navOf, bought)
<1>1. Row(p) = Valuation(position, navOf, bought)  BY DEF Row
<1>2. /\ HasNavs(navOf) /\ D \in Stored(navOf) /\ AreExecutions(bought)
      /\ \A d \in Stored(navOf) : navOf[d] \in Nat
      /\ Stored(navOf) \subseteq Days
  BY RowsOfPosition DEF Latest
<1>3. /\ position.units \in Int /\ position.market \in Int /\ position.profit \in Int
      /\ position.anchorNav \in Int
  <2>1. position.anchorNav \in Nat  BY PositionsAre
  <2> QED  BY <2>1, PositionsAre
<1>4. U \in Int /\ G \in Int  BY <1>2, BoughtAre
<1>5. b \in Int /\ r \in Int
  <2> DEFINE nav == navOf[D]
  <2>1. nav \in Int  BY <1>2
  <2>2. b = Money(position.units * (nav - position.anchorNav)) /\ r = Money(nav * U)
    BY DEF BaseChange, RecurringMarket
  <2> HIDE DEF nav, U, position, b, r
  <2>3. position.units * (nav - position.anchorNav) \in Int /\ nav * U \in Int
    BY <1>3, <1>4, <2>1
  <2> QED  BY <2>2, <2>3, MoneyIsClose
<1>6. /\ Row(p).market = Money(position.market + b + r)
      /\ Row(p).profit = Money(Money(position.profit + b) + Money(r - G))
  <2> HIDE DEF position, navOf, bought
  <2> QED  BY <1>1, <1>2, ValuedMarket, ValuedProfit
<1>7. Row(p).market \in Int /\ Row(p).profit \in Int
  <2> HIDE DEF position, b, r, G
  <2>1. position.market + b + r \in Int /\ position.profit + b \in Int /\ r - G \in Int
    BY <1>3, <1>4, <1>5
  <2>2. Money(position.profit + b) \in Int /\ Money(r - G) \in Int  BY <2>1, MoneyIsClose
  <2>3. Money(position.profit + b) + Money(r - G) \in Int  BY <2>2
  <2> QED  BY <1>6, <2>1, <2>3, MoneyIsClose
<1>8. CASE Earlier(navOf) = {}
  <2>1. Row(p).daily = None
    <3> HIDE DEF position, navOf, bought
    <3> QED  BY <1>1, <1>2, <1>8, ValuedDailyOnce
  <2> QED  BY <1>7, <2>1
<1>9. CASE Earlier(navOf) # {}
  <2> DEFINE E == Max(Earlier(navOf))
             units == DailyUnits(position, bought, D)
             gain == units * (navOf[D] - navOf[E])
  <2>0. IsFiniteSet(Stored(navOf))
    <3>1. IsFiniteSet(Days)  BY ValuationAssumption
    <3> QED  BY <1>2, <3>1, FS_Subset
  <2>1. E \in Stored(navOf)
    <3> DEFINE S == Earlier(navOf)
    <3>1. S \subseteq Stored(navOf) /\ S \subseteq Days  BY <1>2 DEF Earlier
    <3>2. IsFiniteSet(S)
      <4> HIDE DEF S
      <4> QED  BY <2>0, <3>1, FS_Subset
    <3>3. S \in SUBSET Nat  BY <3>1, ValuationAssumption
    <3>4. Max(S) \in S
      <4> HIDE DEF S
      <4>1. S # {}  BY <1>9 DEF S
      <4> QED  BY <3>2, <3>3, <4>1, LastOfFinite
    <3> QED  BY <3>1, <3>4
  <2>2. Row(p).daily = Money(gain)
    <3> HIDE DEF position, navOf, bought
    <3> QED  BY <1>1, <1>2, <1>9, ValuedDaily
  <2>3. units \in Int
    <3> DEFINE S == {d \in Stored(bought) : d < D}
               u == [d \in S |-> bought[d].units]
    <3>1. S \subseteq Stored(bought)  OBVIOUS
    <3>2. IsFiniteSet(S)
      <4> HIDE DEF S
      <4> QED  BY <1>2, <3>1, FS_Subset DEF AreExecutions
    <3>3. \A d \in S : u[d] \in Int  BY <1>2, <3>1 DEF AreExecutions
    <3>4. SumFunction(u) \in Int
      <4>1. DOMAIN u = S  OBVIOUS
      <4> HIDE DEF u, S
      <4>2. SumFunction(u) = SumFunctionOnSet(u, S)  BY <4>1 DEF SumFunction
      <4> QED  BY <3>2, <3>3, <4>2, SumType
    <3>5. units = position.units + SumFunction(u)  BY DEF DailyUnits
    <3> HIDE DEF u, units
    <3> QED  BY <1>3, <3>4, <3>5
  <2>4. gain \in Int
    <3> DEFINE nav == navOf[D]
               nav0 == navOf[E]
    <3>1. nav \in Int /\ nav0 \in Int  BY <1>2, <2>1
    <3> HIDE DEF nav, nav0, units
    <3>2. units * (nav - nav0) \in Int  BY <2>3, <3>1
    <3> QED  BY <3>2 DEF nav, nav0
  <2>5. Row(p).daily \in Int
    <3> HIDE DEF gain
    <3> QED  BY <2>2, <2>4, MoneyIsClose
  <2>6. Cardinality(Stored(navOf)) > 1
    <3> DEFINE S == Stored(navOf)
               T == Earlier(navOf)
    <3>1. T = S \ {D} /\ D \in S  BY <1>2 DEF Earlier
    <3>2. IsFiniteSet(S)  BY <2>0
    <3>3. T # {}  BY <1>9
    <3> HIDE DEF S, T, D
    <3>4. IsFiniteSet(T) /\ Cardinality(T) = Cardinality(S) - 1
      BY <3>1, <3>2, FS_RemoveElement
    <3>5. Cardinality(T) \in Nat /\ Cardinality(S) \in Nat /\ Cardinality(T) # 0
      BY <3>2, <3>3, <3>4, FS_CardinalityType, FS_EmptySet
    <3>6. Cardinality(S) > 1  BY <3>4, <3>5
    <3> QED  BY <3>6 DEF S
  <2> QED  BY <1>7, <2>5, <2>6
<1> QED  BY <1>8, <1>9

\* The amounts of a row of the portfolio, and the rate of its currency.
LEMMA TypedRows ==
  ASSUME ValuationInv, NEW row \in Rows
  PROVE  /\ row.valued.market \in Int /\ row.valued.profit \in Int
         /\ row.valued.daily \in Int \cup {None}
         /\ ConversionRate(row.currency) \in Int \cup {None}
<1>1. PICK p \in Positions : row = RowOf(p)  BY RowsAre
<1>2. row.valued = Row(p) /\ row.currency = Portfolio[p].currency  BY <1>1 DEF RowOf
<1>3. ConversionRate(row.currency) \in Int \cup {None}
  <2>1. LatestRate(rates) \in Int \cup {None}
    <3> DEFINE S == Stored(rates)
    <3>1. CASE S = {}  BY <3>1 DEF LatestRate
    <3>2. CASE S # {}
      <4>1. DOMAIN rates = RateDays /\ \A d \in S : rates[d] \in Int
        BY DEF ValuationInv, ValuationTypes, Stored
      <4>2. S \subseteq RateDays  BY <4>1 DEF Stored
      <4>3. IsFiniteSet(S) /\ S \in SUBSET Nat
        <5>1. IsFiniteSet(RateDays) /\ RateDays \subseteq Nat  BY ValuationAssumption
        <5> HIDE DEF S
        <5> QED  BY <4>2, <5>1, FS_Subset
      <4>4. Max(S) \in S
        <5> HIDE DEF S
        <5> QED  BY <3>2, <4>3, LastOfFinite
      <4>5. LatestRate(rates) = rates[Max(S)]  BY <3>2 DEF LatestRate
      <4> QED  BY <4>1, <4>4, <4>5
    <3> QED  BY <3>1, <3>2
  <2>2. row.currency \in {"CNY", "USD", "HKD"}  BY <1>2, PositionsAre
  <2> QED  BY <2>1, <2>2 DEF ConversionRate
<1> QED  BY <1>2, <1>3, ValuedTypes

\* The sum of one currency.
LEMMA CurrencySummaryIs ==
  ASSUME NEW rows, NEW s, s = CurrencySummary(rows)
  PROVE  /\ s.market = SumFunction([row \in rows |-> row.valued.market])
         /\ s.profit = SumFunction([row \in rows |-> row.valued.profit])
         /\ s.daily = IF Dated(rows) = {} THEN None
                      ELSE SumFunction([row \in Dated(rows) |-> row.valued.daily])
         /\ s.dailyReturn =
               IF Dated(rows) # rows THEN None
               ELSE RatioPct(SumFunction([row \in Dated(rows) |-> row.valued.daily]),
                             SumFunction([row \in rows |-> row.valued.market])
                               - SumFunction([row \in Dated(rows) |-> row.valued.daily]))
BY DEF CurrencySummary

\* And the sum in CNY.
LEMMA ConvertedSummaryIs ==
  ASSUME NEW rows, NEW sum, sum = ConvertedSummary(rows), sum # None
  PROVE  /\ \A row \in rows : ConversionRate(row.currency) # None
         /\ sum.market = SumFunction([row \in rows |-> Converted(row, row.valued.market)])
         /\ sum.profit = SumFunction([row \in rows |-> Converted(row, row.valued.profit)])
         /\ sum.daily = ConvertedDaily(rows)
<1>1. ~ \E row \in rows : ConversionRate(row.currency) = None  BY DEF ConvertedSummary
<1> QED  BY <1>1 DEF ConvertedSummary

\* Whatever the amount is that is summed.
LEMMA AmountsAdd ==
  ASSUME ValuationInv, \A row \in Rows : ConversionRate(row.currency) # None,
         NEW a, AreAmounts(a), NEW conv, AreConverted(conv, a), NEW g, DOMAIN g = CurrencySums,
         NEW of, \A s \in CurrencySums : g[s] = of[s] * ConversionRate(s.currency),
         \A s \in CurrencySums : of[s] = SumFunctionOnSet(a, RowsOf(s.currency))
  PROVE  2 * SumFunction(conv) - SumFunction(g)
           \in -(Cardinality(Rows) * (Cent + 1))..(Cardinality(Rows) * (Cent + 1))
<1>1. \A row \in Rows : ConversionRate(row.currency) \in Int  BY TypedRows
<1>2. AreSums(g, a)  BY DEF AreSums
<1> QED  BY <1>1, <1>2, CurrenciesAdd

\* The sum of an amount over some rows.
LEMMA SumOfAmounts ==
  ASSUME NEW f, NEW S, S \subseteq Rows, DOMAIN f = S, NEW a, \A row \in S : f[row] = a[row]
  PROVE  SumFunction(f) = SumFunctionOnSet(a, S)
<1>1. IsFiniteSet(S)  BY RowsAre, FS_Subset
<1> QED  BY <1>1, SumOver

SummaryAdds(sum, field) ==
    2 * sum[field] - SumFunction([s \in CurrencySums |-> s.of[field] * ConversionRate(s.currency)])
        \in -(Cardinality(Rows) * (Cent + 1))..(Cardinality(Rows) * (Cent + 1))

\* The market values add up, ...
LEMMA MarketAdds ==
  ASSUME ValuationInv, NEW sum, sum = ConvertedSummary(Rows), sum # None
  PROVE  SummaryAdds(sum, "market")
<1> DEFINE a == [row \in Rows |-> row.valued.market]
           conv == [row \in Rows |-> Converted(row, row.valued.market)]
           g == [s \in CurrencySums |-> s.of.market * ConversionRate(s.currency)]
           of == [s \in CurrencySums |-> s.of.market]
<1>1. AreAmounts(a) /\ AreConverted(conv, a) /\ DOMAIN g = CurrencySums
  BY TypedRows DEF AreAmounts, AreConverted
<1>2. \A s \in CurrencySums : g[s] = of[s] * ConversionRate(s.currency)  OBVIOUS
<1>3. \A s \in CurrencySums : of[s] = SumFunctionOnSet(a, RowsOf(s.currency))
  <2> SUFFICES ASSUME NEW s \in CurrencySums
               PROVE  of[s] = SumFunctionOnSet(a, RowsOf(s.currency))
    OBVIOUS
  <2> DEFINE rows == RowsOf(s.currency)
             f == [row \in rows |-> row.valued.market]
  <2>1. s.of = CurrencySummary(rows) /\ rows \subseteq Rows  BY SumsAre DEF RowsOf
  <2>2. of[s] = SumFunction(f)
    <3> HIDE DEF rows
    <3> QED  BY <2>1, CurrencySummaryIs
  <2>3. DOMAIN f = rows /\ \A row \in rows : f[row] = a[row]  BY <2>1
  <2> HIDE DEF f, a, rows
  <2>4. SumFunction(f) = SumFunctionOnSet(a, rows)  BY <2>1, <2>3, SumOfAmounts
  <2> QED  BY <2>2, <2>4 DEF rows
<1>4. \A row \in Rows : ConversionRate(row.currency) # None  BY ConvertedSummaryIs
<1>5. sum.market = SumFunction(conv)  BY ConvertedSummaryIs
<1> HIDE DEF a, conv, g, of
<1>6. 2 * SumFunction(conv) - SumFunction(g)
        \in -(Cardinality(Rows) * (Cent + 1))..(Cardinality(Rows) * (Cent + 1))
  BY <1>1, <1>2, <1>3, <1>4, AmountsAdd
<1> QED  BY <1>5, <1>6 DEF SummaryAdds, g

\* ... so do the profits, ...
LEMMA ProfitAdds ==
  ASSUME ValuationInv, NEW sum, sum = ConvertedSummary(Rows), sum # None
  PROVE  SummaryAdds(sum, "profit")
<1> DEFINE a == [row \in Rows |-> row.valued.profit]
           conv == [row \in Rows |-> Converted(row, row.valued.profit)]
           g == [s \in CurrencySums |-> s.of.profit * ConversionRate(s.currency)]
           of == [s \in CurrencySums |-> s.of.profit]
<1>1. AreAmounts(a) /\ AreConverted(conv, a) /\ DOMAIN g = CurrencySums
  BY TypedRows DEF AreAmounts, AreConverted
<1>2. \A s \in CurrencySums : g[s] = of[s] * ConversionRate(s.currency)  OBVIOUS
<1>3. \A s \in CurrencySums : of[s] = SumFunctionOnSet(a, RowsOf(s.currency))
  <2> SUFFICES ASSUME NEW s \in CurrencySums
               PROVE  of[s] = SumFunctionOnSet(a, RowsOf(s.currency))
    OBVIOUS
  <2> DEFINE rows == RowsOf(s.currency)
             f == [row \in rows |-> row.valued.profit]
  <2>1. s.of = CurrencySummary(rows) /\ rows \subseteq Rows  BY SumsAre DEF RowsOf
  <2>2. of[s] = SumFunction(f)
    <3> HIDE DEF rows
    <3> QED  BY <2>1, CurrencySummaryIs
  <2>3. DOMAIN f = rows /\ \A row \in rows : f[row] = a[row]  BY <2>1
  <2> HIDE DEF f, a, rows
  <2>4. SumFunction(f) = SumFunctionOnSet(a, rows)  BY <2>1, <2>3, SumOfAmounts
  <2> QED  BY <2>2, <2>4 DEF rows
<1>4. \A row \in Rows : ConversionRate(row.currency) # None  BY ConvertedSummaryIs
<1>5. sum.profit = SumFunction(conv)  BY ConvertedSummaryIs
<1> HIDE DEF a, conv, g, of
<1>6. 2 * SumFunction(conv) - SumFunction(g)
        \in -(Cardinality(Rows) * (Cent + 1))..(Cardinality(Rows) * (Cent + 1))
  BY <1>1, <1>2, <1>3, <1>4, AmountsAdd
<1> QED  BY <1>5, <1>6 DEF SummaryAdds, g

\* A daily profit in CNY is of every position.
LEMMA AllAreDated ==
  ASSUME NEW sum, sum = ConvertedSummary(Rows), sum # None, sum.daily # None
  PROVE  /\ \A row \in Rows : row.valued.daily # None
         /\ \A c : Dated(RowsOf(c)) = RowsOf(c)
         /\ sum.daily = SumFunction([row \in Rows |-> Converted(row, row.valued.daily)])
<1>1. sum.daily = ConvertedDaily(Rows)  BY ConvertedSummaryIs
<1>2. Dated(Rows) = Rows
      /\ sum.daily = SumFunction([row \in Rows |-> Converted(row, row.valued.daily)])
  BY <1>1 DEF ConvertedDaily
<1>3. \A row \in Rows : row.valued.daily # None  BY <1>2 DEF Dated
<1>4. \A c : Dated(RowsOf(c)) = RowsOf(c)  BY <1>3 DEF Dated, RowsOf
<1> QED  BY <1>2, <1>3, <1>4

\* ... and the daily profits where every position has one.
LEMMA DailyAdds ==
  ASSUME ValuationInv, NEW sum, sum = ConvertedSummary(Rows), sum # None, sum.daily # None
  PROVE  /\ SummaryAdds(sum, "daily")
         /\ \A s \in CurrencySums : /\ s.of.daily # None
                                    /\ s.of.dailyReturn # None \/ s.of.market <= s.of.daily
<1> DEFINE a == [row \in Rows |-> row.valued.daily]
           conv == [row \in Rows |-> Converted(row, row.valued.daily)]
           g == [s \in CurrencySums |-> s.of.daily * ConversionRate(s.currency)]
           of == [s \in CurrencySums |-> s.of.daily]
<1>0. \A row \in Rows : row.valued.daily \in Int  BY TypedRows, AllAreDated
<1>1. AreAmounts(a) /\ AreConverted(conv, a) /\ DOMAIN g = CurrencySums
  BY <1>0 DEF AreAmounts, AreConverted
<1>2. \A s \in CurrencySums : g[s] = of[s] * ConversionRate(s.currency)  OBVIOUS
<1>3. \A s \in CurrencySums :
         /\ of[s] = SumFunctionOnSet(a, RowsOf(s.currency))
         /\ s.of.daily \in Int
         /\ s.of.dailyReturn # None \/ s.of.market <= s.of.daily
  <2> SUFFICES ASSUME NEW s \in CurrencySums
               PROVE  /\ of[s] = SumFunctionOnSet(a, RowsOf(s.currency))
                      /\ s.of.daily \in Int
                      /\ s.of.dailyReturn # None \/ s.of.market <= s.of.daily
    OBVIOUS
  <2> DEFINE rows == RowsOf(s.currency)
             f == [row \in rows |-> row.valued.daily]
             m == [row \in rows |-> row.valued.market]
             daily == SumFunction(f)
             market == SumFunction(m)
  <2>1. s.of = CurrencySummary(rows) /\ rows \subseteq Rows /\ rows # {}  BY SumsAre DEF RowsOf
  <2>2. Dated(rows) = rows  BY AllAreDated
  <2>3. /\ s.of.daily = daily /\ s.of.market = market
        /\ s.of.dailyReturn = RatioPct(daily, market - daily)
    <3> DEFINE all == s.of
    <3>1. all = CurrencySummary(rows) /\ Dated(rows) = rows /\ rows # {}  BY <2>1, <2>2
    <3> HIDE DEF rows, all
    <3> DEFINE dated == SumFunction([row \in Dated(rows) |-> row.valued.daily])
    <3>2. /\ all.market = market
          /\ all.daily = IF Dated(rows) = {} THEN None ELSE dated
          /\ all.dailyReturn = IF Dated(rows) # rows THEN None ELSE RatioPct(dated, market - dated)
      BY <3>1, CurrencySummaryIs
    <3>3. dated = daily  BY <3>1
    <3> HIDE DEF dated, daily, market
    <3>4. all.daily = daily /\ all.dailyReturn = RatioPct(daily, market - daily)
      BY <3>1, <3>2, <3>3
    <3> QED  BY <3>2, <3>3, <3>4 DEF all
  <2>4. /\ DOMAIN f = rows /\ DOMAIN m = rows
        /\ \A row \in rows : f[row] = a[row] /\ f[row] \in Int /\ m[row] \in Int
    BY <1>0, <2>1, TypedRows
  <2> HIDE DEF f, m, a, rows
  <2>5. daily = SumFunctionOnSet(a, rows)  BY <2>1, <2>4, SumOfAmounts
  <2>6. daily \in Int /\ market \in Int
    <3>1. IsFiniteSet(rows)  BY <2>1, RowsAre, FS_Subset
    <3>2. daily = SumFunctionOnSet(f, rows) /\ market = SumFunctionOnSet(m, rows)
      BY <2>4 DEF SumFunction
    <3> QED  BY <2>4, <3>1, <3>2, SumType
  <2> HIDE DEF daily, market
  <2>7. RatioPct(daily, market - daily) = None => market <= daily
    <3> SUFFICES ASSUME ~(market <= daily)  PROVE RatioPct(daily, market - daily) # None
      OBVIOUS
    <3> DEFINE d == market - daily
    <3>1. d \in Nat \ {0} /\ ~(d <= 0) /\ 100 * daily \in Int  BY <2>6
    <3> HIDE DEF d
    <3>2. RatioPct(daily, d) = RoundHalfUp(100 * daily, d)  BY <3>1 DEF RatioPct
    <3>3. RoundHalfUp(100 * daily, d) \in Int  BY <3>1, RoundedIsClose
    <3> QED  BY <3>2, <3>3, ValuationAssumption DEF d
  <2> QED  BY <2>3, <2>5, <2>6, <2>7 DEF rows
<1>4. \A row \in Rows : ConversionRate(row.currency) # None  BY ConvertedSummaryIs
<1>5. sum.daily = SumFunction(conv)  BY AllAreDated
<1>6. \A s \in CurrencySums : s.of.daily # None  BY <1>3, ValuationAssumption
<1> HIDE DEF a, conv, g, of
<1>7. 2 * SumFunction(conv) - SumFunction(g)
        \in -(Cardinality(Rows) * (Cent + 1))..(Cardinality(Rows) * (Cent + 1))
  BY <1>1, <1>2, <1>3, <1>4, AmountsAdd
<1> QED  BY <1>3, <1>5, <1>6, <1>7 DEF SummaryAdds, g

\* The daily return of a currency is of every position in it.
LEMMA DailyReturnIsOfAll ==
  ASSUME ValuationInv, NEW s \in CurrencySums, s.of.dailyReturn # None,
         NEW p \in Positions, Portfolio[p].currency = s.currency
  PROVE  Cardinality(Stored(navs[p])) > 1
<1>1. RowOf(p) \in Rows /\ RowOf(p).currency = s.currency /\ RowOf(p).valued = Row(p)
  BY RowsAre DEF RowOf
<1>2. RowOf(p) \in RowsOf(s.currency)  BY <1>1 DEF RowsOf
<1>3. Dated(RowsOf(s.currency)) = RowsOf(s.currency)
  <2> DEFINE rows == RowsOf(s.currency)
  <2>1. s.of = CurrencySummary(rows)  BY SumsAre
  <2> HIDE DEF rows
  <2>2. Dated(rows) = rows  BY <2>1, CurrencySummaryIs
  <2> QED  BY <2>2 DEF rows
<1>4. Row(p).daily # None  BY <1>1, <1>2, <1>3 DEF Dated
<1> QED  BY <1>4, ValuedTypes

\* So do the sums hide nothing in any such state.
LEMMA TypedSumsHideNothing == ValuationInv => SumsHideNothing
<1> SUFFICES ASSUME ValuationInv  PROVE SumsHideNothing  OBVIOUS
<1> DEFINE sum == ConvertedSummary(Rows)
<1>1. CurrencySums = {[currency |-> c, of |-> CurrencySummary({row \in Rows : row.currency = c})]
                        : c \in {row.currency : row \in Rows}}
  BY DEF CurrencySums, SumOfCurrency, RowsOf
<1>2. ASSUME sum # None
      PROVE  /\ SummaryAdds(sum, "market") /\ SummaryAdds(sum, "profit")
             /\ sum.daily # None =>
                   /\ SummaryAdds(sum, "daily")
                   /\ \A s \in CurrencySums :
                         /\ s.of.daily # None
                         /\ s.of.dailyReturn # None \/ s.of.market <= s.of.daily
  BY <1>2, MarketAdds, ProfitAdds, DailyAdds
<1>3. \A s \in CurrencySums :
         s.of.dailyReturn # None =>
             \A p \in Positions :
                Portfolio[p].currency = s.currency => Cardinality(Stored(navs[p])) > 1
  BY DailyReturnIsOfAll
<1> QED  BY <1>1, <1>2, <1>3 DEF SumsHideNothing, SummaryAdds

\* For any portfolio, NAVs and rates: where the converted sum of the portfolio is shown, it is
\* the sum of its currencies up to the roundings, and a daily sum or return is of positions
\* that all have one (api.py, the totals of the portfolio).
THEOREM NothingIsHidden == ValuationSpec => []SumsHideNothing
<1>1. ValuationInit => ValuationInv  BY ValuationStarts
<1>2. ValuationInv /\ [ValuationNext]_valuationVars => ValuationInv'  BY ValuationStays
<1>3. ValuationInv => SumsHideNothing  BY TypedSumsHideNothing
<1> QED  BY <1>1, <1>2, <1>3, PTL DEF ValuationSpec

-----------------------------------------------------------------------------
(* The review again: what is predicted is a number.                        *)

\* A finite set of integers has a greatest and a least.
LEMMA Extremes ==
  ASSUME NEW S \in SUBSET Int, IsFiniteSet(S), S # {}
  PROVE  /\ Max(S) \in S /\ \A x \in S : x <= Max(S)
         /\ Min(S) \in S /\ \A x \in S : Min(S) <= x
<1> DEFINE good == {s \in SUBSET S : s # {} => /\ \E m \in s : \A x \in s : x <= m
                                               /\ \E m \in s : \A x \in s : m <= x}
<1>1. {} \in good  OBVIOUS
<1>2. ASSUME NEW s \in SUBSET S, NEW y \in s, s \ {y} \in good  PROVE s \in good
  <2> DEFINE t == s \ {y}
  <2>0. y \in Int /\ \A x \in s : x \in Int  OBVIOUS
  <2>1. CASE t = {}
    <3>1. \A x \in s : x = y  BY <2>1
    <3> QED  BY <2>0, <3>1
  <2>2. CASE t # {}
    <3>1. PICK m \in t : \A x \in t : x <= m  BY <1>2, <2>2
    <3>2. PICK n \in t : \A x \in t : n <= x  BY <1>2, <2>2
    <3>3. \E h \in s : \A x \in s : x <= h
      <4>1. \A x \in s : x = y \/ x \in t  OBVIOUS
      <4>2. m \in s /\ m \in Int  OBVIOUS
      <4>3. CASE y <= m
        <5>1. \A x \in s : x <= m  BY <3>1, <4>1, <4>3
        <5> QED  BY <4>2, <5>1
      <4>4. CASE m < y
        <5>1. \A x \in s : x <= y  BY <2>0, <3>1, <4>1, <4>2, <4>4
        <5> QED  BY <5>1
      <4> QED  BY <2>0, <4>2, <4>3, <4>4
    <3>4. \E l \in s : \A x \in s : l <= x
      <4>1. \A x \in s : x = y \/ x \in t  OBVIOUS
      <4>2. n \in s /\ n \in Int  OBVIOUS
      <4>3. CASE n <= y
        <5>1. \A x \in s : n <= x  BY <3>2, <4>1, <4>3
        <5> QED  BY <4>2, <5>1
      <4>4. CASE y < n
        <5>1. \A x \in s : y <= x  BY <2>0, <3>2, <4>1, <4>2, <4>4
        <5> QED  BY <5>1
      <4> QED  BY <2>0, <4>2, <4>3, <4>4
    <3> QED  BY <3>3, <3>4
  <2> QED  BY <2>1, <2>2
<1> HIDE DEF good
<1>3. S \in good  BY <1>1, <1>2, SetInduction
<1>4. /\ \E m \in S : \A x \in S : x <= m
      /\ \E m \in S : \A x \in S : m <= x
  BY <1>3 DEF good
<1>5. Max(S) \in S /\ \A x \in S : Max(S) >= x
  <2>1. \E m \in S : \A x \in S : m >= x  BY <1>4
  <2> QED  BY <2>1 DEF Max
<1>6. Min(S) \in S /\ \A x \in S : Min(S) <= x  BY <1>4 DEF Min
<1> QED  BY <1>5, <1>6

\* A return is between two closes of the series, if it is between any.
LEMMA BetweenCloses ==
  ASSUME NEW S, NEW D, AreDays(S), AreDays(D), NEW lag \in {0, 1}, NEW d \in Nat
  PROVE  /\ Between(S, D, lag, d).to \in S \cup {None}
         /\ Between(S, D, lag, d).from \in S \cup {None}
<1> DEFINE earlier == {Selected(S, lag, e) : e \in {e \in D : e < d}} \ {None}
           to == Selected(S, lag, d)
           before == {p \in S : p < to}
           none == IF to = None THEN None ELSE IF earlier # {} THEN Max(earlier) ELSE LastOf(before)
<1>1. Between(S, D, lag, d) = [to |-> to, from |-> none]  BY DEF Between, Span
<1>2. S \in SUBSET Nat /\ D \in SUBSET Nat  BY DEF AreDays
<1>3. \A x \in Nat : Selected(S, lag, x) # None => Selected(S, lag, x) \in S /\ Selected(S, lag, x) <= x
  <2> TAKE x \in Nat
  <2>1. Same(S, S, x) /\ x <= x  BY DEF Same
  <2> QED  BY <1>2, <2>1, SelectedIsOld
<1>4. to \in S \cup {None}  BY <1>3
<1>5. none \in S \cup {None}
  <2>1. CASE to # None /\ earlier # {}
    <3>1. earlier \in SUBSET Nat /\ earlier \subseteq S /\ \A x \in earlier : x <= d
      <4>1. \A e \in D : e < d => e \in Nat /\ e <= d  BY <1>2
      <4>2. ASSUME NEW e \in D, e < d, Selected(S, lag, e) # None
            PROVE  /\ Selected(S, lag, e) \in S /\ Selected(S, lag, e) \in Nat
                   /\ Selected(S, lag, e) <= d
        <5>1. e \in Nat  BY <4>1, <4>2
        <5>2. Selected(S, lag, e) \in S /\ Selected(S, lag, e) <= e  BY <1>3, <4>2, <5>1
        <5>3. Selected(S, lag, e) \in Nat  BY <1>2, <5>2
        <5> QED  BY <4>2, <5>1, <5>2, <5>3
      <4> QED  BY <4>2
    <3>2. Max(earlier) \in earlier
      <4> HIDE DEF earlier
      <4> QED  BY <2>1, <3>1, LastDay
    <3>3. none = Max(earlier)  BY <2>1
    <3> HIDE DEF earlier, none
    <3> QED  BY <3>1, <3>2, <3>3
  <2>2. CASE to # None /\ earlier = {} /\ before # {}
    <3> HIDE DEF to, earlier
    <3>0. to # None  BY <2>2
    <3>1. to \in S /\ to \in Nat  BY <1>2, <1>4, <3>0
    <3>2. /\ before \in SUBSET Nat
          /\ \A x \in before : x <= to
      <4>1. \A x \in before : x \in S /\ x < to  OBVIOUS
      <4> HIDE DEF before
      <4>2. \A x \in before : x \in Nat /\ x < to  BY <1>2, <4>1
      <4> QED  BY <3>1, <4>2
    <3>3. none = LastOf(before)  BY <2>2
    <3> HIDE DEF before, none
    <3>4. Max(before) \in before  BY <2>2, <3>1, <3>2, LastDay
    <3>5. Max(before) \in S  BY <3>4 DEF before
    <3> QED  BY <2>2, <3>3, <3>5 DEF LastOf
  <2>3. CASE to # None /\ earlier = {} /\ before = {}  BY <2>3 DEF LastOf
  <2>4. CASE to = None  BY <2>4
  <2> QED  BY <2>1, <2>2, <2>3, <2>4
<1> HIDE DEF to, none
<1> QED  BY <1>1, <1>4, <1>5

\* The closes a request reads have been published.
ClosesArePublished == \A name \in DOMAIN Level : series[name] \subseteq DOMAIN Level[name]

ReviewInv == ReviewTypes /\ ClosesArePublished

\* None has been read when the review starts ...
LEMMA ReviewInvStarts == ReviewInit => ReviewInv
<1>1. ReviewInit => ReviewTypes  BY ReviewTypesStart
<1>2. ReviewInit => ClosesArePublished  BY DEF ReviewInit, ClosesArePublished
<1> QED  BY <1>1, <1>2 DEF ReviewInv

\* ... and what is stored later has been published.
LEMMA ReviewInvStays ==
  ASSUME ReviewInv, [ReviewNext]_reviewVars
  PROVE  ReviewInv'
<1>1. ReviewTypes'  BY ReviewTypesStay DEF ReviewInv
<1>2. ASSUME NEW d \in Calendar, NEW name \in DOMAIN Level, PublishClose(name, d)
      PROVE  ClosesArePublished'
  <2>1. series \in [DOMAIN Level -> SUBSET Calendar]  BY DEF ReviewInv, ReviewTypes
  <2> QED  BY <1>2, <2>1 DEF PublishClose, ReviewInv, ClosesArePublished
<1>3. ASSUME UNCHANGED series  PROVE ClosesArePublished'
  BY <1>3 DEF ReviewInv, ClosesArePublished
<1>4. ASSUME NEW d \in Calendar, NEW share \in Shares, StoreFundNav(share, d)
      PROVE  UNCHANGED series
  BY <1>4 DEF StoreFundNav
<1>5. ASSUME NEW d \in ReferenceDays, StoreReference(d)  PROVE UNCHANGED series
  BY <1>5 DEF StoreReference
<1>6. DayPasses => UNCHANGED series  BY DEF DayPasses
<1>7. UNCHANGED reviewVars => UNCHANGED series  BY DEF reviewVars
<1> QED  BY <1>1, <1>2, <1>3, <1>4, <1>5, <1>6, <1>7 DEF ReviewNext, ReviewInv

\* A return is a difference of closes that are known, in the currency of the share.
LEMMA ReturnIsInteger ==
  ASSUME NEW name \in DOMAIN Level, NEW between, NEW rateDays, NEW foreign,
         between.from \in DOMAIN Level[name] \cup {None},
         between.to \in DOMAIN Level[name] \cup {None},
         rateDays \subseteq DOMAIN Level["fx"]
  PROVE  Return(name, between, rateDays, foreign) \in Int \cup {None}
<1> DEFINE at(d) == Level[name][d] + (IF foreign THEN Level["fx"][d] ELSE 0)
           skipped == \/ None \in {between.from, between.to}
                      \/ between.from = between.to
                      \/ foreign /\ ~({between.from, between.to} \subseteq rateDays)
<1>1. Return(name, between, rateDays, foreign)
        = IF skipped THEN None ELSE at(between.to) - at(between.from)
  BY DEF Return
<1>2. ASSUME ~skipped, NEW d \in {between.from, between.to}  PROVE at(d) \in Int
  <2>1. d \in DOMAIN Level[name]  BY <1>2
  <2>2. Level[name][d] \in Int  BY <2>1, AmountsAssumption
  <2>3. foreign => d \in DOMAIN Level["fx"]  BY <1>2
  <2>4. foreign => Level["fx"][d] \in Int  BY <2>3, AmountsAssumption, NamesAssumption
  <2> QED  BY <2>2, <2>4
<1> HIDE DEF at, skipped
<1>3. ~skipped => at(between.to) \in Int /\ at(between.from) \in Int  BY <1>2
<1> QED  BY <1>1, <1>3

\* Every part that may be priced has a weight, and a return or none.
LEMMA PartsAreNumbers ==
  ASSUME ReviewInv, NEW share \in Shares, NEW d \in Nat
  PROVE  /\ \A part \in Parts(RowsRead, share, day, d) :
               part.weight \in Nat /\ part.return \in Int \cup {None}
         /\ IsFiniteSet(Parts(RowsRead, share, day, d))
<1> DEFINE fund == FundOf(share)
           held == {h \in fund.holdings : h.series # None}
           part(kind, h, r) == [kind |-> kind, of |-> h, weight |-> h.weight, return |-> r]
           aligned(kind, items) == {part(kind, h, Aligned(RowsRead, share, day, h, d)) : h \in items}
           resolved == {part("fund", h, FundReturn(RowsRead, day, h, d)) : h \in fund.funds}
<1>1. Parts(RowsRead, share, day, d)
        = aligned("holding", held) \cup aligned("proxy", fund.proxies) \cup resolved
  BY DEF Parts
<1>2. /\ IsFiniteSet(fund.holdings \cup fund.proxies \cup fund.funds)
      /\ \A h \in fund.holdings \cup fund.proxies \cup fund.funds : h.weight \in Nat
  BY AmountsAssumption, NamesAssumption DEF FundOf, Shares
<1>3. /\ \A h \in held : h.series \in DOMAIN Level
      /\ \A h \in fund.proxies : h.series \in DOMAIN Level
      /\ \A h \in fund.funds : h.share \in Shares \cup {None}
  <2>1. \A h \in fund.holdings : h.series \in DOMAIN Level \cup {None}  BY FundsOfShares
  <2>2. \A h \in fund.proxies : h.series \in DOMAIN Level  BY FundsOfShares
  <2>3. \A h \in fund.funds : h.share \in Shares \cup {None}  BY FundsOfShares
  <2> QED  BY <2>1, <2>2, <2>3
<1>4. ASSUME NEW h, h.series \in DOMAIN Level
      PROVE  Aligned(RowsRead, share, day, h, d) \in Int \cup {None}
  <2> DEFINE points == Points(RowsRead, h.series, day)
             dates == AnalysisDates(RowsRead, share, day)
             lag == Lag(FundOf(share).policy, h.market)
             rateDays == Points(RowsRead, "fx", day)
             between == Between(points, dates, lag, d)
             foreign == h.currency # ShareOfFund[share].currency
  <2>1. Aligned(RowsRead, share, day, h, d) = Return(h.series, between, rateDays, foreign)
    BY DEF Aligned
  <2>2. IsRows(RowsRead) /\ day \in RequestDays
    BY RowsAreRows, <1>2 DEF ReviewInv, ReviewTypes, RequestDays, IsRows, RowsRead
  <2>3. points \in SUBSET Nat /\ dates \in SUBSET Nat  BY <2>2, ReadDays, <1>4
  <2>4. lag \in {0, 1}  BY LagIsOneAtMost
  <2>5. points \subseteq DOMAIN Level[h.series] /\ rateDays \subseteq DOMAIN Level["fx"]
    BY <1>4, NamesAssumption DEF ReviewInv, ClosesArePublished, Points, RowsRead
  <2>6. AreDays(points) /\ AreDays(dates)  BY <2>3 DEF AreDays
  <2> HIDE DEF points, dates, lag, rateDays, foreign
  <2>7. between.to \in points \cup {None} /\ between.from \in points \cup {None}
    BY <2>4, <2>6, BetweenCloses
  <2>8. /\ between.from \in DOMAIN Level[h.series] \cup {None}
        /\ between.to \in DOMAIN Level[h.series] \cup {None}
    BY <2>5, <2>7
  <2> HIDE DEF between
  <2>9. Return(h.series, between, rateDays, foreign) \in Int \cup {None}
    BY <1>4, <2>5, <2>8, ReturnIsInteger
  <2> QED  BY <2>1, <2>9
<1>5. ASSUME NEW h \in fund.funds  PROVE FundReturn(RowsRead, day, h, d) \in Int \cup {None}
  <2>1. h.share # None => h.share \in Shares  BY <1>3
  <2>2. ASSUME NEW s \in Shares, d \in fundNavs[s]
        PROVE  NavsPublished[s][d].actual \in Int \cup {None}
    BY <2>2, AmountsAssumption DEF ReviewInv, ReviewTypes, Shares
  <2> QED  BY <2>1, <2>2 DEF FundReturn, Actual, RowsRead
<1> HIDE DEF fund
<1>6. ASSUME NEW p \in Parts(RowsRead, share, day, d)
      PROVE  p.weight \in Nat /\ p.return \in Int \cup {None}
  <2>1. CASE p \in aligned("holding", held)
    <3>1. PICK h \in held : p = part("holding", h, Aligned(RowsRead, share, day, h, d))  BY <2>1
    <3>2. p.weight = h.weight /\ p.return = Aligned(RowsRead, share, day, h, d)  BY <3>1
    <3> QED  BY <1>2, <1>3, <1>4, <3>2
  <2>2. CASE p \in aligned("proxy", fund.proxies)
    <3>1. PICK h \in fund.proxies : p = part("proxy", h, Aligned(RowsRead, share, day, h, d))
      BY <2>2
    <3>2. p.weight = h.weight /\ p.return = Aligned(RowsRead, share, day, h, d)  BY <3>1
    <3> QED  BY <1>2, <1>3, <1>4, <3>2
  <2>3. CASE p \in resolved
    <3>1. PICK h \in fund.funds : p = part("fund", h, FundReturn(RowsRead, day, h, d))  BY <2>3
    <3>2. p.weight = h.weight /\ p.return = FundReturn(RowsRead, day, h, d)  BY <3>1
    <3> QED  BY <1>2, <1>5, <3>2
  <2> HIDE DEF aligned, resolved
  <2> QED  BY <1>1, <2>1, <2>2, <2>3
<1>7. IsFiniteSet(held) /\ IsFiniteSet(fund.proxies) /\ IsFiniteSet(fund.funds)
  <2>1. /\ held \subseteq fund.holdings \cup fund.proxies \cup fund.funds
        /\ fund.proxies \subseteq fund.holdings \cup fund.proxies \cup fund.funds
        /\ fund.funds \subseteq fund.holdings \cup fund.proxies \cup fund.funds
    OBVIOUS
  <2> QED  BY <1>2, <2>1, FS_Subset
<1>8. \A kind : \A S : IsFiniteSet(S) => IsFiniteSet(aligned(kind, S))
  <2> TAKE kind, S
  <2> HAVE IsFiniteSet(S)
  <2> DEFINE F == [h \in S |-> part(kind, h, Aligned(RowsRead, share, day, h, d))]
             T == aligned(kind, S)
  <2>1. T = {F[h] : h \in S}  OBVIOUS
  <2> HIDE DEF F, T
  <2>2. IsFiniteSet(T)  BY <2>1, FiniteImage
  <2> QED  BY <2>2 DEF T
<1>9. IsFiniteSet(resolved)
  <2> DEFINE S == fund.funds
             F == [h \in S |-> part("fund", h, FundReturn(RowsRead, day, h, d))]
  <2>1. resolved = {F[h] : h \in S}  OBVIOUS
  <2>2. IsFiniteSet(S)  BY <1>7
  <2> HIDE DEF F, S, resolved
  <2> QED  BY <2>1, <2>2, FiniteImage
<1>10. IsFiniteSet(Parts(RowsRead, share, day, d))
  <2> HIDE DEF aligned, resolved, held
  <2>1. IsFiniteSet(aligned("holding", held)) /\ IsFiniteSet(aligned("proxy", fund.proxies))
    BY <1>7, <1>8
  <2>2. IsFiniteSet(aligned("holding", held) \cup aligned("proxy", fund.proxies))
    BY <2>1, FS_Union
  <2> QED  BY <1>1, <1>9, <2>2, FS_Union
<1> QED  BY <1>6, <1>10

\* Parts that a prediction may be the mean of.
AreParts(parts) ==
    /\ IsFiniteSet(parts)
    /\ \A part \in parts : part.weight \in Int /\ part.return \in Int

\* The mean of parts that have a return.
LEMMA MeanIsNumber ==
  ASSUME NEW parts, AreParts(parts)
  PROVE  Mean(parts) \in Int \cup {None}
<1> DEFINE f == [part \in parts |-> part.weight * part.return]
<1>1. \A part \in parts : f[part] \in Int
  <2> TAKE part \in parts
  <2>1. part.weight \in Int /\ part.return \in Int  BY DEF AreParts
  <2>2. f[part] = part.weight * part.return  OBVIOUS
  <2> HIDE DEF f
  <2> QED  BY <2>1, <2>2, Distribute
<1>2. DOMAIN f = parts /\ IsFiniteSet(parts)  BY DEF AreParts
<1>3. Mean(parts) = IF Weight(parts) = 0 THEN None ELSE 2 * SumFunction(f)  BY DEF Mean
<1> HIDE DEF f
<1>4. SumFunctionOnSet(f, parts) \in Int  BY <1>1, <1>2, SumType
<1>5. SumFunction(f) \in Int  BY <1>2, <1>4 DEF SumFunction
<1> QED  BY <1>3, <1>5

\* The weight of what a report lists.
LEMMA WeightIsNumber ==
  ASSUME NEW set, IsFiniteSet(set), \A h \in set : h.weight \in Int
  PROVE  Weight(set) \in Int
<1> DEFINE f == [h \in set |-> h.weight]
<1>1. DOMAIN f = set /\ \A h \in set : f[h] \in Int  OBVIOUS
<1>2. Weight(set) = SumFunction(f)  BY DEF Weight
<1> HIDE DEF f
<1>3. SumFunctionOnSet(f, set) \in Int  BY <1>1, SumType
<1> QED  BY <1>1, <1>2, <1>3 DEF SumFunction

\* What is not disclosed of a fund is a number, so are the weights of its proxies.
LEMMA AllocatedAreParts ==
  ASSUME NEW share \in Shares, NEW priced, AreParts(priced)
  PROVE  AreParts(Allocated(FundOf(share), priced))
<1> DEFINE fund == FundOf(share)
           u == Undisclosed(fund)
           T == Allocated(fund, priced)
           entry(p) == [priced |-> p, weight |-> (u * p.weight) \div 100, return |-> p.return]
<1>1. fund \in {Funds[f] : f \in DOMAIN Funds}  BY NamesAssumption DEF FundOf, Shares
<1>2. /\ IsFiniteSet(fund.holdings)
      /\ \A h \in fund.holdings : h.weight \in Int
      /\ fund.equity \in Int
  <2>1. PICK f \in DOMAIN Funds : fund = Funds[f]  BY <1>1
  <2>2. /\ IsFiniteSet(Funds[f].holdings \cup Funds[f].proxies \cup Funds[f].funds)
        /\ \A h \in Funds[f].holdings \cup Funds[f].proxies \cup Funds[f].funds : h.weight \in Nat
    BY AmountsAssumption
  <2>3. Funds[f].holdings \subseteq Funds[f].holdings \cup Funds[f].proxies \cup Funds[f].funds
    OBVIOUS
  <2>4. IsFiniteSet(Funds[f].holdings)  BY <2>2, <2>3, FS_Subset
  <2>5. Funds[f].equity \in 0..100  BY ReviewAssumption
  <2> HIDE DEF fund
  <2> QED  BY <2>1, <2>2, <2>4, <2>5
<1>3. u \in Int
  <2> DEFINE w == Weight(fund.holdings)
             x == fund.equity - w
             S == {0, x}
  <2> HIDE DEF fund
  <2>1. w \in Int  BY <1>2, WeightIsNumber
  <2>2. S \subseteq Int /\ S # {}
    <3>1. x \in Int
      <4> HIDE DEF w
      <4> QED  BY <1>2, <2>1
    <3>2. 0 \in Int /\ S = {0, x}  OBVIOUS
    <3> HIDE DEF x, S
    <3> QED  BY <3>1, <3>2
  <2>3. IsFiniteSet(S)
    <3>1. S = {0} \cup {x}  OBVIOUS
    <3>2. IsFiniteSet({0}) /\ IsFiniteSet({x})  BY FS_Singleton
    <3> HIDE DEF S, x
    <3> QED  BY <3>1, <3>2, FS_Union
  <2>4. u = Max(S)  BY DEF Undisclosed
  <2> HIDE DEF S, u
  <2> QED  BY <2>2, <2>3, <2>4, Extremes
<1>4. T = {entry(p) : p \in priced}  BY DEF Allocated
<1> HIDE DEF u, T, fund
<1>5. \A p \in priced : (u * p.weight) \div 100 \in Int
  <2> TAKE p \in priced
  <2>1. p.weight \in Int  BY DEF AreParts
  <2>2. u * p.weight \in Int  BY <1>3, <2>1, Distribute
  <2> QED  BY <2>2, Division
<1>6. \A t \in T : t.weight \in Int /\ t.return \in Int
  <2> TAKE t \in T
  <2>1. PICK p \in priced : t = entry(p)  BY <1>4
  <2>2. t.weight = (u * p.weight) \div 100 /\ t.return = p.return  BY <2>1
  <2>3. p.return \in Int  BY DEF AreParts
  <2> QED  BY <1>5, <2>2, <2>3
<1>7. IsFiniteSet(T)
  <2> DEFINE F == [p \in priced |-> entry(p)]
  <2>1. T = {F[p] : p \in priced}  BY <1>4
  <2>2. IsFiniteSet(priced)  BY DEF AreParts
  <2> HIDE DEF F
  <2> QED  BY <2>1, <2>2, FiniteImage
<1> QED  BY <1>6, <1>7 DEF AreParts, T, fund

\* So is what is predicted for a day, if anything is.
LEMMA PredictedIsNumber ==
  ASSUME ReviewInv, NEW share \in Shares, NEW d \in Nat
  PROVE  Point(RowsRead, share, day, d).predicted \in Int \cup {None}
<1> DEFINE parts == Parts(RowsRead, share, day, d)
           a == Priced(parts, "holding")
           b == Allocated(FundOf(share), Priced(parts, "proxy"))
           c == Priced(parts, "fund")
<1>1. /\ \A part \in parts : part.weight \in Nat /\ part.return \in Int \cup {None}
      /\ IsFiniteSet(parts)
  BY PartsAreNumbers
<1>2. Point(RowsRead, share, day, d).predicted = Mean(a \cup b \cup c)
  BY DEF Point, FromParts, Estimate
<1> HIDE DEF parts
<1>3. \A kind : AreParts(Priced(parts, kind))
  <2> TAKE kind
  <2>1. Priced(parts, kind) \subseteq parts  BY DEF Priced
  <2>2. IsFiniteSet(Priced(parts, kind))  BY <1>1, <2>1, FS_Subset
  <2>3. \A part \in Priced(parts, kind) : part.weight \in Int /\ part.return \in Int
    BY <1>1 DEF Priced
  <2> QED  BY <2>2, <2>3 DEF AreParts
<1>4. AreParts(a) /\ AreParts(c)  BY <1>3
<1>5. AreParts(b)  BY <1>3, AllocatedAreParts
<1> HIDE DEF a, b, c
<1>6. AreParts(a \cup b \cup c)
  <2>1. IsFiniteSet(a \cup b)  BY <1>4, <1>5, FS_Union DEF AreParts
  <2>2. IsFiniteSet(a \cup b \cup c)  BY <1>4, <2>1, FS_Union DEF AreParts
  <2> QED  BY <1>4, <1>5, <2>2 DEF AreParts
<1>7. Mean(a \cup b \cup c) \in Int \cup {None}  BY <1>6, MeanIsNumber
<1> QED  BY <1>2, <1>7

-----------------------------------------------------------------------------
(* The prediction of the portfolio.                                         *)

\* The weekday after a day that is compared has come.
LEMMA NextDayHasCome ==
  ASSUME ReviewInv, NEW d \in Nat, d <= LatestComparable(day)
  PROVE  NextWeekday(d) <= day
<1> DEFINE shown == Displayed(day)
           later == {e \in Valued : e > d}
<1>1. day \in RequestDays /\ day \in Nat /\ Valued \subseteq Nat
  BY ReviewAssumption DEF ReviewInv, ReviewTypes, RequestDays, Valued
<1>2. /\ shown \in Valued /\ shown <= day
      /\ LatestComparable(day) \in Valued /\ LatestComparable(day) < shown
  BY <1>1, Display
<1>3. shown \in later
  <2>1. shown \in Nat /\ LatestComparable(day) \in Nat  BY <1>1, <1>2
  <2> HIDE DEF shown
  <2> QED  BY <1>2, <2>1
<1>4. later \in SUBSET Nat /\ later # {}  BY <1>1, <1>3
<1> HIDE DEF shown, later
<1>5. Min(later) \in later /\ \A e \in later : Min(later) <= e
  <2>1. \E m \in later : \A e \in later : m <= e  BY <1>4, LeastNatural
  <2> QED  BY <2>1 DEF Min
<1>6. NextWeekday(d) = Min(later)  BY DEF NextWeekday, later
<1>7. Min(later) <= shown /\ Min(later) \in Nat /\ shown \in Nat  BY <1>1, <1>2, <1>3, <1>4, <1>5
<1> QED  BY <1>1, <1>2, <1>6, <1>7

\* A position that has a value has a positive one, as units, NAV and rate are.
LEMMA ValuesArePositive ==
  ASSUME ReviewInv, NEW share \in DOMAIN Holdings
  PROVE  PositionValue(fundNavs, references, share, day) \in (Nat \ {0}) \cup {None}
<1> DEFINE stored == {d \in fundNavs[share] : StartDate <= d /\ d <= day}
           nav == UnitNav(fundNavs, share, day)
           rate == UnitRate(ShareOfFund[share].currency, references, day)
           units == Holdings[share].units
<1>1. share \in Shares /\ day \in Nat
  BY ReviewAssumption DEF ReviewInv, ReviewTypes, Shares
<1>2. stored \in SUBSET Nat /\ \A d \in stored : d <= day /\ d \in DOMAIN NavsPublished[share]
  BY <1>1, ReviewAssumption DEF ReviewInv, ReviewTypes
<1>3. units \in Nat \ {0} /\ Holdings[share].anchorNav \in Nat \ {0}  BY AmountsAssumption
<1>4. nav \in (Nat \ {0}) \cup {None}
  <2>1. CASE stored # {}
    <3>1. nav = NavsPublished[share][Max(stored)].nav  BY <2>1 DEF UnitNav
    <3>2. Max(stored) \in DOMAIN NavsPublished[share]
      <4> HIDE DEF stored
      <4>1. Max(stored) \in stored  BY <1>1, <1>2, <2>1, LastDay
      <4> QED  BY <1>2, <4>1
    <3> QED  BY <1>1, <3>1, <3>2, AmountsAssumption DEF Shares
  <2>2. CASE stored = {}  BY <1>3, <2>2 DEF UnitNav
  <2> QED  BY <2>1, <2>2
<1>5. rate \in {2, 4, None}  BY DEF UnitRate
<1>6. PositionValue(fundNavs, references, share, day)
        = IF None \in {nav, rate} THEN None ELSE units * (nav * rate)
  BY DEF PositionValue
<1> HIDE DEF nav, rate, units
<1>7. ASSUME nav # None, rate # None  PROVE units * (nav * rate) \in Nat \ {0}
  <2>1. nav \in Nat \ {0} /\ rate \in {2, 4}  BY <1>4, <1>5, <1>7
  <2>2. nav * rate \in Nat \ {0}  BY <2>1
  <2>3. \A a, b \in Nat \ {0} : a * b \in Nat \ {0}  OBVIOUS
  <2> QED  BY <1>3, <2>2, <2>3
<1> QED  BY <1>6, <1>7

\* What the positions are worth, and their weights.
Values == [share \in Current(day) |-> PositionValue(fundNavs, references, share, day)]
CurrentWeights == ResultWeights(fundNavs, references, day)

\* The weights are the values, where every position has one.
LEMMA WeightsAreValues ==
  ASSUME ReviewInv, CurrentWeights.total # None
  PROVE  /\ Summable(Values, Current(day))
         /\ \A s \in Current(day) : Values[s] \in Nat \ {0}
         /\ CurrentWeights.total = SumFunctionOnSet(Values, Current(day))
         /\ CurrentWeights.total # 0
         /\ \A s \in AnalysisTargets : s \in Current(day) => CurrentWeights.of[s] = Values[s]
         /\ \A s \in AnalysisTargets : s \notin Current(day) => CurrentWeights.of[s] = 0
<1> DEFINE none == \/ DOMAIN Values = {} \/ None \in Range(Values) \/ SumFunction(Values) = 0
           of(s) == IF s \in DOMAIN Values THEN Values[s] ELSE 0
<1>1. CurrentWeights =
        IF none THEN [total |-> None, of |-> [share \in AnalysisTargets |-> 0]]
        ELSE [total |-> SumFunction(Values), of |-> [share \in AnalysisTargets |-> of(share)]]
  BY DEF CurrentWeights, ResultWeights, Values
<1>2. DOMAIN Values = Current(day)  BY DEF Values
<1>3. ~none
  <2> HIDE DEF none, of
  <2>1. none => CurrentWeights.total = None  BY <1>1
  <2> QED  BY <2>1
<1>4. /\ CurrentWeights.total = SumFunction(Values)
      /\ \A s \in AnalysisTargets : CurrentWeights.of[s] = of(s)
  <2> HIDE DEF none, of
  <2>1. CurrentWeights = [total |-> SumFunction(Values),
                          of |-> [share \in AnalysisTargets |-> of(share)]]
    BY <1>1, <1>3
  <2> QED  BY <2>1
<1>5. \A s \in Current(day) : Values[s] \in Nat \ {0}
  <2> TAKE s \in Current(day)
  <2>1. s \in DOMAIN Holdings  BY DEF Current
  <2>2. Values[s] = PositionValue(fundNavs, references, s, day)  BY DEF Values
  <2>3. Values[s] # None  BY <1>2, <1>3 DEF Range
  <2> QED  BY <2>1, <2>2, <2>3, ValuesArePositive
<1>6. IsFiniteSet(Current(day))
  <2>1. Current(day) \subseteq DOMAIN Holdings  BY DEF Current
  <2> QED  BY <2>1, AmountsAssumption, FS_Subset
<1>7. Summable(Values, Current(day))  BY <1>5, <1>6 DEF Summable
<1>8. SumFunction(Values) = SumFunctionOnSet(Values, Current(day))  BY <1>2 DEF SumFunction
<1>9. SumFunction(Values) # 0  BY <1>3
<1> QED  BY <1>2, <1>4, <1>5, <1>7, <1>8, <1>9

\* Where every element counts, a part that has the whole sum is the whole.
LEMMA WholeSum ==
  ASSUME NEW f, NEW S, Summable(f, S), \A x \in S : f[x] \in Nat \ {0}, NEW T, T \subseteq S,
         SumFunctionOnSet(f, T) = SumFunctionOnSet(f, S)
  PROVE  T = S
<1> DEFINE rest == S \ T
<1> SUFFICES ASSUME rest # {}  PROVE FALSE  OBVIOUS
<1>1. SumFunctionOnSet(f, S) = SumFunctionOnSet(f, T) + SumFunctionOnSet(f, rest)  BY SumSplit
<1>2. PICK x : x \in rest  OBVIOUS
<1>3. rest \subseteq S  OBVIOUS
<1> HIDE DEF rest
<1>4. Summable(f, rest) /\ SumFunctionOnSet(f, rest) \in Int  BY <1>3, SummableParts
<1>5. f[x] <= SumFunctionOnSet(f, rest) /\ SumFunctionOnSet(f, rest) \in Nat
  <2>1. IsFiniteSet(rest)  BY <1>4 DEF Summable
  <2>2. \A y \in rest : f[y] \in Nat  BY <1>3
  <2> QED  BY <1>2, <2>1, <2>2, SumOfNaturals
<1>6. f[x] \in Nat \ {0}  BY <1>2, <1>3
<1>7. SumFunctionOnSet(f, T) \in Int /\ SumFunctionOnSet(f, S) \in Int  BY SummableParts
<1> QED  BY <1>1, <1>5, <1>6, <1>7

\* A weighted mean is not outside what it is the mean of.
LEMMA MeanIsBetween ==
  ASSUME NEW S, IsFiniteSet(S), NEW w, \A x \in S : w[x] \in Nat, NEW p, \A x \in S : p[x] \in Int,
         NEW lo \in Int, NEW hi \in Int, \A x \in S : lo <= p[x] /\ p[x] <= hi,
         NEW f, \A x \in S : f[x] = w[x] * p[x]
  PROVE  SumFunctionOnSet(f, S) \in (SumFunctionOnSet(w, S) * lo)..(SumFunctionOnSet(w, S) * hi)
<1> DEFINE low == [x \in S |-> lo * w[x]]
           high == [x \in S |-> hi * w[x]]
           total == SumFunctionOnSet(w, S)
           mean == SumFunctionOnSet(f, S)
<1>1. \A n \in Nat : \A a, b \in Int : a <= b => a * n <= b * n /\ n * a = a * n /\ n * a \in Int
  OBVIOUS
<1>2. \A x \in S : /\ low[x] \in Int /\ high[x] \in Int /\ f[x] \in Int
                   /\ low[x] <= f[x] /\ f[x] <= high[x]
  <2> TAKE x \in S
  <2>1. low[x] = lo * w[x] /\ high[x] = hi * w[x] /\ f[x] = w[x] * p[x]  OBVIOUS
  <2>2. w[x] \in Nat /\ p[x] \in Int /\ lo <= p[x] /\ p[x] <= hi  OBVIOUS
  <2>3. lo * w[x] <= p[x] * w[x] /\ p[x] * w[x] <= hi * w[x]  BY <1>1, <2>2
  <2>4. w[x] * p[x] = p[x] * w[x] /\ w[x] * p[x] \in Int  BY <2>2, Distribute, <1>1
  <2>5. lo * w[x] \in Int /\ hi * w[x] \in Int  BY <2>2, Distribute
  <2> HIDE DEF low, high
  <2> QED  BY <2>1, <2>3, <2>4, <2>5
<1>3. \A x \in S : low[x] = lo * w[x] /\ high[x] = hi * w[x]  OBVIOUS
<1> HIDE DEF low, high
<1>4. Summable(low, S) /\ Summable(high, S) /\ Summable(f, S)  BY <1>2 DEF Summable
<1>5. Summable(w, S)  BY DEF Summable
<1>6. SumFunctionOnSet(low, S) = lo * total  BY <1>3, <1>4, <1>5, SumScale
<1>7. SumFunctionOnSet(high, S) = hi * total  BY <1>3, <1>4, <1>5, SumScale
<1>8. SumFunctionOnSet(low, S) <= mean /\ mean <= SumFunctionOnSet(high, S)
  <2>1. \A x \in S : low[x] <= f[x]  BY <1>2
  <2>2. \A x \in S : f[x] <= high[x]  BY <1>2
  <2> QED  BY <1>4, <2>1, <2>2, SumGrows
<1>9. total \in Int /\ mean \in Int
  <2>1. S \subseteq S  OBVIOUS
  <2> QED  BY <1>4, <1>5, <2>1, SummableParts
<1> HIDE DEF total, mean
<1>10. lo * total = total * lo /\ hi * total = total * hi /\ total * lo \in Int /\ total * hi \in Int
  BY <1>9, Distribute
<1>11. total * lo <= mean /\ mean <= total * hi  BY <1>6, <1>7, <1>8, <1>10
<1>12. mean \in (total * lo)..(total * hi)  BY <1>9, <1>10, <1>11
<1> QED  BY <1>12 DEF total, mean

\* What is known of each target, and what is shown of it.
AreResults(result) == \A s \in AnalysisTargets : result[s] = Predictions(RowsRead, s, day)

\* What is analysed is held, and a day is compared that has been.
LEMMA TargetsAre ==
  ASSUME ReviewInv
  PROVE  /\ \A s \in AnalysisTargets : s \in DOMAIN Holdings /\ s \in Shares
         /\ day \in RequestDays /\ day \in Nat
         /\ IsRows(RowsRead)
         /\ LatestComparable(day) \in Nat
<1>1. DOMAIN Holdings \subseteq Shares  BY ReviewAssumption DEF Shares
<1>2. day \in RequestDays /\ day \in Nat
  BY ReviewAssumption DEF ReviewInv, ReviewTypes, RequestDays
<1>3. LatestComparable(day) \in Nat
  <2>1. LatestComparable(day) \in Valued  BY <1>2, Display
  <2> QED  BY <2>1, ReviewAssumption DEF Valued
<1>4. IsRows(RowsRead)  BY RowsAreRows DEF ReviewInv
<1> QED  BY <1>1, <1>2, <1>3, <1>4 DEF AnalysisTargets

\* What is shown of a day, and of which days.
LEMMA ResultIs ==
  ASSUME ReviewInv, NEW result, AreResults(result), NEW s \in AnalysisTargets
  PROVE  /\ DOMAIN result[s] = AnalysisDates(RowsRead, s, day)
         /\ \A d \in DOMAIN result[s] :
               /\ d \in Calendar /\ d \in Nat /\ d <= LatestComparable(day)
               /\ result[s][d].point = Point(RowsRead, s, day, d)
               /\ result[s][d].point.predicted \in Int \cup {None}
               /\ result[s][d].point.actual # None =>
                     /\ d \in ComparableNavs(RowsRead, s, day)
                     /\ NavsPublished[s][d].actual # None
         /\ \A d \in ComparableNavs(RowsRead, s, day) :
               /\ d \in DOMAIN result[s]
               /\ result[s][d].point.actual = NavsPublished[s][d].actual
<1>1. result[s] = Predictions(RowsRead, s, day)  BY DEF AreResults
<1>2. s \in Shares /\ day \in RequestDays /\ IsRows(RowsRead)  BY TargetsAre
<1> DEFINE D == AnalysisDates(RowsRead, s, day)
<1>3. DOMAIN result[s] = D  BY <1>1, PredictionsAre
<1>4. \A d \in D : result[s][d].point = Point(RowsRead, s, day, d)  BY <1>1, PredictionsAre
<1>5. \A d \in D : d \in Calendar /\ StartDate <= d /\ d <= LatestComparable(day) /\ d < day
  BY <1>2, ReadDays
<1>6. ComparableNavs(RowsRead, s, day) \subseteq D  BY DEF AnalysisDates
<1> HIDE DEF D
<1>7. \A d \in D : d \in Nat  BY <1>5, ReviewAssumption
<1>8. \A d \in D : result[s][d].point.predicted \in Int \cup {None}
  <2> TAKE d \in D
  <2>1. Point(RowsRead, s, day, d).predicted \in Int \cup {None}  BY <1>2, <1>7, PredictedIsNumber
  <2> QED  BY <1>4, <2>1
<1>9. \A d \in D : result[s][d].point.actual = Actual(s, ComparableNavs(RowsRead, s, day), d)
  <2> TAKE d \in D
  <2>1. Point(RowsRead, s, day, d).actual = Actual(s, ComparableNavs(RowsRead, s, day), d)
    BY DEF Point
  <2> QED  BY <1>4, <2>1
<1>10. \A d \in D : result[s][d].point.actual # None =>
          d \in ComparableNavs(RowsRead, s, day) /\ NavsPublished[s][d].actual # None
  <2> TAKE d \in D
  <2> DEFINE known == ComparableNavs(RowsRead, s, day)
  <2>1. result[s][d].point.actual = IF d \in known THEN NavsPublished[s][d].actual ELSE None
    BY <1>9 DEF Actual
  <2> HIDE DEF known
  <2>2. result[s][d].point.actual # None => d \in known /\ NavsPublished[s][d].actual # None
    BY <2>1
  <2> QED  BY <2>2 DEF known
<1>11. \A d \in ComparableNavs(RowsRead, s, day) :
          d \in D /\ result[s][d].point.actual = NavsPublished[s][d].actual
  <2> TAKE d \in ComparableNavs(RowsRead, s, day)
  <2>1. d \in D  BY <1>6
  <2>2. result[s][d].point.actual = Actual(s, ComparableNavs(RowsRead, s, day), d)  BY <1>9, <2>1
  <2> QED  BY <2>1, <2>2 DEF Actual
<1>12. DOMAIN result[s] = AnalysisDates(RowsRead, s, day)  BY <1>3 DEF D
<1>13. \A d \in D :
          /\ d \in Calendar /\ d \in Nat /\ d <= LatestComparable(day)
          /\ result[s][d].point = Point(RowsRead, s, day, d)
          /\ result[s][d].point.predicted \in Int \cup {None}
          /\ result[s][d].point.actual # None =>
                /\ d \in ComparableNavs(RowsRead, s, day)
                /\ NavsPublished[s][d].actual # None
  <2> TAKE d \in D
  <2> QED  BY <1>4, <1>5, <1>7, <1>8, <1>10
<1> QED  BY <1>3, <1>11, <1>12, <1>13

\* The first part of ReviewIsWhole, of a prediction for the portfolio ...
PortfolioIsWhole(result, weights, portfolio) ==
    portfolio # None =>
       LET newest == LatestComparable(day)
           shown == {result[s][newest].point.predicted : s \in portfolio.shares}
       IN /\ portfolio.shares = Current(day)
          /\ portfolio.parts \in (weights.total * Min(shown))..(weights.total * Max(shown))
          /\ NextWeekday(newest) <= day

\* ... and the second, of the row of a fund.
Compared(result, s) ==
    {d \in ComparableNavs(RowsRead, s, day) :
        NavsPublished[s][d].actual # None /\ result[s][d].point.predicted # None}

FundIsWhole(result, row) ==
    row # None =>
       /\ NextWeekday(row.at) <= day
       /\ \A s \in row.shares :
             /\ row.at \in Compared(result, s)
             /\ result[s][row.at].point.mode = row.mode
             /\ row.days <= Cardinality(Compared(result, s))
             /\ row.shares = {s} => /\ row.at = Max(Compared(result, s))
                                    /\ row.days = Cardinality(Compared(result, s))

\* A prediction of the portfolio is of everything that is held, and within the predictions.
LEMMA PortfolioOf ==
  ASSUME ReviewInv, NEW result, AreResults(result), NEW portfolio,
         portfolio = PortfolioPrediction(result, CurrentWeights, day)
  PROVE  PortfolioIsWhole(result, CurrentWeights, portfolio)
<1> DEFINE newest == LatestComparable(day)
           predicted == {s \in AnalysisTargets : /\ CurrentWeights.of[s] > 0
                                                 /\ newest \in DOMAIN result[s]
                                                 /\ result[s][newest].point.predicted # None}
           of == [s \in predicted |-> CurrentWeights.of[s]]
           value == [s \in predicted |-> result[s][newest].point.predicted]
           part == [s \in predicted |->
                       CurrentWeights.of[s] * result[s][newest].point.predicted]
           shown == {result[s][newest].point.predicted : s \in predicted}
           all == Current(day)
           total == CurrentWeights.total
<1> SUFFICES ASSUME portfolio # None
             PROVE  /\ portfolio.shares = predicted
                    /\ predicted = all
                    /\ portfolio.parts \in (total * Min(shown))..(total * Max(shown))
                    /\ NextWeekday(newest) <= day
  BY DEF PortfolioIsWhole
<1>1. portfolio = IF PortfolioComplete(CurrentWeights, predicted)
                  THEN [shares |-> predicted, parts |-> SumFunction(part)]
                  ELSE None
  BY DEF PortfolioPrediction
<1>2. /\ portfolio.shares = predicted /\ portfolio.parts = SumFunction(part)
      /\ PortfolioComplete(CurrentWeights, predicted)
  <2> HIDE DEF predicted, part
  <2>1. PortfolioComplete(CurrentWeights, predicted)  BY <1>1
  <2>2. portfolio = [shares |-> predicted, parts |-> SumFunction(part)]  BY <1>1, <2>1
  <2> QED  BY <2>1, <2>2
<1>3. total # None /\ SumFunction(of) = total  BY <1>2 DEF PortfolioComplete
<1>4. NextWeekday(newest) <= day
  <2>1. newest \in Nat /\ newest <= newest  BY TargetsAre
  <2> QED  BY <2>1, NextDayHasCome
<1>5. /\ Summable(Values, all) /\ total = SumFunctionOnSet(Values, all) /\ total # 0
      /\ \A s \in all : Values[s] \in Nat \ {0}
      /\ \A s \in AnalysisTargets : s \in all => CurrentWeights.of[s] = Values[s]
      /\ \A s \in AnalysisTargets : s \notin all => CurrentWeights.of[s] = 0
  BY <1>3, WeightsAreValues
<1>6. \A s \in predicted : s \in AnalysisTargets /\ s \in all /\ of[s] = Values[s]
  <2> TAKE s \in predicted
  <2>1. s \in AnalysisTargets /\ CurrentWeights.of[s] > 0 /\ of[s] = CurrentWeights.of[s]  OBVIOUS
  <2>2. s \in all
    <3>1. ~(0 > 0)  OBVIOUS
    <3> HIDE DEF all, of, predicted
    <3> QED  BY <1>5, <2>1, <3>1
  <2> HIDE DEF all, of, predicted
  <2> QED  BY <1>5, <2>1, <2>2
<1>7. \A s \in predicted : value[s] \in Int
  <2> TAKE s \in predicted
  <2>1. /\ s \in AnalysisTargets /\ newest \in DOMAIN result[s]
        /\ result[s][newest].point.predicted # None
    OBVIOUS
  <2>2. result[s][newest].point.predicted \in Int \cup {None}  BY <2>1, ResultIs
  <2> QED  BY <2>1, <2>2
<1>8. DOMAIN of = predicted /\ DOMAIN part = predicted /\ shown = {value[s] : s \in predicted}
  OBVIOUS
<1>9. \A s \in predicted : part[s] = of[s] * value[s]  OBVIOUS
<1> HIDE DEF predicted, of, value, part, shown, all, total, newest
<1>10. predicted \subseteq all  BY <1>6
<1>11. IsFiniteSet(predicted)  BY <1>5, <1>10, FS_Subset DEF Summable
<1>12. SumFunctionOnSet(of, predicted) = total  BY <1>3, <1>8 DEF SumFunction
<1>13. predicted = all
  <2>1. \A s \in predicted : of[s] = Values[s]  BY <1>6
  <2>2. SumFunctionOnSet(of, predicted) = SumFunctionOnSet(Values, predicted)
    BY <1>11, <2>1, SumCongruence
  <2>3. SumFunctionOnSet(Values, predicted) = SumFunctionOnSet(Values, all)
    BY <1>5, <1>12, <2>2
  <2> QED  BY <1>5, <1>10, <2>3, WholeSum
<1>14. predicted # {}
  <2> SUFFICES ASSUME predicted = {}  PROVE FALSE  OBVIOUS
  <2>1. SumFunctionOnSet(of, {}) = 0  BY SumOfNothing
  <2> QED  BY <1>5, <1>12, <2>1
<1>15. /\ shown \in SUBSET Int /\ IsFiniteSet(shown) /\ shown # {}
       /\ \A s \in predicted : value[s] \in shown
  <2>1. shown \in SUBSET Int  BY <1>7, <1>8
  <2>2. IsFiniteSet(shown)  BY <1>8, <1>11, FiniteImage
  <2>3. \A s \in predicted : value[s] \in shown  BY <1>8
  <2> QED  BY <1>14, <2>1, <2>2, <2>3
<1>16. /\ Max(shown) \in shown /\ \A x \in shown : x <= Max(shown)
       /\ Min(shown) \in shown /\ \A x \in shown : Min(shown) <= x
  BY <1>15, Extremes
<1> DEFINE lo == Min(shown)
           hi == Max(shown)
<1>17. lo \in Int /\ hi \in Int  BY <1>15, <1>16
<1>18. \A s \in predicted : lo <= value[s] /\ value[s] <= hi  BY <1>15, <1>16
<1>19. \A s \in predicted : of[s] \in Nat  BY <1>5, <1>6
<1> HIDE DEF lo, hi
<1>20. SumFunctionOnSet(part, predicted)
         \in (SumFunctionOnSet(of, predicted) * lo)..(SumFunctionOnSet(of, predicted) * hi)
  BY <1>7, <1>9, <1>11, <1>17, <1>18, <1>19, MeanIsBetween
<1>21. SumFunction(part) = SumFunctionOnSet(part, predicted)  BY <1>8 DEF SumFunction
<1>22. portfolio.parts \in (total * lo)..(total * hi)  BY <1>2, <1>12, <1>20, <1>21
<1> QED  BY <1>2, <1>4, <1>13, <1>22 DEF lo, hi

\* The days that are compared for a share are some of those it has a NAV of.
LEMMA ComparedAre ==
  ASSUME ReviewInv, NEW result, AreResults(result), NEW s \in AnalysisTargets
  PROVE  /\ Compared(result, s) \in SUBSET Nat /\ IsFiniteSet(Compared(result, s))
         /\ \A d \in Compared(result, s) : d \in Calendar /\ d <= LatestComparable(day)
         /\ \A d \in Calendar : d \in Compared(result, s) <=>
               /\ d \in DOMAIN result[s]
               /\ None \notin {result[s][d].point.actual, result[s][d].point.predicted}
<1> DEFINE C == Compared(result, s)
           known == ComparableNavs(RowsRead, s, day)
<1>1. \A d \in C : /\ d \in known /\ NavsPublished[s][d].actual # None
                   /\ result[s][d].point.predicted # None
  BY DEF Compared
<1>2. \A d \in DOMAIN result[s] :
         /\ d \in Calendar /\ d \in Nat /\ d <= LatestComparable(day)
         /\ result[s][d].point.actual # None =>
               /\ d \in known
               /\ NavsPublished[s][d].actual # None
  BY ResultIs
<1>3. \A d \in known : /\ d \in DOMAIN result[s]
                       /\ result[s][d].point.actual = NavsPublished[s][d].actual
  BY ResultIs
<1>4. \A d : d \in known /\ NavsPublished[s][d].actual # None /\ result[s][d].point.predicted # None
             => d \in C
  BY DEF Compared
<1> HIDE DEF C, known
<1>5. \A d \in C : d \in DOMAIN result[s]  BY <1>1, <1>3
<1>6. \A d \in C : d \in Calendar /\ d \in Nat /\ d <= LatestComparable(day)  BY <1>2, <1>5
<1>7. C \in SUBSET Nat  BY <1>6
<1>8. IsFiniteSet(C)
  <2>1. LatestComparable(day) \in Nat  BY TargetsAre
  <2> QED  BY <1>6, <1>7, <2>1, FS_BoundedSetOfNaturals
<1>9. ASSUME NEW d \in Calendar
      PROVE  d \in C <=> /\ d \in DOMAIN result[s]
                         /\ None \notin {result[s][d].point.actual, result[s][d].point.predicted}
  <2>1. d \in C => /\ d \in DOMAIN result[s]
                   /\ result[s][d].point.actual # None /\ result[s][d].point.predicted # None
    BY <1>1, <1>3
  <2>2. d \in DOMAIN result[s] /\ result[s][d].point.actual # None
          /\ result[s][d].point.predicted # None => d \in C
    BY <1>2, <1>4
  <2> QED  BY <2>1, <2>2
<1> QED  BY <1>6, <1>7, <1>8, <1>9 DEF C

\* The row of a fund is of a day that all its shares have, and of the days they share.
LEMMA FundRowOf ==
  ASSUME ReviewInv, NEW result, AreResults(result), NEW weights, NEW fund, NEW row,
         row = FundRow(result, weights, fund)
  PROVE  FundIsWhole(result, row)
<1> DEFINE weighted == {s \in AnalysisTargets : ShareOfFund[s].fund = fund /\ weights.of[s] > 0}
           days == ComparisonDays(result, weighted)
           last == Max(days)
           modes == {result[s][last].point.mode : s \in weighted}
           common == {d \in days : d <= last}
           cumulative(field) == [s \in weighted |->
                                   SumFunction([d \in common |-> result[s][d].point[field]])]
           found == [at |-> last, shares |-> weighted, mode |-> CHOOSE m \in modes : TRUE,
                     days |-> Cardinality(common),
                     actual |-> cumulative("actual"), predicted |-> cumulative("predicted")]
           C(s) == Compared(result, s)
<1> SUFFICES ASSUME row # None
             PROVE  /\ NextWeekday(row.at) <= day
                    /\ \A s \in row.shares :
                          /\ row.at \in C(s)
                          /\ result[s][row.at].point.mode = row.mode
                          /\ row.days <= Cardinality(C(s))
                          /\ row.shares = {s} => row.at = Max(C(s)) /\ row.days = Cardinality(C(s))
  BY DEF FundIsWhole
<1>1. row = IF weighted = {} \/ days = {} THEN None
            ELSE IF Cardinality(modes) # 1 THEN None ELSE found
  BY DEF FundRow
<1>2. weighted # {} /\ days # {} /\ Cardinality(modes) = 1 /\ row = found
  <2> HIDE DEF weighted, days, modes, found
  <2> QED  BY <1>1
<1>3. /\ row.at = last /\ row.shares = weighted /\ row.mode = CHOOSE m \in modes : TRUE
      /\ row.days = Cardinality(common)
  <2> HIDE DEF last, weighted, modes, common, cumulative
  <2> QED  BY <1>2
<1>4. weighted \subseteq AnalysisTargets  OBVIOUS
<1>5. days = {d \in Calendar : \A s \in weighted : d \in C(s)}
  <2>1. days = {d \in Calendar : \A s \in weighted :
                  /\ d \in DOMAIN result[s]
                  /\ None \notin {result[s][d].point.actual, result[s][d].point.predicted}}
    BY DEF ComparisonDays
  <2> HIDE DEF weighted, days, C
  <2>2. \A s \in weighted : \A d \in Calendar : d \in C(s) <=>
               /\ d \in DOMAIN result[s]
               /\ None \notin {result[s][d].point.actual, result[s][d].point.predicted}
    BY <1>4, ComparedAre DEF C
  <2> QED  BY <2>1, <2>2
<1>6. modes = {result[s][last].point.mode : s \in weighted}  OBVIOUS
<1>7. common = {d \in days : d <= last} /\ last = Max(days)  OBVIOUS
<1>8. \A s \in weighted :
         /\ C(s) \in SUBSET Nat /\ IsFiniteSet(C(s))
         /\ \A d \in C(s) : d \in Calendar /\ d <= LatestComparable(day)
  BY <1>4, ComparedAre
<1> HIDE DEF weighted, days, last, modes, common, found, C
<1>9. \A s \in weighted : days \subseteq C(s)  BY <1>5
<1>10. PICK s0 \in weighted : TRUE  BY <1>2
<1>11. LatestComparable(day) \in Nat  BY TargetsAre
<1>12. days \in SUBSET Nat /\ \A d \in days : d <= LatestComparable(day)
  BY <1>8, <1>9, <1>10
<1>13. last \in days /\ \A d \in days : d <= last  BY <1>2, <1>7, <1>11, <1>12, LastDay
<1>14. common = days  BY <1>7, <1>13
<1>15. NextWeekday(row.at) <= day
  <2>1. last \in Nat /\ last <= LatestComparable(day)  BY <1>12, <1>13
  <2> QED  BY <1>3, <2>1, NextDayHasCome
<1>16. \A s \in weighted : result[s][last].point.mode = row.mode
  <2>1. IsFiniteSet(weighted)
    <3>1. weighted \subseteq DOMAIN Holdings  BY <1>4, TargetsAre
    <3> QED  BY <3>1, AmountsAssumption, FS_Subset
  <2> DEFINE F == [s \in weighted |-> result[s][last].point.mode]
  <2>2. modes = {F[s] : s \in weighted}  BY <1>6
  <2>3. \A s \in weighted : F[s] = result[s][last].point.mode  OBVIOUS
  <2> HIDE DEF F
  <2>4. IsFiniteSet(modes)  BY <2>1, <2>2, FiniteImage
  <2>5. PICK x : modes = {x}  BY <1>2, <2>4, FS_Singleton
  <2>6. row.mode = x  BY <1>3, <2>5
  <2>7. \A s \in weighted : F[s] \in modes  BY <2>2
  <2> QED  BY <2>3, <2>5, <2>6, <2>7
<1>17. \A s \in weighted : last \in C(s) /\ Cardinality(days) <= Cardinality(C(s))
  <2> TAKE s \in weighted
  <2>1. days \in SUBSET C(s) /\ IsFiniteSet(C(s))  BY <1>8, <1>9
  <2>2. Cardinality(days) <= Cardinality(C(s))  BY <2>1, FS_Subset
  <2> QED  BY <1>13, <2>1, <2>2
<1>18. \A s \in weighted : weighted = {s} => days = C(s)
  <2> TAKE s \in weighted
  <2> HAVE weighted = {s}
  <2>1. C(s) \subseteq Calendar  BY <1>8
  <2> QED  BY <1>5, <2>1
<1> QED  BY <1>3, <1>7, <1>14, <1>15, <1>16, <1>17, <1>18

\* The review is whole in every state of the invariant.
LEMMA TypedReviewIsWhole == ReviewInv => ReviewIsWhole
<1> SUFFICES ASSUME ReviewInv  PROVE ReviewIsWhole  OBVIOUS
<1> DEFINE result == Tabulated([share \in AnalysisTargets |-> Predictions(RowsRead, share, day)])
           portfolio == PortfolioPrediction(result, CurrentWeights, day)
           row(fund) == FundRow(result, CurrentWeights, fund)
<1>1. AreResults(result)  BY TabulatedIsIt DEF AreResults
<1>2. PortfolioIsWhole(result, CurrentWeights, portfolio)
  <2> HIDE DEF result
  <2> QED  BY <1>1, PortfolioOf
<1>3. \A fund : FundIsWhole(result, row(fund))
  <2> HIDE DEF result
  <2> QED  BY <1>1, FundRowOf
<1>4. ReviewIsWhole <=> /\ PortfolioIsWhole(result, CurrentWeights, portfolio)
                        /\ \A fund \in DOMAIN Funds : FundIsWhole(result, row(fund))
  BY DEF ReviewIsWhole, PortfolioIsWhole, FundIsWhole, Compared, CurrentWeights
<1> QED  BY <1>2, <1>3, <1>4

\* For any funds, positions, closes and NAVs, and any request: a prediction for the portfolio is
\* of every position held and within the predictions of that day, the row of a fund compares
\* its shares at the newest day all have, under one mode, over the days all have, and no day
\* that is shown is yet to come (q2_analysis/portfolio_review.py).
THEOREM NothingIsLeftOut == ReviewSpec => []ReviewIsWhole
<1>1. ReviewInit => ReviewInv  BY ReviewInvStarts
<1>2. ReviewInv /\ [ReviewNext]_reviewVars => ReviewInv'  BY ReviewInvStays
<1>3. ReviewInv => ReviewIsWhole  BY TypedReviewIsWhole
<1> QED  BY <1>1, <1>2, <1>3, PTL DEF ReviewSpec

==============================================================================
