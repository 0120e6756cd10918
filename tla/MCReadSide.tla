------------------------------ MODULE MCReadSide ------------------------------
(***************************************************************************)
(* Four components that compute from stored rows, each explored alone: the *)
(* run picks the part at the start and leaves the others where they begin. *)
(***************************************************************************)
EXTENDS Lookthrough, PortfolioValuation, PeriodReturns, HoldingsReview

VARIABLE part

readVars == <<part, nodes, valuationVars, returnVars, reviewVars>>

\* The reports of the look-through are alike.
Symmetry == Permutations(Reports)

-----------------------------------------------------------------------------
(* Valuation: a position in CNY with a plan, and one in USD without.        *)

Imported(currency, units, market, profit, return, plan) ==
    [currency |-> currency, units |-> units, market |-> market, profit |-> profit,
     return |-> return, anchorDay |-> 1, anchorNav |-> 3, plan |-> plan]

TwoPositions ==
    [p1 |-> Imported("CNY", 3, 8, 2, 50, [gross |-> 14, net |-> 12]),
     p2 |-> Imported("USD", 1, 4, 4, 0, None)]

PublishedQuotes == {[cny |-> 7, usd |-> 2]}

-----------------------------------------------------------------------------
(* Returns: a fund with shares in two currencies and one with one; the      *)
(* quarter begins on day 1 and has months that begin on every day.          *)

PoolShare(code, cny) == [code |-> code, cny |-> cny, exchange |-> FALSE, classA |-> TRUE]

TwoFunds == [f1 |-> {PoolShare(1, TRUE), PoolShare(2, FALSE)}, f2 |-> {PoolShare(3, TRUE)}]

\* The representative of f1 is no share of it that is stored.
Representatives == [f1 |-> 9, f2 |-> 3]

Months == <<1, 2, 3>>
Quarters == <<1, 2, 2>>

StoredNavs == {[unit |-> 1, accumulated |-> None], [unit |-> 2, accumulated |-> 3]}

-----------------------------------------------------------------------------
(* Review: a fund that is analysed, with shares in CNY and in USD, a listed *)
(* security, one that has no price series, and a resolved holding of the    *)
(* second fund, which is held too and not analysed.  Day 4 is a weekend,    *)
(* and has a NAV of b, as the last day of a half-year has.                  *)

HeldSecurity(name, weight) ==
    [series |-> name, currency |-> "USD", market |-> "US", weight |-> weight]

ReviewedFund(wrapper, holdings, funds) ==
    [status |-> "parsed", published |-> 3, selected |-> TRUE, wrapper |-> wrapper,
     policy |-> "QDII_SAME_VALUATION_SESSION", equity |-> 80, cash |-> 10,
     holdings |-> holdings, proxies |-> {}, funds |-> funds]

ReviewedFunds ==
    [g1 |-> ReviewedFund("DIRECT", {HeldSecurity("nvda", 60), HeldSecurity(None, 10)},
                         {[share |-> "c", weight |-> 10]}),
     g2 |-> ReviewedFund("ETF_LINK", {}, {})]

ReviewedShares ==
    [a |-> [fund |-> "g1", currency |-> "CNY"], b |-> [fund |-> "g1", currency |-> "USD"],
     c |-> [fund |-> "g2", currency |-> "CNY"]]

Active(units, snapshot, anchorDay) ==
    [units |-> units, snapshot |-> snapshot, anchorDay |-> anchorDay, anchorNav |-> 1]

ReviewedPositions == [a |-> Active(2, 2, 1), b |-> Active(1, 2, 2), c |-> Active(1, 6, 5)]

Levels == [nvda |-> 2 :> 0 @@ 3 :> 3 @@ 5 :> 1, fx |-> 2 :> 0 @@ 3 :> 1 @@ 5 :> 1]

Comes(nav, actual) == [nav |-> nav, actual |-> actual]

ReviewedNavs ==
    [a |-> 2 :> Comes(1, None) @@ 3 :> Comes(2, 2) @@ 5 :> Comes(2, -2),
     b |-> 3 :> Comes(2, 1) @@ 4 :> Comes(2, 0) @@ 5 :> Comes(2, 1),
     c |-> 3 :> Comes(2, 1) @@ 5 :> Comes(2, 0)]

SmallRules ==
    [minimum |-> 1, likelyMinimum |-> 2, coverage |-> 50, slightlyMae |-> 100, slightlyBias |-> 80,
     likelyMae |-> 200, likelyBias |-> 150, streak |-> 2, cumulative |-> 300, correlation |-> 3,
     window |-> 2]

-----------------------------------------------------------------------------

ReadInit ==
    /\ part \in {"lookthrough", "valuation", "returns", "review"}
    /\ Init /\ ValuationInit /\ ReturnsInit /\ ReviewInit

ReadNext ==
    /\ UNCHANGED part
    /\ \/ part = "lookthrough" /\ Next /\ UNCHANGED <<valuationVars, returnVars, reviewVars>>
       \/ part = "valuation" /\ ValuationNext /\ UNCHANGED <<nodes, returnVars, reviewVars>>
       \/ part = "returns" /\ ReturnsNext /\ UNCHANGED <<nodes, valuationVars, reviewVars>>
       \/ part = "review" /\ ReviewNext /\ UNCHANGED <<nodes, valuationVars, returnVars>>

ReadSpec == ReadInit /\ [][ReadNext]_readVars
=============================================================================
