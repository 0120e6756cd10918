---------------------------- MODULE MCFundUniverse ----------------------------
(***************************************************************************)
(* Instances of FundUniverse for TLC.                                      *)
(***************************************************************************)
EXTENDS FundUniverse, TLC

CONSTANTS a, b, c, fund, ownName

\* Three share classes of one fund; a comes first, then b.
ThreeShares == {a, b, c}
OneFund == [x \in ThreeShares |-> fund]
InOrder == (a :> 1) @@ (b :> 2) @@ (c :> 3)

Row(rep, shares, key, enabled) ==
    [rep |-> rep, shares |-> shares, key |-> key, enabled |-> enabled]

\* Two classes as funds of their own; the fund under the user's own name.
SomeFiles == {{Row(a, {a}, fund, TRUE), Row(b, {b}, fund, TRUE)},
              {Row(b, {b, c}, ownName, TRUE)}}

FirstShare == {{a}}
LastShare == {{c}}
SomePortfolios == {{b, c}}
=============================================================================
