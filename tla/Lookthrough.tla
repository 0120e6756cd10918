------------------------------ MODULE Lookthrough ------------------------------
(***************************************************************************)
(* weighted_lookthrough over the fund holdings of the parsed reports of a  *)
(* period: the exposure of a fund is what it reports itself plus, per fund *)
(* it holds, the weight of the holding times the exposure of that fund.    *)
(*                                                                         *)
(* The state is the graph that _build_nodes reads from the rows.  It       *)
(* changes when the rows of a report are stored and when a report is no    *)
(* longer "parsed".  Percentages are exact: the decimals of the code are   *)
(* integers here, in units small enough for every product to be one.       *)
(***************************************************************************)
EXTENDS Integers, Sequences, FiniteSets, FiniteSetsExt, Functions, SequencesExt

CONSTANTS
    Reports,    \* the reports of the period
    NoTarget,   \* the target of a holding that resolves to no contract
    NotParsed,  \* the node of a report that is not parsed
    Labels,     \* countries, or industries
    Scale,      \* a weight of 100 percent
    MaxTotal,   \* bound: what the rows of one report add up to
    MaxDepth    \* the max_depth of the code

ASSUME ConstantsAssumption ==
    /\ Scale \in Nat \ {0} /\ MaxTotal \in Nat /\ MaxDepth \in Nat
    /\ IsFiniteSet(Reports) /\ IsFiniteSet(Labels)
    /\ NoTarget \notin Reports

VARIABLE nodes  \* per report: its direct exposure and its fund holdings

vars == nodes

Targets == Reports \cup {NoTarget}
Weights == 0..MaxTotal
Total(node) == SumFunction(node.direct) + SumFunction(node.holdings)
Nodes == {node \in [direct : [Labels -> Weights], holdings : [Targets -> Weights]] :
              Total(node) <= MaxTotal}

\* A percentage is a number of parts; Hundred parts are 100 percent.
Power[n \in 0..MaxDepth + 2] == IF n = 0 THEN 1 ELSE Scale * Power[n - 1]
Hundred == Power[MaxDepth + 2]
Percent(weight) == weight * (Hundred \div Scale)
Times(weight, value) == (weight * value) \div Scale

Capped(value) == IF value > Hundred THEN Hundred ELSE value

Parsed == {r \in Reports : nodes[r] # NotParsed}
Held(r) == {t \in Targets : nodes[r].holdings[t] > 0}

-----------------------------------------------------------------------------
(* weighted_lookthrough.                                                    *)

\* The nodes on the way from the root to the one that is visited.
Paths == BoundedSeq(Reports, MaxDepth + 1) \ {<<>>}

Depth(path) == Len(path) - 1

\* A holding whose fund has no parsed report, or that is too deep, is not
\* followed.
Unresolved(path, t) == t \notin Parsed \/ Depth(path) >= MaxDepth

\* Faulty variant: only a fund that holds itself counts as a cycle.
OnPath_Parent(path, t) == t = Last(path)

OnPath(path, t) == t \in Range(path)

\* A node that is on the path already: nothing of it is known.
Circular(depth) ==
    [exposure |-> [l \in Labels |-> 0], coverage |-> 0, unresolved |-> Hundred,
     depth |-> depth, circular |-> TRUE]

\* The holdings that are followed, and what the visits of their funds return.
Followed(path) == {t \in Held(Last(path)) : ~Unresolved(path, t)}

Found(visit, path) ==
    [t \in Followed(path) |->
        IF OnPath(path, t) THEN Circular(Depth(path) + 1) ELSE visit[Append(path, t)]]

\* What the visit of a node returns, given what it found.
Combine(path, found) ==
    LET node == nodes[Last(path)]
        followed == Followed(path)
        nested == [t \in followed |-> Times(node.holdings[t], found[t].unresolved)]
    IN [exposure |-> [l \in Labels |->
            Percent(node.direct[l])
              + SumFunction([t \in followed |-> Times(node.holdings[t], found[t].exposure[l])])],
        coverage |-> Capped(
            Capped(Percent(SumFunction(node.direct)))
              + SumFunction([t \in followed |-> Max({0, Percent(node.holdings[t]) - nested[t]})])),
        unresolved |-> Capped(
            SumFunction([t \in Held(Last(path)) \ followed |-> Percent(node.holdings[t])])
              + SumFunction(nested)),
        depth |-> Max({Depth(path)} \cup {found[t].depth : t \in followed}),
        circular |-> \E t \in followed : found[t].circular]

Visits[path \in Paths] == Combine(path, Found(Visits, path))

WeightedLookthrough(root) == Visits[<<root>>]

\* Faulty variant: a fund whose exposure is covered is taken for resolved.
LookthroughStatus_Covered(r, result) ==
    CASE result.circular -> "circular_relation_detected"
      [] ~result.circular /\ Held(r) = {} -> "direct_only"
      [] ~result.circular /\ Held(r) # {} ->
            IF result.coverage > 0 THEN "resolved" ELSE "unresolved"

\* lookthrough_status, of a parsed report whose look-through was stored.
LookthroughStatus(r, result) ==
    CASE result.circular -> "circular_relation_detected"
      [] ~result.circular /\ Held(r) = {} -> "direct_only"
      [] ~result.circular /\ Held(r) # {} ->
            IF result.coverage = 0 THEN "unresolved"
            ELSE IF result.unresolved > 0 THEN "partial" ELSE "resolved"

-----------------------------------------------------------------------------

TypeOK == nodes \in [Reports -> Nodes \cup {NotParsed}]

Init == nodes = [r \in Reports |-> NotParsed]

\* The rows of report r are stored.  A parsed report that is parsed again has the
\* same document, and gets the rows it had: a new document makes it Leave first.
Store(r) ==
    /\ nodes[r] = NotParsed
    /\ \E node \in Nodes : nodes' = [nodes EXCEPT ![r] = node]

\* A new document of report r is archived, or r fails: calculate leaves it out.
Leave(r) ==
    /\ nodes[r] # NotParsed
    /\ nodes' = [nodes EXCEPT ![r] = NotParsed]

Next == \E r \in Reports : Leave(r) \/ Store(r)

Spec == Init /\ [][Next]_vars

-----------------------------------------------------------------------------
(* The reference: sums over the ways through the graph, one way at a time.  *)

\* The ways along holdings from r that meet no report twice, and the weight of
\* the last report of one, in parts.
SimplePaths == {p \in Paths : IsInjective(p)}

Ways(r) ==
    {p \in SimplePaths :
        /\ p[1] = r
        /\ \A i \in 1..Depth(p) : p[i + 1] \in Parsed /\ nodes[p[i]].holdings[p[i + 1]] > 0}

WayWeight(p) ==
    LET weight[i \in 1..Len(p)] ==
            IF i = Len(p) THEN Hundred
            ELSE Times(nodes[p[i]].holdings[p[i + 1]], weight[i + 1])
    IN weight[1]

\* The holdings at the end of a way that lead nowhere.
DeadEnds(p) ==
    {t \in Held(Last(p)) : t \notin Parsed \/ t \in Range(p) \/ Depth(p) = MaxDepth}

PathExposure(ways, l) ==
    SumFunction([p \in ways |-> Times(nodes[Last(p)].direct[l], WayWeight(p))])

PathUnresolved(ways) ==
    SumFunction([p \in ways |->
        SumFunction([t \in DeadEnds(p) |-> Times(nodes[Last(p)].holdings[t], WayWeight(p))])])

\* weighted_lookthrough against the reference, of report r: the exposure to a
\* label is the sum, over the ways to the reports that report it, of the product
\* of the weights on the way.  "Unresolved targets stay unresolved, are not filled
\* with 0, and what was disclosed is not normalised": where the rows of every
\* report add up to 100 percent, exposure and unresolved weight do too and the
\* coverage is the rest; where they add up to less, no part is invented; and
\* whatever they add up to, coverage and unresolved weight end at 100 percent.
Exact(r, result) ==
    LET exposed == SumFunction(result.exposure)
        ways == Ways(r)
    IN /\ \A l \in Labels : result.exposure[l] = PathExposure(ways, l)
       /\ result.coverage <= Hundred /\ result.unresolved <= Hundred
       /\ (\A q \in Parsed : Total(nodes[q]) <= Scale) =>
             /\ result.unresolved = PathUnresolved(ways)
             /\ exposed <= result.coverage
             /\ result.coverage + result.unresolved <= Hundred
       /\ (\A q \in Parsed : Total(nodes[q]) = Scale) =>
             exposed = Hundred - result.unresolved /\ result.coverage = exposed

ExposureIsExact == \A r \in Parsed : Exact(r, WeightedLookthrough(r))

\* The cycle flag is raised for a report exactly if a way from it, no longer than
\* the depth, leads back to a report on the way (issue LOOKTHROUGH_CYCLE is
\* recorded by it), and a fund shown as "resolved" or "direct_only" has no
\* holding, on any way, that leads nowhere.
Honest(r, result) ==
    /\ result.circular <=>
          \E p \in Ways(r) : Depth(p) < MaxDepth /\ Held(Last(p)) \cap Range(p) # {}
    /\ LookthroughStatus(r, result) \in {"resolved", "direct_only"} =>
          \A p \in Ways(r) : DeadEnds(p) = {}

FlagsAreHonest == \A r \in Parsed : Honest(r, WeightedLookthrough(r))
=============================================================================
