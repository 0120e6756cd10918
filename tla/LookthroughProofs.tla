--------------------------- MODULE LookthroughProofs ---------------------------
(***************************************************************************)
(* Theorems about Lookthrough, for any set of reports, of targets and of   *)
(* labels, any depth and any graph, cycles included: the exposure that is  *)
(* computed is exact, and the flags about cycles and dead ends are honest. *)
(*                                                                         *)
(* A visit is computed for a path by recursion, deepest paths first; what  *)
(* it returns is whole (no division ever truncates), so that it can be     *)
(* compared with the sum over all ways, by induction on how deep the path  *)
(* is. The lemmas about sums are those of ReadSideProofs.                  *)
(***************************************************************************)
EXTENDS Lookthrough, ReadSideProofs

-----------------------------------------------------------------------------
(* Induction.                                                               *)

\* Induction up to a bound.
LEMMA Climb ==
  ASSUME NEW N \in Nat, NEW good, 0 \in good, \A n \in 0..N-1 : n \in good => n + 1 \in good
  PROVE  \A n \in 0..N : n \in good
<1> DEFINE bad == {n \in 0..N : n \notin good}
<1> SUFFICES ASSUME bad # {}  PROVE FALSE  OBVIOUS
<1>1. PICK n \in bad : \A m \in bad : n <= m
  <2>1. bad \in SUBSET Nat  OBVIOUS
  <2> HIDE DEF bad
  <2> QED  BY <2>1, LeastNatural
<1>2. n # 0 /\ n \in 0..N  OBVIOUS
<1>3. n - 1 \in 0..N-1 /\ n - 1 \notin bad  BY <1>1, <1>2
<1>4. n - 1 \in good  BY <1>3
<1>5. (n - 1) + 1 \in good  BY <1>3, <1>4
<1> QED  BY <1>1, <1>2, <1>5

-----------------------------------------------------------------------------
(* Parts of a percentage.                                                   *)

Levels == MaxDepth + 2

IsPower(p, n) == p = [k \in 0..n |-> IF k = 0 THEN 1 ELSE Scale * p[k - 1]]

\* There is such a function, which the recursive definition of Power chooses; so it satisfies
\* its equation.
LEMMA PowersExist == \E p : IsPower(p, Levels)
<1>0. Levels \in Nat  BY ConstantsAssumption DEF Levels
<1> DEFINE good == {n \in Nat : \E p : IsPower(p, n)}
<1>1. 0 \in good
  <2>1. IsPower([k \in 0..0 |-> 1], 0)  BY DEF IsPower
  <2> QED  BY <2>1
<1>2. ASSUME NEW n \in 0..Levels-1, n \in good  PROVE n + 1 \in good
  <2>1. PICK p : IsPower(p, n)  BY <1>2
  <2>2. n \in Nat /\ n + 1 \in Nat  OBVIOUS
  <2> DEFINE q == [k \in 0..n+1 |-> IF k = 0 THEN 1 ELSE Scale * p[k - 1]]
  <2>3. \A k \in 0..n : q[k] = p[k]
    <3>1. \A k \in 0..n : k \in 0..n+1 /\ p[k] = IF k = 0 THEN 1 ELSE Scale * p[k - 1]
      BY <2>1, <2>2 DEF IsPower
    <3> QED  BY <3>1
  <2>4. \A k \in 0..n+1 : k # 0 => k - 1 \in 0..n  BY <2>2
  <2>5. \A k \in 0..n+1 : (IF k = 0 THEN 1 ELSE Scale * p[k - 1])
                        = (IF k = 0 THEN 1 ELSE Scale * q[k - 1])
    <3> HIDE DEF q
    <3> QED  BY <2>3, <2>4
  <2>6. q = [k \in 0..n+1 |-> IF k = 0 THEN 1 ELSE Scale * p[k - 1]]  OBVIOUS
  <2> HIDE DEF q
  <2>7. IsPower(q, n + 1)  BY <2>5, <2>6 DEF IsPower
  <2> QED  BY <2>2, <2>7
<1> HIDE DEF good
<1>3. Levels \in good  BY <1>0, <1>1, <1>2, Climb
<1> QED  BY <1>3 DEF good

\* What Power[n] is.
LEMMA PowerIs ==
  /\ Power[0] = 1
  /\ \A n \in 0..MaxDepth + 1 : Power[n + 1] = Scale * Power[n]
<1>1. IsPower(Power, Levels)
  <2>1. PICK p : p = [k \in 0..MaxDepth + 2 |-> IF k = 0 THEN 1 ELSE Scale * p[k - 1]]
    BY PowersExist DEF IsPower, Levels
  <2>2. Power = [k \in 0..MaxDepth + 2 |-> IF k = 0 THEN 1 ELSE Scale * Power[k - 1]]
    BY <2>1 DEF Power
  <2> QED  BY <2>2 DEF IsPower, Levels
<1>2. \A k \in 0..MaxDepth + 2 : Power[k] = IF k = 0 THEN 1 ELSE Scale * Power[k - 1]
  BY <1>1 DEF IsPower, Levels
<1>3. Power[0] = 1  BY <1>2, ConstantsAssumption
<1>4. ASSUME NEW n \in 0..MaxDepth + 1  PROVE Power[n + 1] = Scale * Power[n]
  <2>1. n + 1 \in 0..MaxDepth + 2 /\ n + 1 # 0 /\ (n + 1) - 1 = n  BY ConstantsAssumption
  <2> QED  BY <1>2, <2>1
<1> QED  BY <1>3, <1>4

\* The product of two positive numbers, for a prover that knows none.
LEMMA Products ==
  ASSUME NEW a \in Nat \ {0}, NEW b \in Nat \ {0}
  PROVE  a * b \in Nat \ {0}
OBVIOUS

\* No level is empty.
LEMMA PowerIsPositive == \A n \in 0..MaxDepth + 2 : Power[n] \in Nat \ {0}
<1> DEFINE good == {n \in Nat : Power[n] \in Nat \ {0}}
<1>1. 0 \in good  BY PowerIs
<1>2. ASSUME NEW n \in 0..(MaxDepth + 2) - 1, n \in good  PROVE n + 1 \in good
  <2>1. n \in 0..MaxDepth + 1 /\ n + 1 \in Nat  BY ConstantsAssumption
  <2>2. Power[n + 1] = Scale * Power[n]  BY <2>1, PowerIs
  <2>3. Scale \in Nat \ {0} /\ Power[n] \in Nat \ {0}  BY <1>2, ConstantsAssumption
  <2> QED  BY <2>1, <2>2, <2>3, Products
<1> HIDE DEF good
<1>3. MaxDepth + 2 \in Nat  BY ConstantsAssumption
<1>4. \A n \in 0..MaxDepth + 2 : n \in good  BY <1>1, <1>2, <1>3, Climb
<1> QED  BY <1>4 DEF good

\* v is a whole number of u.
Multiple(v, u) == \E k \in Nat : v = u * k

\* The parts of a level are whole numbers of the parts of the levels below.
LEMMA PowersDivide ==
  ASSUME NEW m \in 0..MaxDepth + 2, NEW n \in 0..m
  PROVE  Multiple(Power[m], Power[n])
<1> DEFINE good == {d \in Nat : Multiple(Power[m], Power[m - d])}
<1>0. m \in Nat /\ MaxDepth \in Nat  BY ConstantsAssumption
<1>1. 0 \in good
  <2>1. m - 0 = m /\ Power[m] \in Nat  BY <1>0, PowerIsPositive
  <2>2. Power[m] = Power[m] * 1  BY <2>1
  <2> QED  BY <2>1, <2>2 DEF Multiple
<1>2. ASSUME NEW d \in 0..m-1, d \in good  PROVE d + 1 \in good
  <2> DEFINE i == m - (d + 1)
             u == Power[i]
  <2>1. i \in 0..MaxDepth + 1 /\ i + 1 = m - d /\ d + 1 \in Nat /\ i \in 0..MaxDepth + 2  BY <1>0
  <2>2. Power[m - d] = Scale * u  BY <2>1, PowerIs
  <2>3. u \in Nat /\ Scale \in Nat  BY <2>1, PowerIsPositive, ConstantsAssumption
  <2>4. PICK k \in Nat : Power[m] = Power[m - d] * k  BY <1>2 DEF Multiple
  <2> HIDE DEF u
  <2>5. (Scale * u) * k = u * (Scale * k) /\ Scale * k \in Nat  BY <2>3
  <2>6. Multiple(Power[m], u)  BY <2>2, <2>4, <2>5 DEF Multiple
  <2> QED  BY <2>1, <2>6 DEF u
<1> HIDE DEF good
<1>3. \A d \in 0..m : d \in good  BY <1>0, <1>1, <1>2, Climb
<1>4. m - n \in 0..m /\ m - (m - n) = n  BY <1>0
<1>5. m - n \in good  BY <1>3, <1>4
<1> QED  BY <1>4, <1>5 DEF good

\* A percent of the rows is of parts of every level.
LEMMA PercentIs ==
  /\ Hundred = Scale * Power[MaxDepth + 1] /\ Hundred \in Nat \ {0}
  /\ \A w \in Nat : Percent(w) = w * Power[MaxDepth + 1] /\ Percent(w) \in Nat
<1> DEFINE u == Power[MaxDepth + 1]
<1>1. u \in Nat \ {0} /\ Scale \in Nat \ {0}
  <2>1. MaxDepth + 1 \in 0..MaxDepth + 2  BY ConstantsAssumption
  <2> QED  BY <2>1, PowerIsPositive, ConstantsAssumption
<1>2. Hundred = Scale * u
  <2>1. MaxDepth + 1 \in 0..MaxDepth + 1 /\ (MaxDepth + 1) + 1 = MaxDepth + 2
    BY ConstantsAssumption
  <2> QED  BY <2>1, PowerIs DEF Hundred
<1> HIDE DEF u
<1>3. Hundred \in Nat \ {0}  BY <1>1, <1>2, Products
<1>4. Hundred \div Scale = u  BY <1>1, <1>2
<1>5. \A w \in Nat : Percent(w) = w * u /\ Percent(w) \in Nat  BY <1>1, <1>4 DEF Percent
<1> QED  BY <1>2, <1>3, <1>5 DEF u

\* So is every percentage that a report states.
LEMMA PercentIsWhole ==
  ASSUME NEW w \in Nat, NEW n \in 0..MaxDepth + 1
  PROVE  Multiple(Percent(w), Power[n])
<1>1. MaxDepth + 1 \in 0..MaxDepth + 2 /\ n \in 0..MaxDepth + 1 /\ n \in 0..MaxDepth + 2
  BY ConstantsAssumption
<1> DEFINE u == Power[n]
<1>2. PICK k \in Nat : Power[MaxDepth + 1] = u * k  BY <1>1, PowersDivide DEF Multiple
<1>3. u \in Nat  BY <1>1, PowerIsPositive
<1>4. Percent(w) = w * (u * k)  BY <1>2, PercentIs
<1> HIDE DEF u
<1>5. w * (u * k) = u * (w * k) /\ w * k \in Nat  BY <1>3
<1> QED  BY <1>4, <1>5 DEF Multiple, u

-----------------------------------------------------------------------------
(* Paths.                                                                   *)

IsPath(p) == p \in Seq(Reports) /\ 1 <= Len(p) /\ Len(p) <= MaxDepth + 1

\* A path is a sequence of reports, no longer than the depth allows.
LEMMA PathsAre == \A p : p \in Paths <=> IsPath(p)
<1>1. ASSUME NEW p \in Paths  PROVE IsPath(p)
  <2>1. PICK m \in 0..MaxDepth + 1 : p \in [1..m -> Reports]  BY DEF Paths, BoundedSeq, SeqOf
  <2>2. m \in Nat  BY ConstantsAssumption
  <2>3. p \in Seq(Reports) /\ Len(p) = m  BY <2>1, <2>2
  <2>4. p # <<>>  BY DEF Paths
  <2>5. m # 0  BY <2>3, <2>4
  <2> QED  BY <2>1, <2>2, <2>3, <2>5 DEF IsPath
<1>2. ASSUME NEW p, IsPath(p)  PROVE p \in Paths
  <2>1. Len(p) \in 0..MaxDepth + 1 /\ p \in [1..Len(p) -> Reports] /\ p # <<>>
    BY <1>2, ConstantsAssumption DEF IsPath
  <2> QED  BY <2>1 DEF Paths, BoundedSeq, SeqOf
<1> QED  BY <1>1, <1>2

\* A path that goes on.
LEMMA LongerPath ==
  ASSUME NEW p \in Paths, NEW t \in Reports, Depth(p) < MaxDepth
  PROVE  /\ Append(p, t) \in Paths /\ Len(Append(p, t)) = Len(p) + 1
         /\ Last(Append(p, t)) = t
         /\ \A i \in 1..Len(p) : Append(p, t)[i] = p[i]
<1>1. p \in Seq(Reports) /\ Len(p) \in Nat /\ Len(p) <= MaxDepth /\ MaxDepth \in Nat
  BY PathsAre, ConstantsAssumption DEF IsPath, Depth
<1>2. Append(p, t) \in Seq(Reports) /\ Len(Append(p, t)) = Len(p) + 1  BY <1>1
<1>3. Append(p, t)[Len(p) + 1] = t /\ \A i \in 1..Len(p) : Append(p, t)[i] = p[i]  BY <1>1
<1>4. IsPath(Append(p, t))  BY <1>1, <1>2 DEF IsPath
<1> QED  BY <1>2, <1>3, <1>4, PathsAre DEF Last

\* What is followed is parsed, and not too deep.
LEMMA FollowedAre ==
  ASSUME NEW p \in Paths, NEW t \in Followed(p)
  PROVE  t \in Parsed /\ t \in Reports /\ Depth(p) < MaxDepth /\ t \in Held(Last(p))
<1>1. t \in Parsed /\ ~(Depth(p) >= MaxDepth) /\ t \in Held(Last(p))  BY DEF Followed, Unresolved
<1>2. Depth(p) \in Int /\ MaxDepth \in Nat
  BY PathsAre, ConstantsAssumption DEF IsPath, Depth
<1> QED  BY <1>1, <1>2 DEF Parsed

-----------------------------------------------------------------------------
(* The recursion.                                                           *)

\* What a visit finds depends on the visits of longer paths.
LEMMA FoundAgrees ==
  ASSUME NEW p \in Paths, NEW v, NEW w, \A t \in Followed(p) : v[Append(p, t)] = w[Append(p, t)]
  PROVE  Found(v, p) = Found(w, p)
BY DEF Found

\* The paths that are n steps at most from the longest, and the visits of them.
Deep(n) == {p \in Paths : MaxDepth + 1 - Len(p) < n}
AreVisits(v, n) == v = [p \in Deep(n) |-> Combine(p, Found(v, p))]

\* There are such visits, for every number of steps.
LEMMA VisitsExist == \A n \in 0..MaxDepth + 1 : \E v : AreVisits(v, n)
<1> DEFINE good == {n \in Nat : \E v : AreVisits(v, n)}
<1>0. MaxDepth \in Nat /\ \A p \in Paths : Len(p) \in 1..MaxDepth + 1
  BY PathsAre, ConstantsAssumption DEF IsPath
<1>1. 0 \in good
  <2>1. Deep(0) = {}  BY <1>0 DEF Deep
  <2>2. AreVisits([p \in {} |-> 0], 0)  BY <2>1 DEF AreVisits
  <2> QED  BY <2>2
<1>2. ASSUME NEW n \in 0..MaxDepth, n \in good  PROVE n + 1 \in good
  <2>1. PICK v : AreVisits(v, n)  BY <1>2
  <2> DEFINE w == [p \in Deep(n + 1) |-> Combine(p, Found(v, p))]
  <2>2. n \in Nat /\ n + 1 \in Nat /\ Deep(n) \subseteq Deep(n + 1)  BY <1>0 DEF Deep
  <2>3. \A p \in Deep(n) : w[p] = v[p]
    <3>1. \A p \in Deep(n) : v[p] = Combine(p, Found(v, p))  BY <2>1 DEF AreVisits
    <3> QED  BY <2>2, <3>1
  <2>4. ASSUME NEW p \in Deep(n + 1)  PROVE Found(v, p) = Found(w, p)
    <3>1. p \in Paths /\ MaxDepth + 1 - Len(p) < n + 1 /\ Len(p) \in Nat  BY <1>0 DEF Deep
    <3>2. ASSUME NEW t \in Followed(p)  PROVE Append(p, t) \in Deep(n)
      <4>1. Append(p, t) \in Paths /\ Len(Append(p, t)) = Len(p) + 1
        BY <3>1, FollowedAre, LongerPath
      <4> QED  BY <1>0, <2>2, <3>1, <4>1 DEF Deep
    <3> HIDE DEF w
    <3> QED  BY <2>3, <3>1, <3>2, FoundAgrees
  <2>5. w = [p \in Deep(n + 1) |-> Combine(p, Found(v, p))]  OBVIOUS
  <2> HIDE DEF w
  <2>6. w = [p \in Deep(n + 1) |-> Combine(p, Found(w, p))]  BY <2>4, <2>5
  <2>7. AreVisits(w, n + 1)  BY <2>6 DEF AreVisits
  <2> QED  BY <2>2, <2>7
<1>3. MaxDepth + 1 \in Nat /\ (MaxDepth + 1) - 1 = MaxDepth  BY <1>0
<1> HIDE DEF good
<1>4. \A n \in 0..MaxDepth + 1 : n \in good  BY <1>1, <1>2, <1>3, Climb
<1> QED  BY <1>4 DEF good

\* The equation of the recursive function: a visit combines what the visits of its holdings
\* found.
LEMMA VisitIs ==
  ASSUME NEW p \in Paths
  PROVE  Visits[p] = Combine(p, Found(Visits, p))
<1>1. MaxDepth \in Nat /\ \A q \in Paths : Len(q) \in 1..MaxDepth + 1
  BY PathsAre, ConstantsAssumption DEF IsPath
<1>2. Deep(MaxDepth + 1) = Paths  BY <1>1 DEF Deep
<1>3. PICK v : AreVisits(v, MaxDepth + 1)
  <2>1. MaxDepth + 1 \in 0..MaxDepth + 1  BY <1>1
  <2> QED  BY <2>1, VisitsExist
<1>4. v = [path \in Paths |-> Combine(path, Found(v, path))]  BY <1>2, <1>3 DEF AreVisits
<1>5. Visits = [path \in Paths |-> Combine(path, Found(Visits, path))]  BY <1>4 DEF Visits
<1> QED  BY <1>5

\* Induction over paths, from the longest: what is true of a path if it is of all that
\* are one longer, is true of all.
LEMMA PathInduction ==
  ASSUME NEW good, \A p \in Paths : (\A t \in Followed(p) : Append(p, t) \in good) => p \in good
  PROVE  \A p \in Paths : p \in good
<1> DEFINE all == {n \in Nat : Deep(n) \subseteq good}
<1>0. MaxDepth \in Nat /\ \A p \in Paths : Len(p) \in 1..MaxDepth + 1
  BY PathsAre, ConstantsAssumption DEF IsPath
<1>1. 0 \in all
  <2>1. Deep(0) = {}  BY <1>0 DEF Deep
  <2> QED  BY <2>1
<1>2. ASSUME NEW n \in 0..MaxDepth, n \in all  PROVE n + 1 \in all
  <2>1. n \in Nat /\ n + 1 \in Nat /\ Deep(n) \subseteq good  BY <1>2
  <2>2. ASSUME NEW p \in Deep(n + 1)  PROVE p \in good
    <3>1. p \in Paths /\ MaxDepth + 1 - Len(p) < n + 1 /\ Len(p) \in Nat  BY <1>0 DEF Deep
    <3>2. ASSUME NEW t \in Followed(p)  PROVE Append(p, t) \in good
      <4>1. Append(p, t) \in Paths /\ Len(Append(p, t)) = Len(p) + 1
        BY <3>1, FollowedAre, LongerPath
      <4>2. Append(p, t) \in Deep(n)  BY <1>0, <2>1, <3>1, <4>1 DEF Deep
      <4> QED  BY <2>1, <4>2
    <3> QED  BY <3>1, <3>2
  <2> QED  BY <2>1, <2>2
<1>3. MaxDepth + 1 \in Nat /\ (MaxDepth + 1) - 1 = MaxDepth  BY <1>0
<1>4. \A n \in 0..MaxDepth + 1 : n \in all
  <2> HIDE DEF all
  <2> QED  BY <1>1, <1>2, <1>3, Climb
<1>5. MaxDepth + 1 \in 0..MaxDepth + 1  BY <1>0
<1>6. Deep(MaxDepth + 1) = Paths  BY <1>0 DEF Deep
<1>7. Deep(MaxDepth + 1) \subseteq good  BY <1>4, <1>5
<1> QED  BY <1>6, <1>7

\* Multiples add up to multiples.
LEMMA MultiplesAdd ==
  ASSUME NEW u \in Nat \ {0}, NEW v, NEW w, Multiple(v, u), Multiple(w, u)
  PROVE  v \in Nat /\ w \in Nat /\ v + w \in Nat /\ Multiple(v + w, u)
<1>1. PICK k \in Nat : v = u * k  BY DEF Multiple
<1>2. PICK m \in Nat : w = u * m  BY DEF Multiple
<1>3. v \in Nat /\ w \in Nat  BY <1>1, <1>2
<1>4. u * (k + m) = u * k + u * m  BY Distribute
<1>5. k + m \in Nat /\ v + w = u * (k + m)  BY <1>1, <1>2, <1>4
<1>6. Multiple(v + w, u)  BY <1>5 DEF Multiple
<1>7. v + w \in Nat  BY <1>3
<1> QED  BY <1>3, <1>6, <1>7

\* So do those of a finite set.
LEMMA SumOfWholes ==
  ASSUME NEW u \in Nat \ {0}, NEW f, NEW S, IsFiniteSet(S), \A x \in S : Multiple(f[x], u)
  PROVE  /\ Summable(f, S) /\ SumFunctionOnSet(f, S) \in Nat
         /\ Multiple(SumFunctionOnSet(f, S), u)
<1> DEFINE good == {s \in SUBSET S : Multiple(SumFunctionOnSet(f, s), u)}
<1>1. \A x \in S : f[x] \in Nat
  <2> TAKE x \in S
  <2>1. Multiple(f[x], u)  OBVIOUS
  <2>2. PICK k \in Nat : f[x] = u * k  BY <2>1 DEF Multiple
  <2>3. u * k \in Nat  OBVIOUS
  <2> QED  BY <2>2, <2>3
<1>2. Summable(f, S) /\ SumFunctionOnSet(f, S) \in Nat  BY <1>1, SumOfNaturals
<1>3. {} \in good
  <2>1. SumFunctionOnSet(f, {}) = u * 0  BY SumOfNothing
  <2> QED  BY <2>1 DEF Multiple
<1>4. ASSUME NEW s \in SUBSET S, NEW x \in s, s \ {x} \in good  PROVE s \in good
  <2>1. Summable(f, s)  BY <1>2, SummableParts
  <2>2. SumFunctionOnSet(f, s) = f[x] + SumFunctionOnSet(f, s \ {x})  BY <2>1, SumOut
  <2>3. Multiple(f[x], u) /\ Multiple(SumFunctionOnSet(f, s \ {x}), u)  BY <1>4
  <2>4. Multiple(f[x] + SumFunctionOnSet(f, s \ {x}), u)  BY <2>3, MultiplesAdd
  <2> QED  BY <2>2, <2>4
<1> HIDE DEF good
<1>5. \A s \in SUBSET S : s \in good  BY <1>3, <1>4, SetInduction
<1> QED  BY <1>2, <1>5 DEF good

-----------------------------------------------------------------------------
(* What a visit returns.                                                    *)

\* The weight of a holding, what it found, and the parts that are summed.
HoldingWeight(p, t) == nodes[Last(p)].holdings[t]
Child(p, t) == Found(Visits, p)[t]
Ended(p) == Held(Last(p)) \ Followed(p)
ExposureParts(p, l) == [t \in Followed(p) |-> Times(HoldingWeight(p, t), Child(p, t).exposure[l])]
Nested(p) == [t \in Followed(p) |-> Times(HoldingWeight(p, t), Child(p, t).unresolved)]
EndedWeights(p) == [t \in Ended(p) |-> Percent(HoldingWeight(p, t))]
CoveredParts(p) == [t \in Followed(p) |-> Max({0, Percent(HoldingWeight(p, t)) - Nested(p)[t]})]

\* What a holding found: nothing if it is on the path, else what its visit returned.
LEMMA ChildIs ==
  ASSUME NEW p, NEW t \in Followed(p)
  PROVE  Child(p, t) = IF OnPath(p, t) THEN Circular(Depth(p) + 1) ELSE Visits[Append(p, t)]
BY DEF Child, Found

\* Nothing is known of a report that is on the path.
LEMMA CircularIs ==
  ASSUME NEW d
  PROVE  /\ \A l \in Labels : Circular(d).exposure[l] = 0
         /\ Circular(d).unresolved = Hundred /\ Circular(d).coverage = 0 /\ Circular(d).circular
BY DEF Circular

\* The exposure a visit returns, ...
LEMMA VisitedExposure ==
  ASSUME NEW p \in Paths, NEW l \in Labels
  PROVE  Visits[p].exposure[l] = Percent(nodes[Last(p)].direct[l]) + SumFunction(ExposureParts(p, l))
<1>1. Visits[p] = Combine(p, Found(Visits, p))  BY VisitIs
<1> QED  BY <1>1 DEF Combine, ExposureParts, Child, HoldingWeight

\* ... the unresolved weight, ...
LEMMA VisitedUnresolved ==
  ASSUME NEW p \in Paths
  PROVE  Visits[p].unresolved = Capped(SumFunction(EndedWeights(p)) + SumFunction(Nested(p)))
<1>1. Visits[p] = Combine(p, Found(Visits, p))  BY VisitIs
<1> QED  BY <1>1 DEF Combine, EndedWeights, Nested, Child, HoldingWeight, Ended

\* ... the coverage, ...
LEMMA VisitedCoverage ==
  ASSUME NEW p \in Paths
  PROVE  Visits[p].coverage = Capped(Capped(Percent(SumFunction(nodes[Last(p)].direct)))
                                       + SumFunction(CoveredParts(p)))
<1>1. Visits[p] = Combine(p, Found(Visits, p))  BY VisitIs
<1> QED  BY <1>1 DEF Combine, CoveredParts, Nested, Child, HoldingWeight

\* ... and the cycle flag.
LEMMA VisitedCircular ==
  ASSUME NEW p \in Paths
  PROVE  Visits[p].circular <=> \E t \in Followed(p) : Child(p, t).circular
<1>1. Visits[p] = Combine(p, Found(Visits, p))  BY VisitIs
<1> QED  BY <1>1 DEF Combine, Child

-----------------------------------------------------------------------------
(* Types.                                                                   *)

\* All reports on the path are parsed.
Live(p) == p \in Paths /\ \A i \in 1..Len(p) : p[i] \in Parsed

\* The weights of a parsed report are natural numbers, of finitely many holdings.
LEMMA ParsedAre ==
  ASSUME TypeOK, NEW r \in Parsed
  PROVE  /\ nodes[r].direct \in [Labels -> Nat] /\ nodes[r].holdings \in [Targets -> Nat]
         /\ Total(nodes[r]) <= MaxTotal
         /\ Held(r) \subseteq Targets /\ IsFiniteSet(Held(r))
<1>1. nodes[r] \in Nodes  BY DEF TypeOK, Parsed
<1>2. /\ nodes[r].direct \in [Labels -> Weights] /\ nodes[r].holdings \in [Targets -> Weights]
      /\ Total(nodes[r]) <= MaxTotal
  BY <1>1 DEF Nodes
<1>3. Weights \subseteq Nat  BY ConstantsAssumption DEF Weights
<1>4. Held(r) \subseteq Targets  BY DEF Held
<1>5. IsFiniteSet(Targets)
  <2>1. IsFiniteSet({NoTarget})  BY FS_Singleton
  <2> QED  BY <2>1, ConstantsAssumption, FS_Union DEF Targets
<1>6. IsFiniteSet(Held(r))  BY <1>4, <1>5, FS_Subset
<1> QED  BY <1>2, <1>3, <1>4, <1>6

\* A path of parsed reports goes on to paths of parsed reports.
LEMMA LiveIs ==
  ASSUME TypeOK, NEW p, Live(p)
  PROVE  /\ p \in Paths /\ Last(p) \in Parsed /\ Len(p) \in 1..MaxDepth + 1
         /\ IsFiniteSet(Followed(p)) /\ IsFiniteSet(Ended(p))
         /\ \A t \in Held(Last(p)) : HoldingWeight(p, t) \in Nat \ {0}
         /\ \A t \in Followed(p) : t \in Held(Last(p)) /\ Live(Append(p, t)) /\ Len(p) <= MaxDepth
<1>1. p \in Paths /\ Len(p) \in 1..MaxDepth + 1  BY PathsAre, ConstantsAssumption DEF Live, IsPath
<1>2. Last(p) \in Parsed  BY <1>1 DEF Live, Last
<1>3. IsFiniteSet(Followed(p)) /\ IsFiniteSet(Ended(p))
  <2>1. IsFiniteSet(Held(Last(p)))  BY <1>2, ParsedAre
  <2>2. Followed(p) \subseteq Held(Last(p)) /\ Ended(p) \subseteq Held(Last(p))
    BY DEF Followed, Ended
  <2> QED  BY <2>1, <2>2, FS_Subset
<1>4. ASSUME NEW t \in Held(Last(p))  PROVE HoldingWeight(p, t) \in Nat \ {0}
  <2>1. nodes[Last(p)].holdings[t] \in Nat /\ nodes[Last(p)].holdings[t] > 0
    BY <1>2, ParsedAre DEF Held
  <2> QED  BY <2>1 DEF HoldingWeight
<1>5. ASSUME NEW t \in Followed(p)
      PROVE t \in Held(Last(p)) /\ Live(Append(p, t)) /\ Len(p) <= MaxDepth
  <2>1. t \in Parsed /\ t \in Reports /\ Depth(p) < MaxDepth /\ t \in Held(Last(p))
    BY <1>1, FollowedAre
  <2>2. /\ Append(p, t) \in Paths /\ Len(Append(p, t)) = Len(p) + 1 /\ Append(p, t)[Len(p) + 1] = t
        /\ \A i \in 1..Len(p) : Append(p, t)[i] = p[i]
    BY <1>1, <2>1, LongerPath DEF Last
  <2>3. \A i \in 1..Len(p) + 1 : i \in 1..Len(p) \/ i = Len(p) + 1  BY <1>1
  <2>4. Live(Append(p, t))  BY <2>1, <2>2, <2>3 DEF Live
  <2>5. Len(p) <= MaxDepth  BY <1>1, <2>1, ConstantsAssumption DEF Depth
  <2> QED  BY <2>1, <2>4, <2>5
<1> QED  BY <1>1, <1>2, <1>3, <1>4, <1>5

\* What a visit returns is in whole parts of the path's level, unresolved at most all.
IsWhole(result, n) ==
    /\ result.unresolved \in Nat /\ result.unresolved <= Hundred
    /\ Multiple(result.unresolved, Power[n])
    /\ \A l \in Labels : Multiple(result.exposure[l], Power[n])

\* A capped amount is itself or 100 percent.
LEMMA CappedIs ==
  ASSUME NEW v \in Nat
  PROVE  Capped(v) \in Nat /\ Capped(v) <= Hundred /\ Capped(v) \in {v, Hundred} /\ Capped(v) <= v
BY PercentIs DEF Capped

\* 100 percent, and nothing, are whole numbers of the parts of every level.
LEMMA HundredIsWhole ==
  ASSUME NEW n \in 0..MaxDepth + 2
  PROVE  Multiple(Hundred, Power[n]) /\ Multiple(0, Power[n])
<1>1. MaxDepth + 2 \in 0..MaxDepth + 2 /\ n \in 0..MaxDepth + 2  BY ConstantsAssumption
<1>2. Multiple(Hundred, Power[n])  BY <1>1, PowersDivide DEF Hundred
<1>3. Power[n] \in Nat  BY PowerIsPositive
<1>4. 0 = Power[n] * 0  BY <1>3
<1> QED  BY <1>2, <1>4 DEF Multiple

\* A part of what was found is in whole parts of the level above, and exact.
LEMMA TimesIsWhole ==
  ASSUME NEW w \in Nat, NEW n \in 0..MaxDepth + 1, NEW v, Multiple(v, Power[n + 1])
  PROVE  /\ v \in Nat /\ Times(w, v) \in Nat /\ Multiple(Times(w, v), Power[n])
         /\ Scale * Times(w, v) = w * v
<1>1. PICK k \in Nat : v = Power[n + 1] * k  BY DEF Multiple
<1> DEFINE u == Power[n]
           U == Power[n + 1]
           x == u * (w * k)
<1>2. u \in Nat \ {0} /\ U \in Nat
  <2>1. n \in 0..MaxDepth + 2 /\ n + 1 \in 0..MaxDepth + 2  BY ConstantsAssumption
  <2> QED  BY <2>1, PowerIsPositive
<1>3. U = Scale * u /\ Scale \in Nat \ {0}  BY PowerIs, ConstantsAssumption
<1>4. v = U * k  BY <1>1
<1> HIDE DEF u, U
<1>5. w * k \in Nat /\ x \in Nat /\ U * k \in Nat  BY <1>2
<1>6. v = (Scale * u) * k  BY <1>3, <1>4
<1>7. w * v = Scale * x  BY <1>2, <1>3, <1>6
<1>8. Multiple(x, u)  BY <1>5 DEF Multiple
<1> HIDE DEF x
<1>9. (Scale * x) \div Scale = x  BY <1>3, <1>5
<1>10. Times(w, v) = x  BY <1>7, <1>9 DEF Times
<1>11. v \in Nat  BY <1>4, <1>5
<1> QED  BY <1>5, <1>7, <1>8, <1>10, <1>11 DEF u

\* What a holding found is in whole parts of its level.
LEMMA ChildIsWhole ==
  ASSUME TypeOK, NEW p, Live(p), NEW t \in Followed(p),
         IsWhole(Visits[Append(p, t)], Len(p) + 1)
  PROVE  IsWhole(Child(p, t), Len(p) + 1)
<1>1. Len(p) \in 1..MaxDepth + 1  BY LiveIs
<1>2. CASE OnPath(p, t)
  <2>1. Child(p, t) = Circular(Depth(p) + 1)  BY <1>2, ChildIs
  <2>2. Child(p, t).unresolved = Hundred /\ \A l \in Labels : Child(p, t).exposure[l] = 0
    BY <2>1, CircularIs
  <2>3. Len(p) + 1 \in 0..MaxDepth + 2  BY <1>1, ConstantsAssumption
  <2>4. Multiple(Hundred, Power[Len(p) + 1]) /\ Multiple(0, Power[Len(p) + 1])
    BY <2>3, HundredIsWhole
  <2>5. Hundred \in Nat  BY PercentIs
  <2>6. Hundred <= Hundred  BY <2>5
  <2> QED  BY <2>2, <2>4, <2>5, <2>6 DEF IsWhole
<1>3. CASE ~OnPath(p, t)
  <2>1. Child(p, t) = Visits[Append(p, t)]  BY <1>3, ChildIs
  <2> QED  BY <2>1
<1> QED  BY <1>2, <1>3

\* The parts that are summed are in whole parts of the level, so no division loses anything.
LEMMA PartsAreWhole ==
  ASSUME TypeOK, NEW p, Live(p), \A t \in Followed(p) : IsWhole(Child(p, t), Len(p) + 1)
  PROVE  /\ \A l \in Labels : \A t \in Followed(p) :
               /\ Multiple(ExposureParts(p, l)[t], Power[Len(p)])
               /\ ExposureParts(p, l)[t] \in Nat
               /\ Scale * ExposureParts(p, l)[t] = HoldingWeight(p, t) * Child(p, t).exposure[l]
         /\ \A t \in Followed(p) :
               /\ Multiple(Nested(p)[t], Power[Len(p)]) /\ Nested(p)[t] \in Nat
               /\ Scale * Nested(p)[t] = HoldingWeight(p, t) * Child(p, t).unresolved
         /\ \A t \in Ended(p) : /\ Multiple(EndedWeights(p)[t], Power[Len(p)])
                                /\ EndedWeights(p)[t] = Percent(HoldingWeight(p, t))
                                /\ EndedWeights(p)[t] \in Nat
<1>1. Len(p) \in 0..MaxDepth + 1  BY LiveIs
<1>2. \A t \in Held(Last(p)) : HoldingWeight(p, t) \in Nat  BY LiveIs
<1>3. ASSUME NEW t \in Followed(p), NEW l \in Labels
      PROVE  /\ Multiple(ExposureParts(p, l)[t], Power[Len(p)])
             /\ ExposureParts(p, l)[t] \in Nat
             /\ Scale * ExposureParts(p, l)[t] = HoldingWeight(p, t) * Child(p, t).exposure[l]
  <2>1. HoldingWeight(p, t) \in Nat  BY <1>2 DEF Followed
  <2>2. Multiple(Child(p, t).exposure[l], Power[Len(p) + 1])  BY DEF IsWhole
  <2>3. ExposureParts(p, l)[t] = Times(HoldingWeight(p, t), Child(p, t).exposure[l])  BY DEF ExposureParts
  <2> QED  BY <1>1, <2>1, <2>2, <2>3, TimesIsWhole
<1>4. ASSUME NEW t \in Followed(p)
      PROVE  /\ Multiple(Nested(p)[t], Power[Len(p)]) /\ Nested(p)[t] \in Nat
             /\ Scale * Nested(p)[t] = HoldingWeight(p, t) * Child(p, t).unresolved
  <2>1. HoldingWeight(p, t) \in Nat  BY <1>2 DEF Followed
  <2>2. Multiple(Child(p, t).unresolved, Power[Len(p) + 1])  BY DEF IsWhole
  <2>3. Nested(p)[t] = Times(HoldingWeight(p, t), Child(p, t).unresolved)  BY DEF Nested
  <2> QED  BY <1>1, <2>1, <2>2, <2>3, TimesIsWhole
<1>5. ASSUME NEW t \in Ended(p)
      PROVE  /\ Multiple(EndedWeights(p)[t], Power[Len(p)])
             /\ EndedWeights(p)[t] = Percent(HoldingWeight(p, t)) /\ EndedWeights(p)[t] \in Nat
  <2>1. HoldingWeight(p, t) \in Nat  BY <1>2 DEF Ended
  <2>2. EndedWeights(p)[t] = Percent(HoldingWeight(p, t))  BY DEF EndedWeights
  <2>3. Percent(HoldingWeight(p, t)) \in Nat /\ Multiple(Percent(HoldingWeight(p, t)), Power[Len(p)])
    BY <1>1, <2>1, PercentIs, PercentIsWhole
  <2> QED  BY <2>2, <2>3
<1> QED  BY <1>3, <1>4, <1>5

\* The sums over the holdings of a report.
LEMMA SumsAreWhole ==
  ASSUME TypeOK, NEW p, Live(p), \A t \in Followed(p) : IsWhole(Child(p, t), Len(p) + 1)
  PROVE  /\ SumFunction(EndedWeights(p)) \in Nat /\ SumFunction(Nested(p)) \in Nat
         /\ Multiple(SumFunction(EndedWeights(p)), Power[Len(p)])
         /\ Multiple(SumFunction(Nested(p)), Power[Len(p)])
         /\ \A t \in Ended(p) : EndedWeights(p)[t] <= SumFunction(EndedWeights(p))
         /\ \A t \in Followed(p) : Nested(p)[t] <= SumFunction(Nested(p))
         /\ \A l \in Labels : /\ SumFunction(ExposureParts(p, l)) \in Nat
                              /\ Multiple(SumFunction(ExposureParts(p, l)), Power[Len(p)])
<1>1. Power[Len(p)] \in Nat \ {0}
  <2>1. Len(p) \in 0..MaxDepth + 2  BY LiveIs, ConstantsAssumption
  <2> QED  BY <2>1, PowerIsPositive
<1>2. IsFiniteSet(Followed(p)) /\ IsFiniteSet(Ended(p))  BY LiveIs
<1>3. DOMAIN EndedWeights(p) = Ended(p) /\ DOMAIN Nested(p) = Followed(p)
      /\ \A l \in Labels : DOMAIN ExposureParts(p, l) = Followed(p)
  BY DEF EndedWeights, Nested, ExposureParts
<1>4. /\ SumFunction(EndedWeights(p)) \in Nat
      /\ Multiple(SumFunction(EndedWeights(p)), Power[Len(p)])
      /\ \A t \in Ended(p) : EndedWeights(p)[t] <= SumFunction(EndedWeights(p))
  <2> DEFINE f == EndedWeights(p)
  <2>1. \A t \in Ended(p) : f[t] \in Nat /\ Multiple(f[t], Power[Len(p)])  BY PartsAreWhole
  <2>2. SumFunction(f) = SumFunctionOnSet(f, Ended(p))  BY <1>3 DEF SumFunction
  <2> HIDE DEF f
  <2>3. SumFunction(f) \in Nat /\ \A t \in Ended(p) : f[t] <= SumFunction(f)
    BY <1>2, <2>1, <2>2, SumOfNaturals
  <2>4. Multiple(SumFunction(f), Power[Len(p)])  BY <1>1, <1>2, <2>1, <2>2, SumOfWholes
  <2> QED  BY <2>3, <2>4 DEF f
<1>5. /\ SumFunction(Nested(p)) \in Nat
      /\ Multiple(SumFunction(Nested(p)), Power[Len(p)])
      /\ \A t \in Followed(p) : Nested(p)[t] <= SumFunction(Nested(p))
  <2> DEFINE f == Nested(p)
  <2>1. \A t \in Followed(p) : f[t] \in Nat /\ Multiple(f[t], Power[Len(p)])  BY PartsAreWhole
  <2>2. SumFunction(f) = SumFunctionOnSet(f, Followed(p))  BY <1>3 DEF SumFunction
  <2> HIDE DEF f
  <2>3. SumFunction(f) \in Nat /\ \A t \in Followed(p) : f[t] <= SumFunction(f)
    BY <1>2, <2>1, <2>2, SumOfNaturals
  <2>4. Multiple(SumFunction(f), Power[Len(p)])  BY <1>1, <1>2, <2>1, <2>2, SumOfWholes
  <2> QED  BY <2>3, <2>4 DEF f
<1>6. ASSUME NEW l \in Labels
      PROVE  /\ SumFunction(ExposureParts(p, l)) \in Nat
             /\ Multiple(SumFunction(ExposureParts(p, l)), Power[Len(p)])
  <2> DEFINE f == ExposureParts(p, l)
  <2>1. \A t \in Followed(p) : f[t] \in Nat /\ Multiple(f[t], Power[Len(p)])  BY PartsAreWhole
  <2>2. SumFunction(f) = SumFunctionOnSet(f, Followed(p))  BY <1>3 DEF SumFunction
  <2> HIDE DEF f
  <2>3. SumFunction(f) \in Nat  BY <1>2, <2>1, <2>2, SumOfNaturals
  <2>4. Multiple(SumFunction(f), Power[Len(p)])  BY <1>1, <1>2, <2>1, <2>2, SumOfWholes
  <2> QED  BY <2>3, <2>4 DEF f
<1> QED  BY <1>4, <1>5, <1>6

\* Every visit is whole, and so is all it finds.
LEMMA VisitsAreWhole ==
  ASSUME TypeOK
  PROVE  \A p \in Paths : Live(p) =>
            /\ IsWhole(Visits[p], Len(p))
            /\ \A t \in Followed(p) : IsWhole(Child(p, t), Len(p) + 1)
<1> DEFINE good == {p \in Paths : Live(p) =>
                        /\ IsWhole(Visits[p], Len(p))
                        /\ \A t \in Followed(p) : IsWhole(Child(p, t), Len(p) + 1)}
<1>1. ASSUME NEW p \in Paths, \A t \in Followed(p) : Append(p, t) \in good  PROVE p \in good
  <2> SUFFICES ASSUME Live(p)
               PROVE  /\ IsWhole(Visits[p], Len(p))
                      /\ \A t \in Followed(p) : IsWhole(Child(p, t), Len(p) + 1)
    OBVIOUS
  <2>0. Len(p) \in 1..MaxDepth + 1 /\ Last(p) \in Parsed  BY LiveIs
  <2>1. ASSUME NEW t \in Followed(p)  PROVE IsWhole(Child(p, t), Len(p) + 1)
    <3>1. Live(Append(p, t))  BY LiveIs
    <3>2. IsWhole(Visits[Append(p, t)], Len(Append(p, t)))  BY <1>1, <3>1
    <3>3. Len(Append(p, t)) = Len(p) + 1  BY FollowedAre, LongerPath
    <3> QED  BY <3>2, <3>3, ChildIsWhole
  <2> HIDE DEF good
  <2> DEFINE u == Power[Len(p)]
             a == SumFunction(EndedWeights(p))
             b == SumFunction(Nested(p))
  <2>2. u \in Nat \ {0} /\ Multiple(Hundred, u)
    <3>1. Len(p) \in 0..MaxDepth + 2  BY <2>0, ConstantsAssumption
    <3> QED  BY <3>1, PowerIsPositive, HundredIsWhole
  <2>3. a \in Nat /\ b \in Nat /\ Multiple(a, u) /\ Multiple(b, u)  BY <2>1, SumsAreWhole
  <2>4. Visits[p].unresolved = Capped(a + b)  BY VisitedUnresolved
  <2>5. ASSUME NEW l \in Labels  PROVE Multiple(Visits[p].exposure[l], u)
    <3> DEFINE d == nodes[Last(p)].direct[l]
               c == SumFunction(ExposureParts(p, l))
    <3>1. d \in Nat  BY <2>0, ParsedAre
    <3>2. Len(p) \in 0..MaxDepth + 1  BY <2>0
    <3>3. Multiple(Percent(d), u)  BY <3>1, <3>2, PercentIsWhole
    <3>4. Multiple(c, u)  BY <2>1, SumsAreWhole
    <3>5. Visits[p].exposure[l] = Percent(d) + c  BY VisitedExposure
    <3> HIDE DEF c, d, u
    <3> QED  BY <2>2, <3>3, <3>4, <3>5, MultiplesAdd
  <2> HIDE DEF a, b
  <2>6. a + b \in Nat /\ Multiple(a + b, u)
    <3> HIDE DEF u
    <3> QED  BY <2>2, <2>3, MultiplesAdd
  <2>7. Visits[p].unresolved \in Nat /\ Visits[p].unresolved <= Hundred
        /\ Multiple(Visits[p].unresolved, u)
    BY <2>2, <2>4, <2>6, CappedIs
  <2> QED  BY <2>1, <2>5, <2>7 DEF IsWhole
<1> HIDE DEF good
<1>2. \A p \in Paths : p \in good  BY <1>1, PathInduction
<1> QED  BY <1>2 DEF good

-----------------------------------------------------------------------------
(* Ways.                                                                    *)

\* The ways that go on from a path.
WaysFrom(p) ==
    {q \in SimplePaths :
        /\ Len(p) <= Len(q) /\ \A i \in 1..Len(p) : q[i] = p[i]
        /\ \A i \in Len(p)..Depth(q) : q[i + 1] \in Parsed /\ nodes[q[i]].holdings[q[i + 1]] > 0}

SimpleLive(p) == Live(p) /\ IsInjective(p)

\* The first steps of the ways.
Onward(p) == {t \in Followed(p) : ~OnPath(p, t)}

\* A way goes on to reports that it has not met.
LEMMA OnwardIs ==
  ASSUME TypeOK, NEW p, SimpleLive(p), NEW t \in Onward(p)
  PROVE  /\ SimpleLive(Append(p, t)) /\ t \in Followed(p) /\ Len(p) <= MaxDepth
         /\ Child(p, t) = Visits[Append(p, t)]
         /\ Append(p, t) \in Paths /\ Len(Append(p, t)) = Len(p) + 1
         /\ \A i \in 1..Len(p) : Append(p, t)[i] = p[i]
         /\ Append(p, t)[Len(p) + 1] = t
<1>1. Live(p) /\ IsInjective(p) /\ t \in Followed(p) /\ ~OnPath(p, t)  BY DEF SimpleLive, Onward
<1>2. p \in Paths /\ Len(p) \in Nat /\ Live(Append(p, t)) /\ Len(p) <= MaxDepth  BY <1>1, LiveIs
<1>3. /\ Append(p, t) \in Paths /\ Len(Append(p, t)) = Len(p) + 1
      /\ \A i \in 1..Len(p) : Append(p, t)[i] = p[i]
      /\ Append(p, t)[Len(p) + 1] = t
  BY <1>1, <1>2, FollowedAre, LongerPath DEF Last
<1>4. IsInjective(Append(p, t))
  <2> DEFINE q == Append(p, t)
  <2>1. p \in Seq(Reports) /\ q \in Seq(Reports)  BY <1>2, <1>3, PathsAre DEF IsPath
  <2>2. DOMAIN p = 1..Len(p) /\ DOMAIN q = 1..Len(p) + 1
    <3> HIDE DEF q
    <3> QED  BY <1>3, <2>1 DEF q
  <2>3. \A i \in 1..Len(p) : p[i] # t  BY <1>1, <2>2 DEF OnPath, Range
  <2>4. \A i, j \in 1..Len(p) : p[i] = p[j] => i = j  BY <1>1, <2>2 DEF IsInjective
  <2>5. \A i \in 1..Len(p) + 1 : (i \in 1..Len(p) /\ q[i] = p[i]) \/ (i = Len(p) + 1 /\ q[i] = t)
    BY <1>2, <1>3
  <2> HIDE DEF q
  <2>6. \A i, j \in 1..Len(p) + 1 : q[i] = q[j] => i = j  BY <2>3, <2>4, <2>5
  <2> QED  BY <2>2, <2>6 DEF IsInjective, q
<1>5. Child(p, t) = Visits[Append(p, t)]  BY <1>1, ChildIs
<1> QED  BY <1>1, <1>2, <1>3, <1>4, <1>5 DEF SimpleLive

\* The ways from a path are the path and the ways from the paths one step longer.
LEMMA WaysAre ==
  ASSUME TypeOK, NEW p, SimpleLive(p)
  PROVE  /\ p \in WaysFrom(p)
         /\ \A t \in Onward(p) : WaysFrom(Append(p, t)) \subseteq WaysFrom(p)
         /\ \A q \in WaysFrom(p) : q = p \/ \E t \in Onward(p) : q \in WaysFrom(Append(p, t))
<1>0. /\ p \in Paths /\ p \in SimplePaths /\ Len(p) \in 1..MaxDepth + 1 /\ Last(p) \in Parsed
      /\ MaxDepth \in Nat
  BY LiveIs, ConstantsAssumption DEF SimpleLive, SimplePaths
<1>1. p \in WaysFrom(p)
  <2>1. Len(p)..Depth(p) = {}  BY <1>0 DEF Depth
  <2> QED  BY <1>0, <2>1 DEF WaysFrom
<1>2. ASSUME NEW t \in Onward(p), NEW q \in WaysFrom(Append(p, t))  PROVE q \in WaysFrom(p)
  <2> DEFINE a == Append(p, t)
  <2>1. /\ Len(a) = Len(p) + 1 /\ (\A i \in 1..Len(p) : a[i] = p[i]) /\ a[Len(p) + 1] = t
        /\ t \in Parsed /\ t \in Held(Last(p))
    BY <1>0, OnwardIs, FollowedAre
  <2> HIDE DEF a
  <2>2. /\ q \in SimplePaths /\ Len(a) <= Len(q) /\ \A i \in 1..Len(a) : q[i] = a[i]
        /\ \A i \in Len(a)..Depth(q) : q[i + 1] \in Parsed /\ nodes[q[i]].holdings[q[i + 1]] > 0
    BY <1>2 DEF WaysFrom, a
  <2>3. q \in Paths /\ Len(q) \in 1..MaxDepth + 1  BY <1>0, <2>2, PathsAre DEF SimplePaths, IsPath
  <2>4. Len(p) <= Len(q) /\ \A i \in 1..Len(p) : q[i] = p[i]
    <3>1. \A i \in 1..Len(p) : i \in 1..Len(a)  BY <1>0, <2>1
    <3> QED  BY <1>0, <2>1, <2>2, <2>3, <3>1
  <2>5. q[Len(p) + 1] = t /\ q[Len(p)] = Last(p)
    <3>1. Len(p) + 1 \in 1..Len(a) /\ Len(p) \in 1..Len(p)  BY <1>0, <2>1
    <3> QED  BY <2>1, <2>2, <2>4, <3>1 DEF Last
  <2>6. ASSUME NEW i \in Len(p)..Depth(q)
        PROVE  q[i + 1] \in Parsed /\ nodes[q[i]].holdings[q[i + 1]] > 0
    <3>1. CASE i = Len(p)  BY <2>1, <2>5, <3>1 DEF Held
    <3>2. CASE i # Len(p)
      <4>1. i \in Len(a)..Depth(q)  BY <1>0, <2>1, <2>3, <3>2 DEF Depth
      <4> QED  BY <2>2, <4>1
    <3> QED  BY <3>1, <3>2
  <2> QED  BY <2>2, <2>4, <2>6 DEF WaysFrom
<1>3. ASSUME NEW q \in WaysFrom(p), q # p
      PROVE  \E t \in Onward(p) : q \in WaysFrom(Append(p, t))
  <2> DEFINE t == q[Len(p) + 1]
             a == Append(p, t)
  <2>1. /\ q \in SimplePaths /\ Len(p) <= Len(q) /\ \A i \in 1..Len(p) : q[i] = p[i]
        /\ \A i \in Len(p)..Depth(q) : q[i + 1] \in Parsed /\ nodes[q[i]].holdings[q[i + 1]] > 0
    BY DEF WaysFrom
  <2>2. q \in Seq(Reports) /\ p \in Seq(Reports) /\ Len(q) \in 1..MaxDepth + 1 /\ IsInjective(q)
    BY <1>0, <2>1, PathsAre DEF SimplePaths, IsPath
  <2>3. Len(p) < Len(q)
    <3>1. ASSUME Len(p) = Len(q)  PROVE FALSE
      <4>1. q = p  BY <2>1, <2>2, <3>1
      <4> QED  BY <1>3, <4>1
    <3> QED  BY <1>0, <2>1, <2>2, <3>1
  <2>4. Len(p) \in Len(p)..Depth(q) /\ Len(p) \in 1..Len(p) /\ Len(p) + 1 \in 1..Len(q)
    BY <1>0, <2>2, <2>3 DEF Depth
  <2>5. t \in Parsed /\ nodes[Last(p)].holdings[t] > 0  BY <2>1, <2>4 DEF Last
  <2>6. t \in Held(Last(p))  BY <2>5 DEF Held, Targets, Parsed
  <2>7. Depth(p) < MaxDepth  BY <1>0, <2>2, <2>3 DEF Depth
  <2>8. ~OnPath(p, t)
    <3>1. \A i \in 1..Len(p) : q[i] # t
      <4>1. DOMAIN q = 1..Len(q)  BY <2>2
      <4>2. \A i \in 1..Len(p) : i \in 1..Len(q) /\ i # Len(p) + 1  BY <1>0, <2>2, <2>3
      <4> QED  BY <2>2, <2>4, <4>1, <4>2 DEF IsInjective
    <3>2. DOMAIN p = 1..Len(p)  BY <2>2
    <3> HIDE DEF t
    <3> QED  BY <2>1, <3>1, <3>2 DEF OnPath, Range
  <2>9. t \in Onward(p)
    <3>1. ~(Depth(p) >= MaxDepth)  BY <1>0, <2>7 DEF Depth
    <3> HIDE DEF t
    <3> QED  BY <2>5, <2>6, <2>8, <3>1 DEF Onward, Followed, Unresolved
  <2>10. Len(a) = Len(p) + 1 /\ (\A i \in 1..Len(p) : a[i] = p[i]) /\ a[Len(p) + 1] = t
    BY <2>9, OnwardIs
  <2>11. q \in WaysFrom(a)
    <3>1. Len(a) <= Len(q)  BY <1>0, <2>2, <2>3, <2>10
    <3>2. \A i \in 1..Len(a) : q[i] = a[i]
      <4>1. \A i \in 1..Len(a) : i \in 1..Len(p) \/ i = Len(p) + 1  BY <1>0, <2>10
      <4> HIDE DEF a
      <4> QED  BY <2>1, <2>10, <4>1
    <3>3. \A i \in Len(a)..Depth(q) : i \in Len(p)..Depth(q)  BY <1>0, <2>2, <2>10 DEF Depth
    <3> HIDE DEF a, t
    <3> QED  BY <2>1, <3>1, <3>2, <3>3 DEF WaysFrom
  <2> QED  BY <2>9, <2>11
<1> QED  BY <1>1, <1>2, <1>3

\* A way that leads back to itself before the depth is reached.
LeadsBack(q) == Depth(q) < MaxDepth /\ Held(Last(q)) \cap Range(q) # {}

\* The flag is raised exactly if a way leads back to itself.
LEMMA FlagIsACycle ==
  ASSUME TypeOK
  PROVE  \A p \in Paths : SimpleLive(p) =>
            (Visits[p].circular <=> \E q \in WaysFrom(p) : LeadsBack(q))
<1> DEFINE good == {p \in Paths : SimpleLive(p) =>
                       (Visits[p].circular <=> \E q \in WaysFrom(p) : LeadsBack(q))}
<1>1. ASSUME NEW p \in Paths, \A t \in Followed(p) : Append(p, t) \in good  PROVE p \in good
  <2> SUFFICES ASSUME SimpleLive(p)
               PROVE  Visits[p].circular <=> \E q \in WaysFrom(p) : LeadsBack(q)
    OBVIOUS
  <2>1. \A t \in Onward(p) :
           Child(p, t).circular <=> \E q \in WaysFrom(Append(p, t)) : LeadsBack(q)
    <3> TAKE t \in Onward(p)
    <3>1. t \in Followed(p) /\ SimpleLive(Append(p, t)) /\ Child(p, t) = Visits[Append(p, t)]
      BY OnwardIs
    <3>2. Append(p, t) \in good  BY <1>1, <3>1
    <3> QED  BY <3>1, <3>2
  <2> HIDE DEF good
  <2>2. \A t \in Followed(p) : t \notin Onward(p) => OnPath(p, t) /\ Child(p, t).circular
    <3> TAKE t \in Followed(p)
    <3>1. ASSUME t \notin Onward(p)  PROVE OnPath(p, t) /\ Child(p, t).circular
      <4>1. OnPath(p, t)  BY <3>1 DEF Onward
      <4>2. Child(p, t) = Circular(Depth(p) + 1)  BY <4>1, ChildIs
      <4> QED  BY <4>1, <4>2, CircularIs
    <3> QED  BY <3>1
  <2>3. Visits[p].circular <=> \E t \in Followed(p) : Child(p, t).circular  BY VisitedCircular
  <2>4. /\ p \in WaysFrom(p)
        /\ \A t \in Onward(p) : WaysFrom(Append(p, t)) \subseteq WaysFrom(p)
        /\ \A q \in WaysFrom(p) : q = p \/ \E t \in Onward(p) : q \in WaysFrom(Append(p, t))
    BY WaysAre
  <2>5. ASSUME Visits[p].circular  PROVE \E q \in WaysFrom(p) : LeadsBack(q)
    <3>1. PICK t \in Followed(p) : Child(p, t).circular  BY <2>3, <2>5
    <3>2. CASE t \in Onward(p)
      <4>1. PICK q \in WaysFrom(Append(p, t)) : LeadsBack(q)  BY <2>1, <3>1, <3>2
      <4> QED  BY <2>4, <3>2, <4>1
    <3>3. CASE t \notin Onward(p)
      <4>1. OnPath(p, t) /\ t \in Held(Last(p)) /\ Depth(p) < MaxDepth  BY <2>2, <3>3, FollowedAre
      <4>2. LeadsBack(p)  BY <4>1 DEF LeadsBack, OnPath
      <4> QED  BY <2>4, <4>2
    <3> QED  BY <3>2, <3>3
  <2>6. ASSUME NEW q \in WaysFrom(p), LeadsBack(q)  PROVE Visits[p].circular
    <3>1. CASE q = p
      <4>1. PICK t \in Held(Last(p)) : OnPath(p, t) /\ Depth(p) < MaxDepth
        BY <2>6, <3>1 DEF LeadsBack, OnPath
      <4>2. t \in Parsed
        <5>1. Live(p) /\ p \in Seq(Reports)  BY PathsAre DEF SimpleLive, IsPath
        <5>2. DOMAIN p = 1..Len(p)  BY <5>1
        <5> QED  BY <4>1, <5>1, <5>2 DEF OnPath, Range, Live
      <4>3. ~(Depth(p) >= MaxDepth)
        <5>1. Depth(p) \in Int /\ MaxDepth \in Int
          BY PathsAre, ConstantsAssumption DEF IsPath, Depth
        <5> QED  BY <4>1, <5>1
      <4>4. t \in Followed(p) /\ t \notin Onward(p)
        BY <4>1, <4>2, <4>3 DEF Followed, Unresolved, Onward
      <4> QED  BY <2>2, <2>3, <4>4
    <3>2. CASE q # p
      <4>1. PICK t \in Onward(p) : q \in WaysFrom(Append(p, t))  BY <2>4, <3>2
      <4>2. Child(p, t).circular  BY <2>1, <2>6, <4>1
      <4> QED  BY <2>3, <4>1, <4>2 DEF Onward
    <3> QED  BY <3>1, <3>2
  <2> QED  BY <2>5, <2>6
<1> HIDE DEF good
<1>2. \A p \in Paths : p \in good  BY <1>1, PathInduction
<1> QED  BY <1>2 DEF good

\* A positive weight of something is something.
LEMMA PositiveParts ==
  ASSUME NEW w \in Nat \ {0}, NEW v \in Nat, NEW n \in Nat, Scale * n = w * v, n = 0
  PROVE  v = 0
<1>1. Scale * 0 = 0  BY ConstantsAssumption
<1>2. w * v = 0  BY <1>1
<1> QED  BY <1>2

\* No unresolved weight, and no holding is left or leads to one.
LEMMA NothingUnresolved ==
  ASSUME TypeOK, NEW p, Live(p), Visits[p].unresolved = 0
  PROVE  Ended(p) = {} /\ \A t \in Followed(p) : Child(p, t).unresolved = 0
<1>1. p \in Paths /\ \A t \in Followed(p) : IsWhole(Child(p, t), Len(p) + 1)
  BY VisitsAreWhole DEF Live
<1> DEFINE a == SumFunction(EndedWeights(p))
           b == SumFunction(Nested(p))
<1>2. /\ a \in Nat /\ b \in Nat
      /\ \A t \in Ended(p) : EndedWeights(p)[t] <= a
      /\ \A t \in Followed(p) : Nested(p)[t] <= b
  BY <1>1, SumsAreWhole
<1>3. Capped(a + b) = 0  BY <1>1, VisitedUnresolved
<1> HIDE DEF a, b
<1>4. a + b \in Nat /\ Capped(a + b) \in {a + b, Hundred} /\ Hundred # 0
  BY <1>2, CappedIs, PercentIs
<1>5. a = 0 /\ b = 0  BY <1>2, <1>3, <1>4
<1>6. \A t \in Held(Last(p)) : HoldingWeight(p, t) \in Nat \ {0}  BY LiveIs
<1>7. ASSUME NEW t \in Ended(p)  PROVE FALSE
  <2> DEFINE w == HoldingWeight(p, t)
             u == Power[MaxDepth + 1]
  <2>1. w \in Nat \ {0}  BY <1>6 DEF Ended
  <2>2. u \in Nat \ {0}
    <3>1. MaxDepth + 1 \in 0..MaxDepth + 2  BY ConstantsAssumption
    <3> QED  BY <3>1, PowerIsPositive
  <2>3. EndedWeights(p)[t] = Percent(w) /\ EndedWeights(p)[t] \in Nat  BY <1>1, PartsAreWhole
  <2>4. Percent(w) = w * u  BY <2>1, PercentIs
  <2> HIDE DEF w, u
  <2>5. w * u \in Nat \ {0}  BY <2>1, <2>2, Products
  <2>6. EndedWeights(p)[t] <= 0  BY <1>2, <1>5
  <2> QED  BY <2>3, <2>4, <2>5, <2>6
<1>8. ASSUME NEW t \in Followed(p)  PROVE Child(p, t).unresolved = 0
  <2> DEFINE w == HoldingWeight(p, t)
             v == Child(p, t).unresolved
             n == Nested(p)[t]
  <2>1. w \in Nat \ {0} /\ v \in Nat  BY <1>1, <1>6 DEF Followed, IsWhole
  <2>2. n \in Nat /\ Scale * n = w * v  BY <1>1, PartsAreWhole
  <2>3. n <= 0  BY <1>2, <1>5
  <2> HIDE DEF w, v, n
  <2>4. n = 0  BY <2>2, <2>3
  <2>5. v = 0  BY <2>1, <2>2, <2>4, PositiveParts
  <2> QED  BY <2>5 DEF v
<1> QED  BY <1>7, <1>8

\* So no way has a dead end.
LEMMA NoDeadEnds ==
  ASSUME TypeOK
  PROVE  \A p \in Paths : SimpleLive(p) /\ ~Visits[p].circular /\ Visits[p].unresolved = 0 =>
            \A q \in WaysFrom(p) : DeadEnds(q) = {}
<1> DEFINE good == {p \in Paths :
                      SimpleLive(p) /\ ~Visits[p].circular /\ Visits[p].unresolved = 0 =>
                         \A q \in WaysFrom(p) : DeadEnds(q) = {}}
<1>1. ASSUME NEW p \in Paths, \A t \in Followed(p) : Append(p, t) \in good  PROVE p \in good
  <2> SUFFICES ASSUME SimpleLive(p), ~Visits[p].circular, Visits[p].unresolved = 0,
                      NEW q \in WaysFrom(p)
               PROVE  DeadEnds(q) = {}
    OBVIOUS
  <2>0. Live(p)  BY DEF SimpleLive
  <2>1. Ended(p) = {} /\ \A t \in Followed(p) : Child(p, t).unresolved = 0
    BY <2>0, NothingUnresolved
  <2>2. \A t \in Followed(p) : ~Child(p, t).circular  BY VisitedCircular
  <2>3. \A t \in Followed(p) : ~OnPath(p, t)
    <3> TAKE t \in Followed(p)
    <3>1. ASSUME OnPath(p, t)  PROVE Child(p, t).circular
      <4>1. Child(p, t) = Circular(Depth(p) + 1)  BY <3>1, ChildIs
      <4> QED  BY <4>1, CircularIs
    <3> QED  BY <2>2, <3>1
  <2>4. CASE q = p
    <3>1. Held(Last(p)) = Followed(p)  BY <2>1 DEF Ended, Followed
    <3>2. Depth(p) \in Int /\ MaxDepth \in Int  BY PathsAre, ConstantsAssumption DEF IsPath, Depth
    <3>3. ASSUME NEW t \in DeadEnds(p)  PROVE FALSE
      <4>1. t \in Followed(p) /\ (t \notin Parsed \/ OnPath(p, t) \/ Depth(p) = MaxDepth)
        BY <3>1, <3>3 DEF DeadEnds, OnPath
      <4>2. t \in Parsed /\ Depth(p) < MaxDepth  BY <4>1, FollowedAre
      <4> QED  BY <2>3, <3>2, <4>1, <4>2
    <3> QED  BY <2>4, <3>3
  <2>5. CASE q # p
    <3>1. PICK t \in Onward(p) : q \in WaysFrom(Append(p, t))  BY <2>5, WaysAre
    <3>2. t \in Followed(p) /\ SimpleLive(Append(p, t)) /\ Child(p, t) = Visits[Append(p, t)]
      BY OnwardIs
    <3>3. ~Visits[Append(p, t)].circular /\ Visits[Append(p, t)].unresolved = 0
      BY <2>1, <2>2, <3>2
    <3>4. Append(p, t) \in good  BY <1>1, <3>2
    <3> QED  BY <3>1, <3>2, <3>3, <3>4
  <2> QED  BY <2>4, <2>5
<1> HIDE DEF good
<1>2. \A p \in Paths : p \in good  BY <1>1, PathInduction
<1> QED  BY <1>2 DEF good

\* The visit of a report.
LEMMA RootIs ==
  ASSUME TypeOK, NEW r \in Parsed
  PROVE  /\ <<r>> \in Paths /\ SimpleLive(<<r>>) /\ Last(<<r>>) = r /\ Len(<<r>>) = 1
         /\ WaysFrom(<<r>>) = Ways(r) /\ WeightedLookthrough(r) = Visits[<<r>>]
<1> DEFINE p == <<r>>
<1>0. r \in Reports /\ MaxDepth \in Nat  BY ConstantsAssumption DEF Parsed
<1>1. p \in Seq(Reports) /\ Len(p) = 1 /\ p[1] = r /\ DOMAIN p = 1..1  BY <1>0
<1> HIDE DEF p
<1>2. p \in Paths
  <2>1. IsPath(p)  BY <1>0, <1>1 DEF IsPath
  <2> QED  BY <2>1, PathsAre
<1>3. SimpleLive(p)
  <2>1. \A i \in 1..Len(p) : p[i] \in Parsed  BY <1>1
  <2>2. IsInjective(p)  BY <1>1 DEF IsInjective
  <2> QED  BY <1>2, <2>1, <2>2 DEF SimpleLive, Live
<1>4. WaysFrom(p) = Ways(r)
  <2>1. \A q \in SimplePaths : Len(q) \in 1..MaxDepth + 1
    BY <1>0, PathsAre DEF SimplePaths, IsPath
  <2>2. \A q \in SimplePaths : Len(p) <= Len(q)  BY <1>1, <2>1
  <2>3. \A q \in SimplePaths : (\A i \in 1..Len(p) : q[i] = p[i]) <=> q[1] = r  BY <1>1
  <2> QED  BY <1>1, <2>2, <2>3 DEF WaysFrom, Ways
<1>5. Last(p) = r  BY <1>1 DEF Last
<1> QED  BY <1>1, <1>2, <1>3, <1>4, <1>5 DEF p, WeightedLookthrough

\* The flags are honest of whatever rows are typed.
LEMMA TypedFlagsAreHonest == TypeOK => FlagsAreHonest
<1> SUFFICES ASSUME TypeOK, NEW r \in Parsed  PROVE Honest(r, WeightedLookthrough(r))
  BY DEF FlagsAreHonest
<1> DEFINE p == <<r>>
           result == WeightedLookthrough(r)
<1>1. /\ p \in Paths /\ SimpleLive(p) /\ Last(p) = r /\ Len(p) = 1
      /\ WaysFrom(p) = Ways(r) /\ result = Visits[p]
  BY RootIs
<1> HIDE DEF p, result
<1>2. result.circular <=> \E q \in Ways(r) : Depth(q) < MaxDepth /\ Held(Last(q)) \cap Range(q) # {}
  BY <1>1, FlagIsACycle DEF LeadsBack
<1>3. ASSUME LookthroughStatus(r, result) \in {"resolved", "direct_only"}, NEW q \in Ways(r)
      PROVE  DeadEnds(q) = {}
  <2>1. ~result.circular  BY <1>3 DEF LookthroughStatus
  <2>2. CASE Held(r) = {}
    <3>1. Onward(p) = {}  BY <1>1, <2>2 DEF Onward, Followed
    <3>2. q = p  BY <1>1, <3>1, WaysAre
    <3> QED  BY <1>1, <2>2, <3>2 DEF DeadEnds
  <2>3. CASE Held(r) # {}
    <3>1. ~(result.unresolved > 0)  BY <1>3, <2>1, <2>3 DEF LookthroughStatus
    <3>2. result.unresolved \in Nat  BY <1>1, VisitsAreWhole DEF IsWhole, SimpleLive
    <3>3. result.unresolved = 0  BY <3>1, <3>2
    <3> QED  BY <1>1, <2>1, <3>3, NoDeadEnds
  <2> QED  BY <2>2, <2>3
<1> QED  BY <1>2, <1>3 DEF Honest, result

\* The rows of the reports stay typed.
LEMMA TypeStays ==
  ASSUME TypeOK, [Next]_vars
  PROVE  TypeOK'
BY DEF TypeOK, Next, Store, Leave, vars

\* For any reports, holdings and depth: a report is flagged as circular exactly if one of the
\* ways from it, followed no deeper than the depth, leads back to a report on it, and one
\* that is shown as resolved or as direct only has no holding on any way that leads nowhere
\* (lookthrough.py, weighted_lookthrough and lookthrough_status).
THEOREM FlagsAreHonestAlways == Spec => []FlagsAreHonest
<1>1. Init => TypeOK  BY DEF Init, TypeOK
<1>2. TypeOK /\ [Next]_vars => TypeOK'  BY TypeStays
<1>3. TypeOK => FlagsAreHonest  BY TypedFlagsAreHonest
<1> QED  BY <1>1, <1>2, <1>3, PTL DEF Spec

-----------------------------------------------------------------------------
(* Sums of parts.                                                           *)

\* What is nothing adds nothing.
LEMMA SumWithout ==
  ASSUME NEW f, NEW S, Summable(f, S), NEW T, T \subseteq S, \A x \in S \ T : f[x] = 0
  PROVE  SumFunctionOnSet(f, S) = SumFunctionOnSet(f, T)
<1>1. SumFunctionOnSet(f, S) = SumFunctionOnSet(f, T) + SumFunctionOnSet(f, S \ T)  BY SumSplit
<1>2. Summable(f, S \ T) /\ SumFunctionOnSet(f, S \ T) \in Int /\ SumFunctionOnSet(f, T) \in Int
  <2>1. S \ T \subseteq S  OBVIOUS
  <2> QED  BY <2>1, SummableParts
<1>3. \A x \in S \ T : f[x] = 0 * f[x]  BY <1>2 DEF Summable
<1>4. SumFunctionOnSet(f, S \ T) = 0 * SumFunctionOnSet(f, S \ T)  BY <1>2, <1>3, SumScale
<1> QED  BY <1>1, <1>2, <1>4

\* A table of integers, by its rows and by its columns.
IsTable(rows, columns, S, T) ==
    /\ IsFiniteSet(S) /\ IsFiniteSet(T)
    /\ \A s \in S : \A t \in T : rows[s][t] \in Int /\ columns[t][s] = rows[s][t]

\* The sum over the rows is the sum over the columns.
LEMMA SumSwap ==
  ASSUME NEW S, NEW T, NEW rows, NEW columns, IsTable(rows, columns, S, T), NEW a, NEW b,
         \A s \in S : a[s] = SumFunctionOnSet(rows[s], T),
         \A t \in T : b[t] = SumFunctionOnSet(columns[t], S)
  PROVE  SumFunctionOnSet(a, S) = SumFunctionOnSet(b, T)
<1> DEFINE Below(s) == [t \in T |-> SumFunctionOnSet(columns[t], s)]
           good == {s \in SUBSET S : SumFunctionOnSet(a, s) = SumFunctionOnSet(Below(s), T)}
<1>1. /\ IsFiniteSet(S) /\ IsFiniteSet(T)
      /\ \A s \in S : \A t \in T : rows[s][t] \in Int /\ columns[t][s] = rows[s][t]
  BY DEF IsTable
<1>2. \A s \in S : Summable(rows[s], T) /\ a[s] \in Int
  <2> TAKE s \in S
  <2>1. Summable(rows[s], T)  BY <1>1 DEF Summable
  <2> QED  BY <2>1, SummableParts
<1>3. Summable(a, S)  BY <1>1, <1>2 DEF Summable
<1>4. \A t \in T : Summable(columns[t], S)  BY <1>1 DEF Summable
<1>5. \A s \in SUBSET S : Summable(Below(s), T)
  <2> TAKE s \in SUBSET S
  <2>1. \A t \in T : SumFunctionOnSet(columns[t], s) \in Int  BY <1>4, SummableParts
  <2> QED  BY <1>1, <2>1 DEF Summable
<1>6. {} \in good
  <2>1. \A t \in T : Below({})[t] = 0 * Below({})[t]
    <3>1. \A t \in T : Below({})[t] = 0  BY SumOfNothing
    <3> QED  BY <3>1
  <2>2. Summable(Below({}), T)  BY <1>5
  <2>3. SumFunctionOnSet(Below({}), T) \in Int  BY <2>2, SummableParts
  <2> DEFINE f == Below({})
             n == SumFunctionOnSet(f, T)
  <2> HIDE DEF f
  <2>4. n = 0 * n  BY <2>1, <2>2, SumScale DEF f
  <2> HIDE DEF n
  <2>5. n = 0  BY <2>3, <2>4 DEF n, f
  <2> QED  BY <2>5, SumOfNothing DEF n, f
<1>7. ASSUME NEW s \in SUBSET S, NEW x \in s, s \ {x} \in good  PROVE s \in good
  <2> DEFINE f == rows[x]
             g == Below(s \ {x})
             h == Below(s)
  <2>1. \A t \in T : h[t] = f[t] + g[t]
    <3> TAKE t \in T
    <3>1. Summable(columns[t], s)  BY <1>4, SummableParts
    <3>2. SumFunctionOnSet(columns[t], s)
            = columns[t][x] + SumFunctionOnSet(columns[t], s \ {x})  BY <3>1, SumOut
    <3>3. columns[t][x] = f[t]  BY <1>1
    <3> QED  BY <3>2, <3>3
  <2>2. Summable(f, T) /\ Summable(g, T)  BY <1>2, <1>5
  <2> HIDE DEF f, g, h
  <2>3. SumFunctionOnSet(h, T) = SumFunctionOnSet(f, T) + SumFunctionOnSet(g, T)
    BY <2>1, <2>2, SumAdd
  <2>4. Summable(a, s)  BY <1>3, SummableParts
  <2>5. SumFunctionOnSet(a, s) = a[x] + SumFunctionOnSet(a, s \ {x})  BY <2>4, SumOut
  <2>6. a[x] = SumFunctionOnSet(f, T)  BY DEF f
  <2>7. SumFunctionOnSet(a, s \ {x}) = SumFunctionOnSet(g, T)  BY <1>7 DEF g
  <2>8. SumFunctionOnSet(a, s) = SumFunctionOnSet(h, T)  BY <2>3, <2>5, <2>6, <2>7
  <2> QED  BY <2>8 DEF h
<1> HIDE DEF good
<1>8. S \in good  BY <1>1, <1>6, <1>7, SetInduction
<1>9. SumFunctionOnSet(a, S) = SumFunctionOnSet(Below(S), T)  BY <1>8 DEF good
<1>10. \A t \in T : Below(S)[t] = b[t]  OBVIOUS
<1>11. SumFunctionOnSet(Below(S), T) = SumFunctionOnSet(b, T)  BY <1>1, <1>10, SumCongruence
<1> QED  BY <1>9, <1>11

\* A factor that is not zero may be cancelled.
LEMMA Cancel ==
  ASSUME NEW k \in Nat \ {0}, NEW a \in Int, NEW b \in Int, k * a = k * b
  PROVE  a = b
OBVIOUS

\* A weight of a sum is the sum of the weights of what is summed.
LEMMA TimesOfSum ==
  ASSUME NEW w \in Nat, NEW n \in 0..MaxDepth + 1, NEW f, NEW g, NEW S, IsFiniteSet(S),
         \A x \in S : Multiple(f[x], Power[n + 1]), \A x \in S : g[x] = Times(w, f[x])
  PROVE  Summable(g, S) /\ Times(w, SumFunctionOnSet(f, S)) = SumFunctionOnSet(g, S)
<1> DEFINE u == Power[n + 1]
           v == SumFunctionOnSet(f, S)
           m == SumFunctionOnSet(g, S)
<1>1. u \in Nat \ {0}
  <2>1. n + 1 \in 0..MaxDepth + 2  BY ConstantsAssumption
  <2> QED  BY <2>1, PowerIsPositive
<1>2. Summable(f, S) /\ v \in Nat /\ Multiple(v, u)
  <2> HIDE DEF u
  <2>1. \A x \in S : Multiple(f[x], u)  BY DEF u
  <2> QED  BY <1>1, <2>1, SumOfWholes
<1>3. Times(w, v) \in Nat /\ Scale * Times(w, v) = w * v
  <2> HIDE DEF v
  <2> QED  BY <1>2, TimesIsWhole DEF u
<1>4. \A x \in S : f[x] \in Nat /\ g[x] \in Nat /\ Scale * g[x] = w * f[x]
  <2> TAKE x \in S
  <2> QED  BY TimesIsWhole
<1>5. Summable(g, S) /\ m \in Int
  <2>1. Summable(g, S)  BY <1>4 DEF Summable
  <2> QED  BY <2>1, SummableParts
<1> DEFINE h == [x \in S |-> w * f[x]]
           d == SumFunctionOnSet(h, S)
<1>6. \A x \in S : h[x] = w * f[x] /\ h[x] = Scale * g[x]  BY <1>4
<1>7. Summable(h, S)
  <2> HIDE DEF h
  <2>1. \A x \in S : h[x] \in Int
    <3> TAKE x \in S
    <3>1. w \in Int /\ f[x] \in Int /\ h[x] = w * f[x]  BY <1>4, <1>6
    <3> QED  BY <3>1, Distribute
  <2> QED  BY <2>1 DEF Summable
<1> HIDE DEF h
<1>8. Scale \in Nat \ {0} /\ Scale \in Int /\ w \in Int  BY ConstantsAssumption
<1>9. d = w * v /\ d = Scale * m
  BY <1>2, <1>5, <1>6, <1>7, <1>8, SumScale
<1> HIDE DEF v, m, d
<1>10. Times(w, v) = m  BY <1>3, <1>5, <1>8, <1>9, Cancel
<1> QED  BY <1>5, <1>10 DEF v, m

\* Weights are taken in any order.
LEMMA TimesTwice ==
  ASSUME NEW a \in Nat, NEW b \in Nat, NEW n \in 0..MaxDepth, NEW v, Multiple(v, Power[n + 2])
  PROVE  /\ v \in Nat /\ Times(a, Times(b, v)) \in Nat
         /\ Scale * (Scale * Times(a, Times(b, v))) = a * (b * v)
<1>1. PICK m : m = n + 1  OBVIOUS
<1>2. m \in 0..MaxDepth + 1 /\ n \in 0..MaxDepth + 1 /\ m + 1 = n + 2
  BY <1>1, ConstantsAssumption
<1>3. Multiple(v, Power[m + 1])  BY <1>2
<1> DEFINE y == Times(b, v)
<1>4. v \in Nat /\ y \in Nat /\ Multiple(y, Power[m]) /\ Scale * y = b * v
  BY <1>2, <1>3, TimesIsWhole
<1> HIDE DEF y
<1>5. Multiple(y, Power[n + 1])  BY <1>1, <1>4
<1> DEFINE x == Times(a, y)
<1>6. x \in Nat /\ Scale * x = a * y  BY <1>2, <1>5, TimesIsWhole
<1> HIDE DEF x
<1>7. Scale * (a * y) = a * (Scale * y)  BY <1>4, ConstantsAssumption
<1> QED  BY <1>4, <1>6, <1>7 DEF x, y

\* Weights of weights do not depend on the order in which they are taken.
LEMMA TimesCommute ==
  ASSUME NEW a \in Nat, NEW b \in Nat, NEW n \in 0..MaxDepth, NEW v, Multiple(v, Power[n + 2])
  PROVE  Times(a, Times(b, v)) = Times(b, Times(a, v))
<1> DEFINE x == Times(a, Times(b, v))
           y == Times(b, Times(a, v))
<1>1. v \in Nat /\ x \in Nat /\ Scale * (Scale * x) = a * (b * v)  BY TimesTwice
<1>2. y \in Nat /\ Scale * (Scale * y) = b * (a * v)  BY TimesTwice
<1> HIDE DEF x, y
<1>3. a * (b * v) = b * (a * v)  BY <1>1
<1>4. Scale \in Nat \ {0} /\ Scale * x \in Int /\ Scale * y \in Int
  BY <1>1, <1>2, ConstantsAssumption
<1>5. Scale * x = Scale * y  BY <1>1, <1>2, <1>3, <1>4, Cancel
<1>6. x = y  BY <1>1, <1>2, <1>4, <1>5, Cancel
<1> QED  BY <1>6 DEF x, y

\* A weight of 100 percent is the percentage.
LEMMA TimesHundred ==
  ASSUME NEW w \in Nat
  PROVE  Times(w, Hundred) = Percent(w)
<1> DEFINE u == Power[MaxDepth + 1]
           m == Percent(w)
<1>1. MaxDepth + 1 \in 0..MaxDepth + 1 /\ (MaxDepth + 1) + 1 \in 0..MaxDepth + 2
  BY ConstantsAssumption
<1>2. Times(w, Hundred) \in Nat /\ Scale * Times(w, Hundred) = w * Hundred
  <2>1. Multiple(Hundred, Power[(MaxDepth + 1) + 1])  BY <1>1, HundredIsWhole
  <2> QED  BY <1>1, <2>1, TimesIsWhole
<1>3. Hundred = Scale * u /\ m = w * u /\ m \in Nat /\ u \in Nat
  <2>1. MaxDepth + 1 \in 0..MaxDepth + 2  BY ConstantsAssumption
  <2> QED  BY <2>1, PercentIs, PowerIsPositive
<1> HIDE DEF u, m
<1>4. Scale \in Nat \ {0}  BY ConstantsAssumption
<1>5. w * Hundred = Scale * m  BY <1>3, <1>4
<1>6. Times(w, Hundred) = m  BY <1>2, <1>3, <1>4, <1>5, Cancel
<1> QED  BY <1>6 DEF m

-----------------------------------------------------------------------------
(* The weight of a way.                                                     *)

\* The weights of the reports on a way, as WayWeight computes them, from the end.
IsWeight(q, w) ==
    w = [i \in 1..Len(q) |->
            IF i = Len(q) THEN Hundred ELSE Times(nodes[q[i]].holdings[q[i + 1]], w[i + 1])]

WeightOf(q) == CHOOSE w : IsWeight(q, w)

\* There are such weights, one for each report on the way.
LEMMA WeightsExist ==
  ASSUME NEW q, NEW L \in Nat \ {0}, L = Len(q)
  PROVE  \E w : IsWeight(q, w)
<1> DEFINE H(i) == nodes[q[i]].holdings[q[i + 1]]
           From(w, n) == w = [i \in L - n .. L |-> IF i = L THEN Hundred ELSE Times(H(i), w[i + 1])]
           good == {n \in Nat : \E w : From(w, n)}
<1> HIDE DEF H
<1>1. 0 \in good
  <2>1. From([i \in L - 0 .. L |-> Hundred], 0)  OBVIOUS
  <2> QED  BY <2>1
<1>2. ASSUME NEW n \in 0..(L - 1)-1, n \in good  PROVE n + 1 \in good
  <2>1. PICK w : From(w, n)  BY <1>2
  <2> DEFINE first == L - (n + 1)
             v == [i \in first .. L |-> IF i = L THEN Hundred ELSE Times(H(i), w[i + 1])]
  <2>2. n \in Nat /\ n + 1 \in Nat /\ first \in Nat /\ first + 1 = L - n  OBVIOUS
  <2>3. \A i \in first .. L : i # L => i + 1 \in L - n .. L  BY <2>2
  <2>4. \A i \in L - n .. L : v[i] = w[i]
    <3>1. \A i \in L - n .. L : i \in first .. L  BY <2>2
    <3>2. \A i \in L - n .. L : w[i] = IF i = L THEN Hundred ELSE Times(H(i), w[i + 1])
      BY <2>1
    <3> QED  BY <3>1, <3>2
  <2>5. v = [i \in first .. L |-> IF i = L THEN Hundred ELSE Times(H(i), w[i + 1])]  OBVIOUS
  <2> HIDE DEF v
  <2>6. \A i \in first .. L : i # L => v[i + 1] = w[i + 1]  BY <2>3, <2>4
  <2>7. v = [i \in first .. L |-> IF i = L THEN Hundred ELSE Times(H(i), v[i + 1])]
    BY <2>5, <2>6
  <2>8. From(v, n + 1)  BY <2>7
  <2> QED  BY <2>2, <2>8
<1>3. L - 1 \in Nat /\ L - (L - 1) = 1 /\ L - 1 \in 0 .. L - 1  OBVIOUS
<1>4. L - 1 \in good
  <2> HIDE DEF good
  <2> QED  BY <1>1, <1>2, <1>3, Climb
<1>5. PICK w : From(w, L - 1)  BY <1>4
<1>6. w = [i \in 1..L |-> IF i = L THEN Hundred ELSE Times(H(i), w[i + 1])]  BY <1>3, <1>5
<1> QED  BY <1>6 DEF IsWeight, H

\* So each is the weight of the holding it is taken through, times the one after it.
LEMMA WeightIs ==
  ASSUME NEW q \in Paths
  PROVE  /\ WayWeight(q) = WeightOf(q)[1]
         /\ WeightOf(q)[Len(q)] = Hundred
         /\ \A i \in 1..Depth(q) :
               WeightOf(q)[i] = Times(nodes[q[i]].holdings[q[i + 1]], WeightOf(q)[i + 1])
<1>1. Len(q) \in Nat \ {0}  BY PathsAre DEF IsPath
<1>2. IsWeight(q, WeightOf(q))  BY <1>1, WeightsExist DEF WeightOf
<1>3. WayWeight(q) = WeightOf(q)[1]  BY DEF WayWeight, WeightOf, IsWeight
<1>4. \A i \in 1..Len(q) :
         WeightOf(q)[i] = IF i = Len(q) THEN Hundred
                          ELSE Times(nodes[q[i]].holdings[q[i + 1]], WeightOf(q)[i + 1])
  BY <1>2 DEF IsWeight
<1>5. \A i \in 1..Depth(q) : i \in 1..Len(q) /\ i # Len(q)  BY <1>1 DEF Depth
<1> QED  BY <1>1, <1>3, <1>4, <1>5

\* The weight at a place is in whole parts of the level after it.
LEMMA WeightIsWhole ==
  ASSUME TypeOK, NEW q, Live(q)
  PROVE  \A i \in 1..Len(q) : Multiple(WeightOf(q)[i], Power[i + 1])
<1> DEFINE L == Len(q)
           W(i) == WeightOf(q)[i]
           good == {n \in Nat : Multiple(W(L - n), Power[L - n + 1])}
<1>0. q \in Paths /\ L \in 1..MaxDepth + 1 /\ MaxDepth \in Nat  BY LiveIs, ConstantsAssumption
<1>1. 0 \in good
  <2>1. L - 0 = L /\ L + 1 \in 0..MaxDepth + 2  BY <1>0
  <2>2. W(L) = Hundred  BY <1>0, WeightIs
  <2>3. Multiple(Hundred, Power[L + 1])  BY <2>1, HundredIsWhole
  <2> QED  BY <2>1, <2>2, <2>3
<1>2. ASSUME NEW n \in 0..(L - 1)-1, n \in good  PROVE n + 1 \in good
  <2>1. PICK i : i = L - (n + 1)  OBVIOUS
  <2>2. /\ i \in 1..Depth(q) /\ i \in 1..L /\ i + 1 \in 1..L /\ i + 1 = L - n
        /\ i + 1 \in 0..MaxDepth + 1 /\ n + 1 \in Nat
    BY <1>0, <2>1 DEF Depth
  <2> DEFINE w == nodes[q[i]].holdings[q[i + 1]]
             v == W(i + 1)
  <2>3. w \in Nat
    <3>1. q[i] \in Parsed /\ q[i + 1] \in Targets  BY <2>2 DEF Live, Targets, Parsed
    <3> QED  BY <3>1, ParsedAre
  <2>4. Multiple(v, Power[(i + 1) + 1])
    <3>1. Multiple(W(L - n), Power[L - n + 1])  BY <1>2
    <3> QED  BY <2>2, <3>1
  <2>5. W(i) = Times(w, v)  BY <1>0, <2>2, WeightIs
  <2> HIDE DEF w, v, W
  <2>6. Multiple(Times(w, v), Power[i + 1])  BY <2>2, <2>3, <2>4, TimesIsWhole
  <2>7. Multiple(W(L - (n + 1)), Power[L - (n + 1) + 1])  BY <2>1, <2>5, <2>6
  <2> QED  BY <2>2, <2>7
<1> HIDE DEF good, W
<1>3. L - 1 \in Nat  BY <1>0
<1>4. \A n \in 0..L - 1 : n \in good  BY <1>1, <1>2, <1>3, Climb
<1>5. ASSUME NEW i \in 1..L  PROVE Multiple(W(i), Power[i + 1])
  <2>1. L - i \in 0..L - 1 /\ L - (L - i) = i  BY <1>0
  <2>2. L - i \in good  BY <1>4, <2>1
  <2> QED  BY <2>1, <2>2 DEF good
<1> QED  BY <1>5 DEF W

-----------------------------------------------------------------------------
(* The ways from a path, counted once.                                      *)

\* The ways from a path lead on from it, over parsed reports.
LEMMA WaysAreLive ==
  ASSUME TypeOK, NEW p, SimpleLive(p), NEW q \in WaysFrom(p)
  PROVE  Live(q) /\ Len(p) \in 1..Len(q)
<1>1. /\ q \in SimplePaths /\ Len(p) <= Len(q) /\ \A i \in 1..Len(p) : q[i] = p[i]
      /\ \A i \in Len(p)..Depth(q) : q[i + 1] \in Parsed
  BY DEF WaysFrom
<1>2. q \in Paths /\ Len(q) \in Nat /\ Len(p) \in Nat /\ 1 <= Len(p)
  BY <1>1, PathsAre DEF SimplePaths, IsPath, SimpleLive, Live
<1>3. ASSUME NEW i \in 1..Len(q)  PROVE q[i] \in Parsed
  <2>1. CASE i <= Len(p)
    <3>1. i \in 1..Len(p)  BY <1>2, <2>1
    <3> QED  BY <1>1, <3>1 DEF SimpleLive, Live
  <2>2. CASE ~(i <= Len(p))
    <3>1. i - 1 \in Len(p)..Depth(q) /\ (i - 1) + 1 = i  BY <1>2, <2>2 DEF Depth
    <3> QED  BY <1>1, <3>1
  <2> QED  BY <2>1, <2>2
<1> QED  BY <1>1, <1>2, <1>3 DEF Live

\* No way from a path is counted twice: it stops, or goes on to exactly one holding.
LEMMA WaysPart ==
  ASSUME TypeOK, NEW p, SimpleLive(p)
  PROVE  /\ \A t \in Onward(p) : p \notin WaysFrom(Append(p, t))
         /\ \A t, u \in Onward(p) : t # u => WaysFrom(Append(p, t)) \cap WaysFrom(Append(p, u)) = {}
<1>0. Len(p) \in Nat  BY PathsAre DEF IsPath, SimpleLive, Live
<1>1. \A t \in Onward(p) : Len(Append(p, t)) = Len(p) + 1 /\ Append(p, t)[Len(p) + 1] = t
  BY OnwardIs
<1>2. ASSUME NEW t \in Onward(p), NEW q \in WaysFrom(Append(p, t))
      PROVE  q # p /\ q[Len(p) + 1] = t
  <2>1. Len(p) + 1 <= Len(q) /\ \A i \in 1..Len(p) + 1 : q[i] = Append(p, t)[i]
    BY <1>1 DEF WaysFrom
  <2>2. Len(p) + 1 \in 1..Len(p) + 1  BY <1>0
  <2> QED  BY <1>0, <1>1, <2>1, <2>2
<1> QED  BY <1>2

\* So there are finitely many.
LEMMA FinitelyManyWays ==
  ASSUME TypeOK
  PROVE  \A p \in Paths : SimpleLive(p) => IsFiniteSet(WaysFrom(p))
<1> DEFINE good == {p \in Paths : SimpleLive(p) => IsFiniteSet(WaysFrom(p))}
<1>1. ASSUME NEW p \in Paths, \A t \in Followed(p) : Append(p, t) \in good  PROVE p \in good
  <2> SUFFICES ASSUME SimpleLive(p)  PROVE IsFiniteSet(WaysFrom(p))  OBVIOUS
  <2> DEFINE F == [t \in Onward(p) |-> WaysFrom(Append(p, t))]
             S == {F[t] : t \in Onward(p)}
  <2>1. IsFiniteSet(Onward(p))
    <3>1. IsFiniteSet(Followed(p)) /\ Onward(p) \subseteq Followed(p)
      BY LiveIs DEF SimpleLive, Onward
    <3> QED  BY <3>1, FS_Subset
  <2>2. \A t \in Onward(p) : F[t] = WaysFrom(Append(p, t)) /\ IsFiniteSet(F[t])
    <3> TAKE t \in Onward(p)
    <3>1. SimpleLive(Append(p, t)) /\ Append(p, t) \in good  BY <1>1, OnwardIs
    <3> QED  BY <3>1
  <2>3. IsFiniteSet(S)
    <3> HIDE DEF F
    <3> QED  BY <2>1, FiniteImage
  <2>4. \A T \in S : IsFiniteSet(T)  BY <2>2
  <2>5. IsFiniteSet({p})  BY FS_Singleton
  <2>6. WaysFrom(p) \subseteq {p} \cup UNION S
    <3>1. \A q \in WaysFrom(p) : q = p \/ \E t \in Onward(p) : q \in F[t]  BY <2>2, WaysAre
    <3> QED  BY <3>1
  <2> HIDE DEF S
  <2>7. IsFiniteSet(UNION S)  BY <2>3, <2>4, FS_UNION
  <2> QED  BY <2>5, <2>6, <2>7, FS_Union, FS_Subset
<1> HIDE DEF good
<1>2. \A p \in Paths : p \in good  BY <1>1, PathInduction
<1> QED  BY <1>2 DEF good

\* A value of the visits, and what each way adds to it at each of its places: a way that
\* goes on adds the weight of the holding it goes by times what it adds one place later.
AddsUp(V, R) ==
    \A p \in Paths : SimpleLive(p) =>
        /\ \A t \in Onward(p) : \A q \in WaysFrom(Append(p, t)) :
              R[q][Len(p)] = Times(HoldingWeight(p, t), R[q][Len(p) + 1])
        /\ \A q \in WaysFrom(p) : Multiple(R[q][Len(p)], Power[Len(p)])
        /\ V[p] = R[p][Len(p)]
                    + SumFunction([t \in Onward(p) |-> Times(HoldingWeight(p, t), V[Append(p, t)])])

\* Such a value is the sum over the ways of what each adds.
LEMMA WaysAddUp ==
  ASSUME TypeOK, NEW V, NEW R, AddsUp(V, R)
  PROVE  \A p \in Paths : SimpleLive(p) =>
            V[p] = SumFunction([q \in WaysFrom(p) |-> R[q][Len(p)]])
<1> DEFINE good == {p \in Paths : SimpleLive(p) =>
                        V[p] = SumFunction([q \in WaysFrom(p) |-> R[q][Len(p)]])}
<1>1. ASSUME NEW p \in Paths, \A t \in Followed(p) : Append(p, t) \in good  PROVE p \in good
  <2> SUFFICES ASSUME SimpleLive(p)
               PROVE  V[p] = SumFunction([q \in WaysFrom(p) |-> R[q][Len(p)]])
    OBVIOUS
  <2> DEFINE f == [q \in WaysFrom(p) |-> R[q][Len(p)]]
             g == [t \in Onward(p) |-> Times(HoldingWeight(p, t), V[Append(p, t)])]
             part == [t \in Onward(p) |-> WaysFrom(Append(p, t))]
             others == WaysFrom(p) \ {p}
  <2>1. /\ \A t \in Onward(p) : \A q \in WaysFrom(Append(p, t)) :
              R[q][Len(p)] = Times(HoldingWeight(p, t), R[q][Len(p) + 1])
        /\ \A q \in WaysFrom(p) : Multiple(R[q][Len(p)], Power[Len(p)])
        /\ V[p] = R[p][Len(p)] + SumFunction(g)
    BY DEF AddsUp
  <2>2. Len(p) \in 1..MaxDepth + 1 /\ Len(p) \in 0..MaxDepth + 1 /\ Power[Len(p)] \in Nat \ {0}
    <3>1. Len(p) \in 1..MaxDepth + 1  BY LiveIs DEF SimpleLive
    <3>2. Len(p) \in 0..MaxDepth + 2  BY <3>1, ConstantsAssumption
    <3> QED  BY <3>1, <3>2, PowerIsPositive
  <2>3. /\ p \in WaysFrom(p)
        /\ \A t \in Onward(p) : part[t] \subseteq WaysFrom(p) /\ p \notin part[t]
        /\ \A t, u \in Onward(p) : t # u => part[t] \cap part[u] = {}
        /\ \A q \in others : \E t \in Onward(p) : q \in part[t]
    BY WaysAre, WaysPart
  <2>4. Summable(f, WaysFrom(p))
    <3>1. IsFiniteSet(WaysFrom(p))  BY FinitelyManyWays
    <3>2. \A q \in WaysFrom(p) : Multiple(f[q], Power[Len(p)])  BY <2>1
    <3> HIDE DEF f
    <3> QED  BY <2>2, <3>1, <3>2, SumOfWholes
  <2>5. ASSUME NEW t \in Onward(p)
        PROVE  part[t] \subseteq others /\ g[t] = SumFunctionOnSet(f, part[t]) /\ g[t] \in Int
    <3> DEFINE a == Append(p, t)
               w == HoldingWeight(p, t)
               F == [q \in WaysFrom(a) |-> R[q][Len(p) + 1]]
    <3>1. /\ SimpleLive(a) /\ a \in Paths /\ Len(a) = Len(p) + 1 /\ a \in good
          /\ t \in Followed(p) /\ t \in Held(Last(p))
      BY <1>1, OnwardIs, FollowedAre
    <3>2. V[a] = SumFunction(F)
      <4>1. V[a] = SumFunction([q \in WaysFrom(a) |-> R[q][Len(a)]])  BY <3>1
      <4> HIDE DEF a
      <4> QED  BY <3>1, <4>1
    <3>3. SumFunction(F) = SumFunctionOnSet(F, WaysFrom(a))  BY DEF SumFunction
    <3>4. \A q \in WaysFrom(a) : Multiple(F[q], Power[Len(p) + 1])
      <4>1. \A q \in WaysFrom(a) : Multiple(R[q][Len(a)], Power[Len(a)])
        <5> HIDE DEF a
        <5> QED  BY <3>1 DEF AddsUp
      <4> HIDE DEF a
      <4> QED  BY <3>1, <4>1
    <3>5. \A q \in WaysFrom(a) : f[q] = Times(w, F[q])
      <4> TAKE q \in WaysFrom(a)
      <4>1. q \in WaysFrom(p)  BY <2>3
      <4> QED  BY <2>1, <4>1
    <3>6. w \in Nat /\ IsFiniteSet(WaysFrom(a))
      <4>1. w \in Nat  BY <3>1, LiveIs DEF SimpleLive
      <4>2. IsFiniteSet(WaysFrom(a))  BY <3>1, FinitelyManyWays
      <4> QED  BY <4>1, <4>2
    <3>7. Times(w, SumFunctionOnSet(F, WaysFrom(a))) = SumFunctionOnSet(f, WaysFrom(a))
      <4> DEFINE S == WaysFrom(a)
                 n == Len(p)
      <4>0. n \in 0..MaxDepth + 1  BY <2>2
      <4>1. \A q \in S : Multiple(F[q], Power[n + 1])  BY <3>4
      <4>2. \A q \in S : f[q] = Times(w, F[q])  BY <3>5
      <4>3. IsFiniteSet(S) /\ w \in Nat  BY <3>6
      <4> HIDE DEF S, F, f, w, n
      <4>4. Times(w, SumFunctionOnSet(F, S)) = SumFunctionOnSet(f, S)
        BY <4>0, <4>1, <4>2, <4>3, TimesOfSum
      <4> QED  BY <4>4 DEF S
    <3>8. g[t] = SumFunctionOnSet(f, part[t])
      <4>1. g[t] = Times(w, V[a])  OBVIOUS
      <4> HIDE DEF g, f, F
      <4> QED  BY <3>2, <3>3, <3>7, <4>1
    <3>9. SumFunctionOnSet(f, part[t]) \in Int
      <4>1. part[t] \subseteq WaysFrom(p)  BY <2>3
      <4> HIDE DEF part, f
      <4> QED  BY <2>4, <4>1, SummableParts
    <3>10. part[t] \subseteq others  BY <2>3
    <3> QED  BY <3>8, <3>9, <3>10
  <2>6. IsFiniteSet(Onward(p))
    <3>1. IsFiniteSet(Followed(p)) /\ Onward(p) \subseteq Followed(p)
      BY LiveIs DEF SimpleLive, Onward
    <3> QED  BY <3>1, FS_Subset
  <2>7. Summable(g, Onward(p))  BY <2>5, <2>6 DEF Summable
  <2>8. Summable(f, others)
    <3>1. others \subseteq WaysFrom(p)  OBVIOUS
    <3> HIDE DEF f, others
    <3> QED  BY <2>4, <3>1, SummableParts
  <2>9. f[p] = R[p][Len(p)]  BY <2>3
  <2>10. SumFunction(f) = SumFunctionOnSet(f, WaysFrom(p))
         /\ SumFunction(g) = SumFunctionOnSet(g, Onward(p))
    BY DEF SumFunction
  <2>11. \A t \in Onward(p) : part[t] \subseteq others /\ g[t] = SumFunctionOnSet(f, part[t])
    BY <2>5
  <2> HIDE DEF f, g, part
  <2>12. SumFunctionOnSet(f, WaysFrom(p)) = f[p] + SumFunctionOnSet(f, others)
    BY <2>3, <2>4, SumOut
  <2> HIDE DEF others
  <2>13. SumFunctionOnSet(f, others) = SumFunctionOnSet(g, Onward(p))
    BY <2>3, <2>7, <2>8, <2>11, SumOfParts
  <2>14. V[p] = SumFunction(f)  BY <2>1, <2>9, <2>10, <2>12, <2>13
  <2> QED  BY <2>14 DEF f
<1> HIDE DEF good
<1>2. \A p \in Paths : p \in good  BY <1>1, PathInduction
<1> QED  BY <1>2 DEF good

\* What a way weighs at a place, and one place later.
LEMMA WayWeighs ==
  ASSUME TypeOK, NEW p, SimpleLive(p)
  PROVE  /\ \A q \in WaysFrom(p) : Live(q) /\ Multiple(WeightOf(q)[Len(p)], Power[Len(p) + 1])
         /\ WeightOf(p)[Len(p)] = Hundred
         /\ \A t \in Onward(p) :
               /\ HoldingWeight(p, t) \in Nat /\ Len(p) \in 1..MaxDepth
               /\ \A q \in WaysFrom(Append(p, t)) :
                     /\ q \in WaysFrom(p)
                     /\ WeightOf(q)[Len(p)] = Times(HoldingWeight(p, t), WeightOf(q)[Len(p) + 1])
                     /\ Multiple(WeightOf(q)[Len(p) + 1], Power[Len(p) + 2])
<1>0. p \in Paths /\ Len(p) \in 1..MaxDepth + 1 /\ MaxDepth \in Nat
  BY LiveIs, ConstantsAssumption DEF SimpleLive
<1>1. \A q \in WaysFrom(p) : Live(q) /\ Multiple(WeightOf(q)[Len(p)], Power[Len(p) + 1])
  <2> TAKE q \in WaysFrom(p)
  <2>1. Live(q) /\ Len(p) \in 1..Len(q)  BY WaysAreLive
  <2> QED  BY <2>1, WeightIsWhole
<1>2. WeightOf(p)[Len(p)] = Hundred  BY <1>0, WeightIs
<1>3. ASSUME NEW t \in Onward(p)
      PROVE  HoldingWeight(p, t) \in Nat /\ Len(p) \in 1..MaxDepth
  <2>1. t \in Followed(p) /\ Len(p) <= MaxDepth  BY OnwardIs
  <2>2. t \in Held(Last(p))  BY <2>1 DEF Followed
  <2>3. HoldingWeight(p, t) \in Nat  BY <2>2, LiveIs DEF SimpleLive
  <2> QED  BY <1>0, <2>1, <2>3
<1>4. ASSUME NEW t \in Onward(p), NEW q \in WaysFrom(Append(p, t))
      PROVE  /\ q \in WaysFrom(p)
             /\ WeightOf(q)[Len(p)] = Times(HoldingWeight(p, t), WeightOf(q)[Len(p) + 1])
             /\ Multiple(WeightOf(q)[Len(p) + 1], Power[Len(p) + 2])
  <2> DEFINE a == Append(p, t)
  <2>1. /\ SimpleLive(a) /\ Len(a) = Len(p) + 1 /\ \A i \in 1..Len(p) : a[i] = p[i]
        /\ a[Len(p) + 1] = t
    BY OnwardIs
  <2>2. q \in WaysFrom(p)  BY WaysAre
  <2> HIDE DEF a
  <2>3. Live(q) /\ Len(a) \in 1..Len(q)
    <3>1. q \in WaysFrom(a)  BY DEF a
    <3> QED  BY <2>1, <3>1, WaysAreLive
  <2>4. q[Len(p)] = Last(p) /\ q[Len(p) + 1] = t
    <3>1. \A i \in 1..Len(a) : q[i] = a[i]  BY DEF WaysFrom, a
    <3>2. Len(p) \in 1..Len(a) /\ Len(p) + 1 \in 1..Len(a) /\ Len(p) \in 1..Len(p)  BY <1>0, <2>1
    <3> QED  BY <2>1, <3>1, <3>2 DEF Last
  <2>5. Len(p) \in 1..Depth(q) /\ q \in Paths /\ Len(q) \in Nat
    <3>1. q \in Paths /\ Len(q) \in 1..MaxDepth + 1  BY <2>3, LiveIs
    <3> QED  BY <1>0, <2>1, <2>3, <3>1 DEF Depth
  <2>6. WeightOf(q)[Len(p)] = Times(HoldingWeight(p, t), WeightOf(q)[Len(p) + 1])
    BY <2>4, <2>5, WeightIs DEF HoldingWeight
  <2>7. Multiple(WeightOf(q)[Len(p) + 1], Power[(Len(p) + 1) + 1])
    <3>1. Len(p) + 1 \in 1..Len(q)  BY <1>0, <2>1, <2>3
    <3> QED  BY <2>3, <3>1, WeightIsWhole
  <2>8. (Len(p) + 1) + 1 = Len(p) + 2  BY <1>0
  <2> QED  BY <2>2, <2>6, <2>7, <2>8
<1> QED  BY <1>1, <1>2, <1>3, <1>4

-----------------------------------------------------------------------------
(* Exposure over ways.                                                      *)

\* What a holding that is on the path is worth, and what one is that is not.
LEMMA OnPathIsNothing ==
  ASSUME TypeOK, NEW p, SimpleLive(p), NEW t \in Followed(p), t \notin Onward(p)
  PROVE  /\ HoldingWeight(p, t) \in Nat
         /\ \A l \in Labels : ExposureParts(p, l)[t] = 0
         /\ Nested(p)[t] = Percent(HoldingWeight(p, t))
<1>1. t \in Held(Last(p)) /\ OnPath(p, t)  BY DEF Followed, Onward
<1>2. HoldingWeight(p, t) \in Nat  BY <1>1, LiveIs DEF SimpleLive
<1>3. Child(p, t) = Circular(Depth(p) + 1)  BY <1>1, ChildIs
<1>4. Child(p, t).unresolved = Hundred /\ \A l \in Labels : Child(p, t).exposure[l] = 0
  BY <1>3, CircularIs
<1>5. Times(HoldingWeight(p, t), 0) = 0  BY <1>2, ConstantsAssumption DEF Times
<1>6. \A l \in Labels : ExposureParts(p, l)[t] = 0  BY <1>4, <1>5 DEF ExposureParts
<1>7. Nested(p)[t] = Percent(HoldingWeight(p, t))  BY <1>2, <1>4, TimesHundred DEF Nested
<1> QED  BY <1>2, <1>6, <1>7

\* What the holdings that are not on the path add is what their own visits found.
LEMMA OnwardParts ==
  ASSUME TypeOK, NEW p, SimpleLive(p)
  PROVE  /\ IsFiniteSet(Followed(p)) /\ IsFiniteSet(Ended(p)) /\ Onward(p) \subseteq Followed(p)
         /\ \A l \in Labels : Summable(ExposureParts(p, l), Followed(p))
         /\ Summable(Nested(p), Followed(p))
         /\ \A t \in Onward(p) :
               /\ Nested(p)[t] = Times(HoldingWeight(p, t), Visits[Append(p, t)].unresolved)
               /\ \A l \in Labels : ExposureParts(p, l)[t]
                     = Times(HoldingWeight(p, t), Visits[Append(p, t)].exposure[l])
<1>1. Live(p) /\ p \in Paths  BY DEF SimpleLive, Live
<1>2. IsFiniteSet(Followed(p)) /\ IsFiniteSet(Ended(p))  BY <1>1, LiveIs
<1>3. \A t \in Followed(p) : IsWhole(Child(p, t), Len(p) + 1)  BY <1>1, VisitsAreWhole
<1>4. /\ \A l \in Labels : \A t \in Followed(p) : ExposureParts(p, l)[t] \in Nat
      /\ \A t \in Followed(p) : Nested(p)[t] \in Nat
  BY <1>1, <1>3, PartsAreWhole
<1>5. Onward(p) \subseteq Followed(p)  BY DEF Onward
<1>6. \A t \in Onward(p) : t \in Followed(p) /\ Child(p, t) = Visits[Append(p, t)]  BY OnwardIs
<1>7. /\ \A l \in Labels : Summable(ExposureParts(p, l), Followed(p))
      /\ Summable(Nested(p), Followed(p))
  BY <1>2, <1>4 DEF Summable
<1>8. ASSUME NEW t \in Onward(p)
      PROVE  /\ Nested(p)[t] = Times(HoldingWeight(p, t), Visits[Append(p, t)].unresolved)
             /\ \A l \in Labels : ExposureParts(p, l)[t]
                   = Times(HoldingWeight(p, t), Visits[Append(p, t)].exposure[l])
  BY <1>6 DEF Nested, ExposureParts
<1> QED  BY <1>2, <1>5, <1>7, <1>8

\* What a way adds to the exposure at each of its places.
ExposureAt(l) ==
    [q \in Paths |-> [i \in 1..MaxDepth + 1 |-> Times(nodes[Last(q)].direct[l], WeightOf(q)[i])]]

\* A visit adds its direct exposure to what its holdings were found to expose.
LEMMA ExposureAddsUp ==
  ASSUME TypeOK, NEW l \in Labels
  PROVE  AddsUp([p \in Paths |-> Visits[p].exposure[l]], ExposureAt(l))
<1> DEFINE V == [p \in Paths |-> Visits[p].exposure[l]]
           R == ExposureAt(l)
<1> SUFFICES ASSUME NEW p \in Paths, SimpleLive(p)
             PROVE  /\ \A t \in Onward(p) : \A q \in WaysFrom(Append(p, t)) :
                          R[q][Len(p)] = Times(HoldingWeight(p, t), R[q][Len(p) + 1])
                    /\ \A q \in WaysFrom(p) : Multiple(R[q][Len(p)], Power[Len(p)])
                    /\ V[p] = R[p][Len(p)]
                         + SumFunction([t \in Onward(p) |->
                                           Times(HoldingWeight(p, t), V[Append(p, t)])])
  BY DEF AddsUp
<1>0. Len(p) \in 1..MaxDepth + 1 /\ Live(p)  BY LiveIs DEF SimpleLive
<1>1. \A q : Live(q) => nodes[Last(q)].direct[l] \in Nat /\ q \in Paths
  <2> SUFFICES ASSUME NEW q, Live(q)  PROVE nodes[Last(q)].direct[l] \in Nat /\ q \in Paths
    OBVIOUS
  <2>1. Last(q) \in Parsed /\ q \in Paths  BY LiveIs
  <2> QED  BY <2>1, ParsedAre
<1>2. \A q \in Paths : \A i \in 1..MaxDepth + 1 :
         R[q][i] = Times(nodes[Last(q)].direct[l], WeightOf(q)[i])
  BY DEF ExposureAt
<1> HIDE DEF R
<1>3. ASSUME NEW t \in Onward(p), NEW q \in WaysFrom(Append(p, t))
      PROVE  R[q][Len(p)] = Times(HoldingWeight(p, t), R[q][Len(p) + 1])
  <2> DEFINE d == nodes[Last(q)].direct[l]
             w == HoldingWeight(p, t)
             v == WeightOf(q)[Len(p) + 1]
             n == Len(p)
  <2>1. /\ w \in Nat /\ n \in 1..MaxDepth /\ q \in WaysFrom(p)
        /\ WeightOf(q)[n] = Times(w, v) /\ Multiple(v, Power[n + 2])
    BY WayWeighs
  <2>2. d \in Nat /\ q \in Paths
    <3>1. Live(q)  BY <2>1, WayWeighs
    <3> QED  BY <1>1, <3>1
  <2>3. n \in 0..MaxDepth /\ n \in 1..MaxDepth + 1 /\ n + 1 \in 1..MaxDepth + 1
    BY <2>1, ConstantsAssumption
  <2>4. R[q][n] = Times(d, Times(w, v)) /\ R[q][n + 1] = Times(d, v)
    BY <1>2, <2>1, <2>2, <2>3
  <2> HIDE DEF d, w, v, n
  <2>5. Times(d, Times(w, v)) = Times(w, Times(d, v))  BY <2>1, <2>2, <2>3, TimesCommute
  <2> QED  BY <2>4, <2>5 DEF n, w
<1>4. ASSUME NEW q \in WaysFrom(p)  PROVE Multiple(R[q][Len(p)], Power[Len(p)])
  <2> DEFINE d == nodes[Last(q)].direct[l]
             v == WeightOf(q)[Len(p)]
             n == Len(p)
  <2>1. Live(q) /\ Multiple(v, Power[n + 1])  BY WayWeighs
  <2>2. d \in Nat /\ q \in Paths  BY <1>1, <2>1
  <2>3. n \in 0..MaxDepth + 1 /\ n \in 1..MaxDepth + 1  BY <1>0
  <2>4. R[q][n] = Times(d, v)  BY <1>2, <2>2, <2>3
  <2> HIDE DEF d, v, n
  <2>5. Multiple(Times(d, v), Power[n])  BY <2>1, <2>2, <2>3, TimesIsWhole
  <2> QED  BY <2>4, <2>5 DEF n
<1>5. V[p] = R[p][Len(p)]
         + SumFunction([t \in Onward(p) |-> Times(HoldingWeight(p, t), V[Append(p, t)])])
  <2> DEFINE d == nodes[Last(p)].direct[l]
             f == ExposureParts(p, l)
             g == [t \in Onward(p) |-> Times(HoldingWeight(p, t), V[Append(p, t)])]
  <2>1. R[p][Len(p)] = Percent(d)
    <3>1. d \in Nat  BY <1>0, <1>1
    <3>2. R[p][Len(p)] = Times(d, Hundred)  BY <1>0, <1>2, WayWeighs
    <3> QED  BY <3>1, <3>2, TimesHundred
  <2>2. V[p] = Percent(d) + SumFunction(f)  BY VisitedExposure
  <2>3. SumFunction(f) = SumFunctionOnSet(f, Followed(p))  BY DEF SumFunction, ExposureParts
  <2>4. SumFunction(g) = SumFunctionOnSet(g, Onward(p))  BY DEF SumFunction
  <2>5. \A t \in Onward(p) : f[t] = g[t]
    <3> TAKE t \in Onward(p)
    <3>1. Append(p, t) \in Paths  BY OnwardIs
    <3>2. V[Append(p, t)] = Visits[Append(p, t)].exposure[l]  BY <3>1
    <3> HIDE DEF f, V
    <3> QED  BY <3>2, OnwardParts DEF f
  <2>6. \A t \in Followed(p) \ Onward(p) : f[t] = 0  BY OnPathIsNothing
  <2>7. Summable(f, Followed(p)) /\ Onward(p) \subseteq Followed(p) /\ IsFiniteSet(Followed(p))
    BY OnwardParts
  <2> HIDE DEF f, g, V
  <2>8. SumFunctionOnSet(f, Followed(p)) = SumFunctionOnSet(f, Onward(p))
    BY <2>6, <2>7, SumWithout
  <2>9. IsFiniteSet(Onward(p))  BY <2>7, FS_Subset
  <2>10. SumFunctionOnSet(f, Onward(p)) = SumFunctionOnSet(g, Onward(p))
    BY <2>5, <2>9, SumCongruence
  <2>11. V[p] = R[p][Len(p)] + SumFunction(g)  BY <2>1, <2>2, <2>3, <2>4, <2>8, <2>10
  <2> QED  BY <2>11 DEF g
<1> QED  BY <1>3, <1>4, <1>5

\* The exposure that is found is the sum over the ways.
LEMMA ExposureIsOfWays ==
  ASSUME TypeOK, NEW r \in Parsed, NEW l \in Labels
  PROVE  WeightedLookthrough(r).exposure[l] = PathExposure(Ways(r), l)
<1> DEFINE p == <<r>>
           V == [q \in Paths |-> Visits[q].exposure[l]]
           R == ExposureAt(l)
<1>1. /\ p \in Paths /\ SimpleLive(p) /\ Len(p) = 1 /\ WaysFrom(p) = Ways(r)
      /\ WeightedLookthrough(r) = Visits[p]
  BY RootIs
<1>2. AddsUp(V, R)  BY ExposureAddsUp
<1>3. V[p] = Visits[p].exposure[l]  BY <1>1
<1>4. ASSUME NEW q \in Ways(r)
      PROVE  R[q][1] = Times(nodes[Last(q)].direct[l], WayWeight(q))
  <2>1. q \in Paths  BY DEF Ways, SimplePaths
  <2>2. 1 \in 1..MaxDepth + 1  BY ConstantsAssumption
  <2> QED  BY <2>1, <2>2, WeightIs DEF ExposureAt
<1> HIDE DEF p, V, R
<1>5. V[p] = SumFunction([q \in WaysFrom(p) |-> R[q][Len(p)]])  BY <1>1, <1>2, WaysAddUp
<1>6. V[p] = SumFunction([q \in Ways(r) |-> R[q][1]])  BY <1>1, <1>5
<1>7. [q \in Ways(r) |-> R[q][1]]
        = [q \in Ways(r) |-> Times(nodes[Last(q)].direct[l], WayWeight(q))]
  BY <1>4
<1> QED  BY <1>1, <1>3, <1>6, <1>7 DEF PathExposure

-----------------------------------------------------------------------------
(* Unresolved weight and coverage.                                          *)

\* No report states more than 100 percent.
NothingTwice == \A q \in Parsed : Total(nodes[q]) <= Scale

\* The direct weights of the report a path ends with, and the holdings that are followed or not.
Direct(p) == SumFunction(nodes[Last(p)].direct)
FollowedWeight(p) == SumFunctionOnSet(nodes[Last(p)].holdings, Followed(p))
EndedWeight(p) == SumFunctionOnSet(nodes[Last(p)].holdings, Ended(p))

\* A report states its direct weights, the holdings that are followed, and those that are not.
LEMMA WeightsAddUp ==
  ASSUME TypeOK, NEW p, Live(p)
  PROVE  /\ Direct(p) \in Nat /\ FollowedWeight(p) \in Nat /\ EndedWeight(p) \in Nat
         /\ Direct(p) + (FollowedWeight(p) + EndedWeight(p)) = Total(nodes[Last(p)])
<1> DEFINE r == Last(p)
           h == nodes[r].holdings
           d == nodes[r].direct
           all == SumFunctionOnSet(h, Held(r))
<1>1. /\ r \in Parsed /\ d \in [Labels -> Nat] /\ h \in [Targets -> Nat]
      /\ Held(r) \subseteq Targets /\ IsFiniteSet(Held(r))
  BY LiveIs, ParsedAre
<1>2. IsFiniteSet(Targets) /\ IsFiniteSet(Labels)
  <2>1. IsFiniteSet({NoTarget})  BY FS_Singleton
  <2> QED  BY <2>1, ConstantsAssumption, FS_Union DEF Targets
<1>3. /\ Held(r) = {t \in Targets : h[t] > 0} /\ Followed(p) \subseteq Held(r)
      /\ Ended(p) = Held(r) \ Followed(p)
  BY DEF Held, Followed, Ended
<1>4. /\ Direct(p) = SumFunctionOnSet(d, Labels)
      /\ Total(nodes[r]) = Direct(p) + SumFunctionOnSet(h, Targets)
  BY <1>1 DEF Direct, Total, SumFunction
<1>5. FollowedWeight(p) = SumFunctionOnSet(h, Followed(p))
      /\ EndedWeight(p) = SumFunctionOnSet(h, Ended(p))
  BY DEF FollowedWeight, EndedWeight
<1> HIDE DEF h, d, r
<1>6. SumFunctionOnSet(d, Labels) \in Nat
  <2>1. \A l \in Labels : d[l] \in Nat  BY <1>1
  <2> QED  BY <1>2, <2>1, SumOfNaturals
<1>7. \A t \in Targets : h[t] \in Nat  BY <1>1
<1>8. Summable(h, Targets)  BY <1>2, <1>7, SumOfNaturals
<1>9. SumFunctionOnSet(h, Targets) = all
  <2>1. \A t \in Targets \ Held(r) : h[t] = 0  BY <1>3, <1>7
  <2> QED  BY <1>1, <1>8, <2>1, SumWithout
<1>10. all = SumFunctionOnSet(h, Followed(p)) + SumFunctionOnSet(h, Ended(p))
  <2>1. Summable(h, Held(r))  BY <1>1, <1>8, SummableParts
  <2> QED  BY <1>3, <2>1, SumSplit
<1>11. SumFunctionOnSet(h, Followed(p)) \in Nat /\ SumFunctionOnSet(h, Ended(p)) \in Nat
  <2>1. IsFiniteSet(Followed(p)) /\ IsFiniteSet(Ended(p))  BY LiveIs
  <2>2. Followed(p) \subseteq Targets /\ Ended(p) \subseteq Targets  BY <1>1, <1>3
  <2>3. \A t \in Followed(p) : h[t] \in Nat  BY <1>7, <2>2
  <2>4. \A t \in Ended(p) : h[t] \in Nat  BY <1>7, <2>2
  <2> QED  BY <2>1, <2>3, <2>4, SumOfNaturals
<1> QED  BY <1>4, <1>5, <1>6, <1>9, <1>10, <1>11 DEF r

\* A part that is covered is what is not unresolved of a holding.
LEMMA CoveredPartIs ==
  ASSUME TypeOK, NEW p, Live(p), NEW t \in Followed(p)
  PROVE  /\ HoldingWeight(p, t) \in Nat /\ Nested(p)[t] \in Nat
         /\ CoveredParts(p)[t] \in Nat
         /\ CoveredParts(p)[t] + Nested(p)[t] = Percent(HoldingWeight(p, t))
<1> DEFINE w == HoldingWeight(p, t)
           v == Child(p, t).unresolved
           n == Nested(p)[t]
           c == Percent(w)
<1>1. p \in Paths /\ \A u \in Followed(p) : IsWhole(Child(p, u), Len(p) + 1)
  BY VisitsAreWhole DEF Live
<1>2. w \in Nat
  <2>1. t \in Held(Last(p))  BY DEF Followed
  <2> QED  BY <2>1, LiveIs
<1>3. v \in Nat /\ v <= Hundred  BY <1>1 DEF IsWhole
<1>4. n \in Nat /\ Scale * n = w * v  BY <1>1, PartsAreWhole
<1>5. c \in Nat /\ Scale * c = w * Hundred /\ Hundred \in Nat
  <2> DEFINE u == Power[MaxDepth + 1]
  <2>1. c = w * u /\ Hundred = Scale * u /\ c \in Nat /\ Hundred \in Nat  BY <1>2, PercentIs
  <2>2. u \in Nat
    <3>1. MaxDepth + 1 \in 0..MaxDepth + 2  BY ConstantsAssumption
    <3> QED  BY <3>1, PowerIsPositive
  <2> HIDE DEF u, c, w
  <2>3. Scale * (w * u) = w * (Scale * u)  BY <1>2, <2>2, ConstantsAssumption
  <2> QED  BY <2>1, <2>3
<1>6. CoveredParts(p)[t] = Max({0, c - n})  BY DEF CoveredParts
<1> HIDE DEF w, v, n, c
<1>7. n <= c
  <2>1. w * v <= w * Hundred  BY <1>2, <1>3, <1>5
  <2>2. Scale * n <= Scale * c  BY <1>4, <1>5, <2>1
  <2> QED  BY <1>4, <1>5, <2>2, ConstantsAssumption
<1>8. Max({0, c - n}) = c - n
  <2>1. c - n \in Nat  BY <1>4, <1>5, <1>7
  <2> HIDE DEF Max
  <2>2. \A x \in Nat : Max({0, x}) = x
    <3> TAKE x \in Nat
    <3>1. \E y \in {0, x} : \A z \in {0, x} : y >= z  OBVIOUS
    <3>2. Max({0, x}) \in {0, x} /\ \A z \in {0, x} : Max({0, x}) >= z  BY <3>1 DEF Max
    <3> QED  BY <3>2
  <2> QED  BY <2>1, <2>2
<1> QED  BY <1>2, <1>4, <1>5, <1>6, <1>7, <1>8 DEF w, n, c

\* Where no report states more than 100 percent nothing is capped: what is unresolved and what
\* is covered add up to what the last report states.
LEMMA NothingIsCapped ==
  ASSUME TypeOK, NEW p, Live(p), NothingTwice
  PROVE  /\ Visits[p].unresolved = SumFunction(EndedWeights(p)) + SumFunction(Nested(p))
         /\ Visits[p].coverage = Percent(Direct(p)) + SumFunction(CoveredParts(p))
         /\ Visits[p].coverage + Visits[p].unresolved = Percent(Total(nodes[Last(p)]))
         /\ Visits[p].coverage \in Nat /\ Percent(Total(nodes[Last(p)])) <= Hundred
<1> DEFINE P == Power[MaxDepth + 1]
           h == nodes[Last(p)].holdings
           D == Direct(p)
           F == FollowedWeight(p)
           E == EndedWeight(p)
           N == SumFunction(Nested(p))
           C == SumFunction(CoveredParts(p))
           U == SumFunction(EndedWeights(p))
           T == Total(nodes[Last(p)])
<1>1. /\ p \in Paths /\ Last(p) \in Parsed /\ IsFiniteSet(Followed(p)) /\ IsFiniteSet(Ended(p))
      /\ \A t \in Followed(p) : IsWhole(Child(p, t), Len(p) + 1)
  BY LiveIs, VisitsAreWhole
<1>2. D \in Nat /\ F \in Nat /\ E \in Nat /\ D + (F + E) = T  BY WeightsAddUp
<1>3. P \in Nat /\ Scale \in Nat /\ Hundred = Scale * P /\ Hundred \in Nat
      /\ \A w \in Nat : Percent(w) = P * w
  <2>1. MaxDepth + 1 \in 0..MaxDepth + 2  BY ConstantsAssumption
  <2>2. P \in Nat /\ Hundred = Scale * P /\ \A w \in Nat : Percent(w) = w * P
    BY <2>1, PercentIs, PowerIsPositive
  <2> HIDE DEF P
  <2>3. \A w \in Nat : w * P = P * w  BY <2>2
  <2> QED  BY <2>2, <2>3, PercentIs, ConstantsAssumption
<1>4. T <= Scale /\ T \in Nat  BY <1>1, <1>2 DEF NothingTwice
<1>5. \A t \in Followed(p) : h[t] \in Nat /\ h[t] = HoldingWeight(p, t)
  BY CoveredPartIs DEF HoldingWeight
<1>6. \A t \in Ended(p) : h[t] \in Nat /\ h[t] = HoldingWeight(p, t)
  <2> TAKE t \in Ended(p)
  <2>1. t \in Held(Last(p))  BY DEF Ended
  <2>2. HoldingWeight(p, t) \in Nat  BY <2>1, LiveIs
  <2> QED  BY <2>2 DEF HoldingWeight
<1>7. U = P * E
  <2> DEFINE e == EndedWeights(p)
  <2>1. \A t \in Ended(p) : e[t] = Percent(h[t])  BY <1>6 DEF EndedWeights
  <2>2. U = SumFunctionOnSet(e, Ended(p))  BY DEF SumFunction, EndedWeights
  <2>3. E = SumFunctionOnSet(h, Ended(p))  BY DEF EndedWeight
  <2> HIDE DEF e, h, U, E, P
  <2>4. \A t \in Ended(p) : e[t] = P * h[t] /\ e[t] \in Int /\ h[t] \in Int
    BY <1>3, <1>6, <2>1
  <2>5. Summable(e, Ended(p)) /\ Summable(h, Ended(p))  BY <1>1, <2>4 DEF Summable
  <2>6. SumFunctionOnSet(e, Ended(p)) = P * SumFunctionOnSet(h, Ended(p))
    BY <1>3, <2>4, <2>5, SumScale
  <2> QED  BY <2>2, <2>3, <2>6
<1>8. C + N = P * F /\ C \in Nat /\ N \in Nat
  <2> DEFINE c == CoveredParts(p)
             n == Nested(p)
             k == [t \in Followed(p) |-> Percent(h[t])]
  <2>1. \A t \in Followed(p) : /\ k[t] = c[t] + n[t] /\ c[t] \in Nat /\ n[t] \in Nat
                               /\ k[t] = Percent(h[t])
    BY <1>5, CoveredPartIs
  <2>2. /\ C = SumFunctionOnSet(c, Followed(p)) /\ N = SumFunctionOnSet(n, Followed(p))
        /\ F = SumFunctionOnSet(h, Followed(p))
    BY DEF SumFunction, CoveredParts, Nested, FollowedWeight
  <2> HIDE DEF c, n, k, h, C, N, F, P
  <2>3. \A t \in Followed(p) : k[t] = P * h[t] /\ k[t] \in Int /\ h[t] \in Int
    BY <1>3, <1>5, <2>1
  <2>4. Summable(k, Followed(p)) /\ Summable(h, Followed(p))  BY <1>1, <2>3 DEF Summable
  <2>5. SumFunctionOnSet(k, Followed(p)) = P * F  BY <1>3, <2>2, <2>3, <2>4, SumScale
  <2>6. /\ Summable(c, Followed(p)) /\ Summable(n, Followed(p)) /\ C \in Nat /\ N \in Nat
    <3>1. \A t \in Followed(p) : c[t] \in Nat  BY <2>1
    <3>2. \A t \in Followed(p) : n[t] \in Nat  BY <2>1
    <3>3. Summable(c, Followed(p)) /\ C \in Nat  BY <1>1, <2>2, <3>1, SumOfNaturals
    <3>4. Summable(n, Followed(p)) /\ N \in Nat  BY <1>1, <2>2, <3>2, SumOfNaturals
    <3> QED  BY <3>3, <3>4
  <2>7. SumFunctionOnSet(k, Followed(p)) = C + N
    <3> DEFINE S == Followed(p)
    <3>1. \A t \in S : k[t] = c[t] + n[t]  BY <2>1
    <3>2. Summable(c, S) /\ Summable(n, S)  BY <2>6
    <3> HIDE DEF S
    <3>3. SumFunctionOnSet(k, S) = SumFunctionOnSet(c, S) + SumFunctionOnSet(n, S)
      BY <3>1, <3>2, SumAdd
    <3> QED  BY <2>2, <3>3 DEF S
  <2> QED  BY <2>5, <2>6, <2>7
<1>9. Percent(D) = P * D /\ Percent(T) = P * T  BY <1>2, <1>3, <1>4
<1>10. /\ Visits[p].unresolved = Capped(U + N)
       /\ Visits[p].coverage = Capped(Capped(Percent(D)) + C)
  BY <1>1, VisitedUnresolved, VisitedCoverage DEF Direct
<1> HIDE DEF P, D, F, E, N, C, U, T
<1>11. P * T <= Hundred
  <2>1. P * T <= P * Scale  BY <1>3, <1>4
  <2>2. P * Scale = Scale * P  BY <1>3
  <2> QED  BY <1>3, <2>1, <2>2
<1>12. P * D + (P * F + P * E) = P * T
       /\ P * D \in Nat /\ P * E \in Nat /\ P * F \in Nat /\ P * T \in Nat
  <2>1. P * (D + (F + E)) = P * D + P * (F + E)  BY <1>2, <1>3, Distribute
  <2>2. P * (F + E) = P * F + P * E  BY <1>2, <1>3, Distribute
  <2>3. P * D \in Nat /\ P * E \in Nat /\ P * F \in Nat /\ P * T \in Nat  BY <1>2, <1>3, <1>4
  <2> QED  BY <1>2, <2>1, <2>2, <2>3
<1> DEFINE PD == P * D
           PF == P * F
           PE == P * E
           PT == P * T
<1>13. /\ PD + (PF + PE) = PT /\ PD \in Nat /\ PE \in Nat /\ PF \in Nat /\ PT \in Nat
       /\ PT <= Hundred /\ U = PE /\ C + N = PF /\ Percent(D) = PD /\ Percent(T) = PT
  BY <1>7, <1>8, <1>9, <1>11, <1>12
<1> HIDE DEF PD, PF, PE, PT
<1>14. U + N <= Hundred /\ PD <= Hundred /\ PD + C <= Hundred  BY <1>3, <1>8, <1>13
<1>15. Visits[p].unresolved = U + N  BY <1>3, <1>8, <1>10, <1>13, <1>14 DEF Capped
<1>16. Visits[p].coverage = PD + C  BY <1>3, <1>8, <1>10, <1>13, <1>14 DEF Capped
<1>17. (PD + C) + (U + N) = PT /\ PD + C \in Nat  BY <1>8, <1>13
<1> QED  BY <1>13, <1>15, <1>16, <1>17 DEF D, U, N, C, T

\* The dead ends of a path are the holdings that are not followed and those that are on it.
LEMMA DeadEndsAre ==
  ASSUME TypeOK, NEW q, Live(q)
  PROVE  /\ IsFiniteSet(DeadEnds(q)) /\ \A t \in DeadEnds(q) : HoldingWeight(q, t) \in Nat
         /\ DeadEnds(q) = Ended(q) \cup (Followed(q) \ Onward(q))
         /\ Ended(q) \cap Followed(q) = {}
<1>1. /\ q \in Paths /\ Last(q) \in Parsed /\ Len(q) \in 1..MaxDepth + 1
      /\ \A t \in Held(Last(q)) : HoldingWeight(q, t) \in Nat
  BY LiveIs
<1>2. IsFiniteSet(Held(Last(q)))  BY <1>1, ParsedAre
<1>3. DeadEnds(q) \subseteq Held(Last(q))  BY DEF DeadEnds
<1>4. IsFiniteSet(DeadEnds(q))  BY <1>2, <1>3, FS_Subset
<1>5. Depth(q) \in Int /\ MaxDepth \in Int /\ Depth(q) <= MaxDepth
  BY <1>1, ConstantsAssumption DEF Depth
<1>6. Depth(q) >= MaxDepth <=> Depth(q) = MaxDepth  BY <1>5
<1>7. DeadEnds(q) = Ended(q) \cup (Followed(q) \ Onward(q))
  BY <1>6 DEF DeadEnds, Ended, Followed, Onward, Unresolved, OnPath
<1>8. Ended(q) \cap Followed(q) = {}  BY DEF Ended
<1> QED  BY <1>1, <1>3, <1>4, <1>7, <1>8

\* What a way leaves unresolved at each of its places.
DeadEndsAt(q, i) == [t \in DeadEnds(q) |-> Times(HoldingWeight(q, t), WeightOf(q)[i])]
UnresolvedAt == [q \in Paths |-> [i \in 1..MaxDepth + 1 |-> SumFunction(DeadEndsAt(q, i))]]

\* What a way leaves unresolved is in whole parts of its level.
LEMMA UnresolvedIsWhole ==
  ASSUME TypeOK, NEW q, Live(q), NEW n \in 0..MaxDepth + 1, NEW i,
         Multiple(WeightOf(q)[i], Power[n + 1])
  PROVE  /\ Summable(DeadEndsAt(q, i), DeadEnds(q))
         /\ \A t \in DeadEnds(q) : Multiple(DeadEndsAt(q, i)[t], Power[n])
         /\ Multiple(SumFunction(DeadEndsAt(q, i)), Power[n])
<1> DEFINE f == DeadEndsAt(q, i)
           v == WeightOf(q)[i]
<1>1. IsFiniteSet(DeadEnds(q)) /\ \A t \in DeadEnds(q) : HoldingWeight(q, t) \in Nat
  BY DeadEndsAre
<1>2. \A t \in DeadEnds(q) : f[t] = Times(HoldingWeight(q, t), v)  BY DEF DeadEndsAt
<1>3. SumFunction(f) = SumFunctionOnSet(f, DeadEnds(q))  BY DEF SumFunction, DeadEndsAt
<1>4. Multiple(v, Power[n + 1])  OBVIOUS
<1>5. Power[n] \in Nat \ {0}
  <2>1. n \in 0..MaxDepth + 2  BY ConstantsAssumption
  <2> QED  BY <2>1, PowerIsPositive
<1> HIDE DEF f, v
<1>6. \A t \in DeadEnds(q) : Multiple(f[t], Power[n])
  <2> TAKE t \in DeadEnds(q)
  <2>1. HoldingWeight(q, t) \in Nat  BY <1>1
  <2>2. Multiple(Times(HoldingWeight(q, t), v), Power[n])  BY <1>4, <2>1, TimesIsWhole
  <2> QED  BY <1>2, <2>2
<1>7. Summable(f, DeadEnds(q)) /\ Multiple(SumFunctionOnSet(f, DeadEnds(q)), Power[n])
  BY <1>1, <1>5, <1>6, SumOfWholes
<1> QED  BY <1>3, <1>6, <1>7 DEF f

\* A visit adds its dead ends to what its holdings left unresolved.
LEMMA UnresolvedAddsUp ==
  ASSUME TypeOK, NothingTwice
  PROVE  AddsUp([p \in Paths |-> Visits[p].unresolved], UnresolvedAt)
<1> DEFINE V == [p \in Paths |-> Visits[p].unresolved]
           R == UnresolvedAt
<1> SUFFICES ASSUME NEW p \in Paths, SimpleLive(p)
             PROVE  /\ \A t \in Onward(p) : \A q \in WaysFrom(Append(p, t)) :
                          R[q][Len(p)] = Times(HoldingWeight(p, t), R[q][Len(p) + 1])
                    /\ \A q \in WaysFrom(p) : Multiple(R[q][Len(p)], Power[Len(p)])
                    /\ V[p] = R[p][Len(p)]
                         + SumFunction([t \in Onward(p) |->
                                           Times(HoldingWeight(p, t), V[Append(p, t)])])
  BY DEF AddsUp
<1>0. Len(p) \in 1..MaxDepth + 1 /\ Live(p)  BY LiveIs DEF SimpleLive
<1>1. \A q \in Paths : \A i \in 1..MaxDepth + 1 : R[q][i] = SumFunction(DeadEndsAt(q, i))
  BY DEF UnresolvedAt
<1> HIDE DEF R
<1>3. ASSUME NEW t \in Onward(p), NEW q \in WaysFrom(Append(p, t))
      PROVE  R[q][Len(p)] = Times(HoldingWeight(p, t), R[q][Len(p) + 1])
  <2> DEFINE w == HoldingWeight(p, t)
             v == WeightOf(q)[Len(p) + 1]
             n == Len(p)
             S == DeadEnds(q)
             f == DeadEndsAt(q, Len(p) + 1)
             g == DeadEndsAt(q, Len(p))
  <2>1. /\ w \in Nat /\ n \in 1..MaxDepth /\ q \in WaysFrom(p)
        /\ WeightOf(q)[n] = Times(w, v) /\ Multiple(v, Power[n + 2])
    BY WayWeighs
  <2>2. Live(q) /\ q \in Paths
    <3>1. Live(q)  BY <2>1, WayWeighs
    <3> QED  BY <3>1, LiveIs
  <2>3. n \in 0..MaxDepth /\ n \in 1..MaxDepth + 1 /\ n + 1 \in 1..MaxDepth + 1
        /\ n \in 0..MaxDepth + 1 /\ n + 1 \in 0..MaxDepth + 1 /\ (n + 1) + 1 = n + 2
    BY <2>1, ConstantsAssumption
  <2>4. IsFiniteSet(S) /\ \A u \in S : HoldingWeight(q, u) \in Nat  BY <2>2, DeadEndsAre
  <2>5. \A u \in S : /\ f[u] = Times(HoldingWeight(q, u), v)
                     /\ g[u] = Times(HoldingWeight(q, u), Times(w, v))
    BY <2>1 DEF DeadEndsAt
  <2>6. SumFunction(f) = SumFunctionOnSet(f, S) /\ SumFunction(g) = SumFunctionOnSet(g, S)
    BY DEF SumFunction, DeadEndsAt
  <2>7. \A u \in S : Multiple(f[u], Power[n + 1])
    <3>1. PICK m : m = n + 1  OBVIOUS
    <3>2. m \in 0..MaxDepth + 1 /\ Multiple(v, Power[m + 1])  BY <2>1, <2>3, <3>1
    <3>3. Multiple(WeightOf(q)[n + 1], Power[m + 1])  BY <3>2
    <3> HIDE DEF n
    <3>4. \A u \in DeadEnds(q) : Multiple(DeadEndsAt(q, n + 1)[u], Power[m])
      BY <2>2, <3>2, <3>3, UnresolvedIsWhole
    <3> QED  BY <3>1, <3>4 DEF n
  <2>8. R[q][n] = SumFunction(g) /\ R[q][n + 1] = SumFunction(f)  BY <1>1, <2>2, <2>3
  <2> HIDE DEF w, v, n, S, f, g
  <2>9. \A u \in S : g[u] = Times(w, f[u])
    <3> TAKE u \in S
    <3> DEFINE d == HoldingWeight(q, u)
    <3>1. d \in Nat /\ f[u] = Times(d, v) /\ g[u] = Times(d, Times(w, v))  BY <2>4, <2>5
    <3> HIDE DEF d
    <3>2. Times(d, Times(w, v)) = Times(w, Times(d, v))  BY <2>1, <2>3, <3>1, TimesCommute
    <3> QED  BY <3>1, <3>2
  <2>10. Times(w, SumFunctionOnSet(f, S)) = SumFunctionOnSet(g, S)
    <3>1. n \in 0..MaxDepth + 1  BY <2>3
    <3>2. w \in Nat  BY <2>1
    <3>3. IsFiniteSet(S)  BY <2>4
    <3>4. Summable(g, S) /\ Times(w, SumFunctionOnSet(f, S)) = SumFunctionOnSet(g, S)
      BY <2>7, <2>9, <3>1, <3>2, <3>3, TimesOfSum
    <3> QED  BY <3>4
  <2> QED  BY <2>6, <2>8, <2>10 DEF n, w
<1>4. ASSUME NEW q \in WaysFrom(p)  PROVE Multiple(R[q][Len(p)], Power[Len(p)])
  <2>1. Live(q) /\ Multiple(WeightOf(q)[Len(p)], Power[Len(p) + 1])  BY WayWeighs
  <2>2. q \in Paths  BY <2>1, LiveIs
  <2>3. Len(p) \in 0..MaxDepth + 1  BY <1>0
  <2>4. Multiple(SumFunction(DeadEndsAt(q, Len(p))), Power[Len(p)])
    BY <2>1, <2>3, UnresolvedIsWhole
  <2> QED  BY <1>0, <1>1, <2>2, <2>4
<1>5. V[p] = R[p][Len(p)]
         + SumFunction([t \in Onward(p) |-> Times(HoldingWeight(p, t), V[Append(p, t)])])
  <2> DEFINE S == DeadEnds(p)
             A == Ended(p)
             F == Followed(p)
             O == Onward(p)
             f == Nested(p)
             e == EndedWeights(p)
             h == DeadEndsAt(p, Len(p))
             g == [t \in Onward(p) |-> Times(HoldingWeight(p, t), V[Append(p, t)])]
  <2>1. V[p] = SumFunction(e) + SumFunction(f)  BY <1>0, NothingIsCapped
  <2>2. R[p][Len(p)] = SumFunction(h)  BY <1>0, <1>1
  <2>3. /\ SumFunction(e) = SumFunctionOnSet(e, A) /\ SumFunction(f) = SumFunctionOnSet(f, F)
        /\ SumFunction(h) = SumFunctionOnSet(h, S) /\ SumFunction(g) = SumFunctionOnSet(g, O)
    BY DEF SumFunction, EndedWeights, Nested, DeadEndsAt
  <2>4. S = A \cup (F \ O) /\ A \cap F = {} /\ \A t \in S : HoldingWeight(p, t) \in Nat
    BY <1>0, DeadEndsAre
  <2>5. O \subseteq F /\ IsFiniteSet(F) /\ IsFiniteSet(A) /\ Summable(f, F)  BY OnwardParts
  <2>6. \A t \in S : h[t] = Percent(HoldingWeight(p, t))
    <3> TAKE t \in S
    <3>1. HoldingWeight(p, t) \in Nat  BY <2>4
    <3>2. h[t] = Times(HoldingWeight(p, t), Hundred)  BY WayWeighs DEF DeadEndsAt
    <3> QED  BY <3>1, <3>2, TimesHundred
  <2>7. \A t \in F \ O : f[t] = Percent(HoldingWeight(p, t))  BY OnPathIsNothing
  <2>8. \A t \in A : e[t] = Percent(HoldingWeight(p, t))  BY DEF EndedWeights
  <2>9. \A t \in O : f[t] = g[t]
    <3> TAKE t \in O
    <3>1. Append(p, t) \in Paths  BY OnwardIs
    <3>2. V[Append(p, t)] = Visits[Append(p, t)].unresolved  BY <3>1
    <3> HIDE DEF f, V
    <3> QED  BY <3>2, OnwardParts DEF f
  <2>10. Summable(h, S)
    <3>1. Multiple(WeightOf(p)[Len(p)], Power[Len(p) + 1])
      <4>1. p \in WaysFrom(p)  BY WaysAre
      <4> QED  BY <4>1, WayWeighs
    <3>2. Len(p) \in 0..MaxDepth + 1  BY <1>0
    <3> QED  BY <1>0, <3>1, <3>2, UnresolvedIsWhole
  <2> HIDE DEF S, A, F, O, f, e, h, g, V
  <2>11. SumFunctionOnSet(h, S) = SumFunctionOnSet(h, A) + SumFunctionOnSet(h, F \ O)
    <3>1. A \subseteq S /\ S \ A = F \ O  BY <2>4
    <3>2. SumFunctionOnSet(h, S) = SumFunctionOnSet(h, A) + SumFunctionOnSet(h, S \ A)
      BY <2>10, <3>1, SumSplit
    <3> QED  BY <3>1, <3>2
  <2>12. SumFunctionOnSet(f, F) = SumFunctionOnSet(f, O) + SumFunctionOnSet(f, F \ O)
    BY <2>5, SumSplit
  <2>13. IsFiniteSet(O) /\ IsFiniteSet(F \ O)
    <3>1. F \ O \subseteq F  OBVIOUS
    <3> QED  BY <2>5, <3>1, FS_Subset
  <2>14. SumFunctionOnSet(h, A) = SumFunctionOnSet(e, A)
    <3>1. \A t \in A : h[t] = e[t]  BY <2>4, <2>6, <2>8
    <3> QED  BY <2>5, <3>1, SumCongruence
  <2>15. SumFunctionOnSet(h, F \ O) = SumFunctionOnSet(f, F \ O)
    <3> DEFINE B == F \ O
    <3>1. \A t \in B : h[t] = f[t]  BY <2>4, <2>6, <2>7
    <3>2. IsFiniteSet(B)  BY <2>13
    <3> HIDE DEF B
    <3>3. SumFunctionOnSet(h, B) = SumFunctionOnSet(f, B)  BY <3>1, <3>2, SumCongruence
    <3> QED  BY <3>3 DEF B
  <2>16. SumFunctionOnSet(f, O) = SumFunctionOnSet(g, O)  BY <2>9, <2>13, SumCongruence
  <2>17. /\ SumFunctionOnSet(h, A) \in Int /\ SumFunctionOnSet(h, F \ O) \in Int
         /\ SumFunctionOnSet(f, O) \in Int
    <3>1. A \subseteq S /\ F \ O \subseteq S  BY <2>4
    <3>2. SumFunctionOnSet(h, A) \in Int /\ SumFunctionOnSet(h, F \ O) \in Int
      BY <2>10, <3>1, SummableParts
    <3> QED  BY <2>5, <3>2, SummableParts
  <2>18. V[p] = SumFunctionOnSet(h, S) + SumFunctionOnSet(g, O)
    BY <2>1, <2>3, <2>11, <2>12, <2>14, <2>15, <2>16, <2>17
  <2>19. V[p] = R[p][Len(p)] + SumFunction(g)  BY <2>2, <2>3, <2>18
  <2> QED  BY <2>19 DEF g
<1> QED  BY <1>3, <1>4, <1>5

\* So where no report states more than 100 percent, is the weight that is unresolved.
LEMMA UnresolvedIsOfWays ==
  ASSUME TypeOK, NothingTwice, NEW r \in Parsed
  PROVE  WeightedLookthrough(r).unresolved = PathUnresolved(Ways(r))
<1> DEFINE p == <<r>>
           V == [q \in Paths |-> Visits[q].unresolved]
           R == UnresolvedAt
<1>1. /\ p \in Paths /\ SimpleLive(p) /\ Len(p) = 1 /\ WaysFrom(p) = Ways(r)
      /\ WeightedLookthrough(r) = Visits[p]
  BY RootIs
<1>2. AddsUp(V, R)  BY UnresolvedAddsUp
<1>3. V[p] = Visits[p].unresolved  BY <1>1
<1>4. ASSUME NEW q \in Ways(r)
      PROVE  R[q][1] = SumFunction([t \in DeadEnds(q) |->
                          Times(nodes[Last(q)].holdings[t], WayWeight(q))])
  <2>1. q \in Paths  BY DEF Ways, SimplePaths
  <2>2. 1 \in 1..MaxDepth + 1  BY ConstantsAssumption
  <2>3. R[q][1] = SumFunction(DeadEndsAt(q, 1))  BY <2>1, <2>2 DEF UnresolvedAt
  <2>4. WayWeight(q) = WeightOf(q)[1]  BY <2>1, WeightIs
  <2> QED  BY <2>3, <2>4 DEF DeadEndsAt, HoldingWeight
<1> HIDE DEF p, V, R
<1>5. V[p] = SumFunction([q \in WaysFrom(p) |-> R[q][Len(p)]])  BY <1>1, <1>2, WaysAddUp
<1>6. V[p] = SumFunction([q \in Ways(r) |-> R[q][1]])  BY <1>1, <1>5
<1>7. [q \in Ways(r) |-> R[q][1]]
        = [q \in Ways(r) |-> SumFunction([t \in DeadEnds(q) |->
                                Times(nodes[Last(q)].holdings[t], WayWeight(q))])]
  BY <1>4
<1> QED  BY <1>1, <1>3, <1>6, <1>7 DEF PathUnresolved

-----------------------------------------------------------------------------
(* Exposure and coverage.                                                   *)

\* All that is exposed, over the labels.
Exposed(result) == SumFunctionOnSet(result.exposure, Labels)

\* The rows of every report add up to 100 percent.
AllStated == \A q \in Parsed : Total(nodes[q]) = Scale

ExposedParts(p) == [t \in Followed(p) |-> Times(HoldingWeight(p, t), Exposed(Child(p, t)))]

\* What a visit exposes of all labels is its direct weights and a part of each holding.
LEMMA ExposedIs ==
  ASSUME TypeOK, NEW p, Live(p)
  PROVE  /\ SumFunction(Visits[p].exposure) = Exposed(Visits[p])
         /\ Exposed(Visits[p]) = Percent(Direct(p)) + SumFunctionOnSet(ExposedParts(p), Followed(p))
         /\ \A t \in Followed(p) :
               /\ Exposed(Child(p, t)) \in Nat /\ ExposedParts(p)[t] \in Nat
               /\ Scale * ExposedParts(p)[t] = HoldingWeight(p, t) * Exposed(Child(p, t))
         /\ Summable(ExposedParts(p), Followed(p))
<1>1. /\ p \in Paths /\ Last(p) \in Parsed /\ IsFiniteSet(Followed(p)) /\ Len(p) \in 0..MaxDepth + 1
      /\ \A t \in Followed(p) : IsWhole(Child(p, t), Len(p) + 1)
      /\ \A t \in Followed(p) : HoldingWeight(p, t) \in Nat
  <2>1. \A t \in Followed(p) : t \in Held(Last(p))  BY DEF Followed
  <2> QED  BY <2>1, LiveIs, VisitsAreWhole
<1>2. DOMAIN Visits[p].exposure = Labels
  <2>1. Visits[p] = Combine(p, Found(Visits, p))  BY <1>1, VisitIs
  <2> QED  BY <2>1 DEF Combine
<1>3. SumFunction(Visits[p].exposure) = Exposed(Visits[p])  BY <1>2 DEF SumFunction, Exposed
<1>4. IsFiniteSet(Labels)  BY ConstantsAssumption
<1> DEFINE u == Power[Len(p) + 1]
           F == Followed(p)
           rows == [l \in Labels |-> ExposureParts(p, l)]
           columns == [t \in Followed(p) |-> [l \in Labels |-> ExposureParts(p, l)[t]]]
           a == [l \in Labels |-> SumFunctionOnSet(ExposureParts(p, l), Followed(p))]
           b == ExposedParts(p)
           d == nodes[Last(p)].direct
           c == [l \in Labels |-> Percent(d[l])]
           e == Visits[p].exposure
<1>5. u \in Nat \ {0}
  <2>1. Len(p) + 1 \in 0..MaxDepth + 2  BY <1>1, ConstantsAssumption
  <2> QED  BY <2>1, PowerIsPositive
<1>6. ASSUME NEW t \in F
      PROVE  /\ Exposed(Child(p, t)) \in Nat /\ b[t] \in Nat
             /\ Scale * b[t] = HoldingWeight(p, t) * Exposed(Child(p, t))
             /\ b[t] = SumFunctionOnSet(columns[t], Labels)
  <2> DEFINE w == HoldingWeight(p, t)
             x == Child(p, t).exposure
             y == columns[t]
             n == Len(p)
             v == SumFunctionOnSet(x, Labels)
  <2>1. \A l \in Labels : Multiple(x[l], Power[n + 1])  BY <1>1 DEF IsWhole
  <2>2. \A l \in Labels : y[l] = Times(w, x[l])  BY DEF ExposureParts
  <2>3. n \in 0..MaxDepth + 1  BY <1>1
  <2>4. w \in Nat  BY <1>1
  <2>5. b[t] = Times(w, v) /\ Exposed(Child(p, t)) = v  BY DEF ExposedParts, Exposed
  <2> HIDE DEF w, x, y, n
  <2>6. Times(w, v) = SumFunctionOnSet(y, Labels)
    BY <1>4, <2>1, <2>2, <2>3, <2>4, TimesOfSum
  <2>7. Multiple(v, Power[n + 1])
    <3>1. u = Power[n + 1]  BY DEF n
    <3>2. \A l \in Labels : Multiple(x[l], u)  BY <2>1, <3>1
    <3> HIDE DEF u
    <3>3. Multiple(v, u)  BY <1>4, <1>5, <3>2, SumOfWholes
    <3> QED  BY <3>1, <3>3
  <2> HIDE DEF v
  <2>8. v \in Nat /\ Times(w, v) \in Nat /\ Scale * Times(w, v) = w * v
    BY <2>3, <2>4, <2>7, TimesIsWhole
  <2> HIDE DEF b
  <2>9. Scale * b[t] = w * Exposed(Child(p, t))  BY <2>5, <2>8
  <2> QED  BY <2>5, <2>6, <2>8, <2>9 DEF w, y
<1>7. \A l \in Labels : /\ e[l] = c[l] + a[l] /\ c[l] = Percent(d[l]) /\ d[l] \in Nat
                        /\ a[l] = SumFunctionOnSet(rows[l], F)
  <2> TAKE l \in Labels
  <2>1. Visits[p].exposure[l] = Percent(nodes[Last(p)].direct[l]) + SumFunction(ExposureParts(p, l))
    BY <1>1, VisitedExposure
  <2>2. SumFunction(ExposureParts(p, l)) = SumFunctionOnSet(ExposureParts(p, l), F)
    BY DEF SumFunction, ExposureParts
  <2>3. d[l] \in Nat  BY <1>1, ParsedAre
  <2> QED  BY <2>1, <2>2, <2>3
<1>8. IsTable(rows, columns, Labels, F)
  <2>1. \A l \in Labels : \A t \in F : ExposureParts(p, l)[t] \in Nat
    BY <1>1, PartsAreWhole
  <2> QED  BY <1>1, <1>4, <2>1 DEF IsTable
<1>9. Direct(p) = SumFunctionOnSet(d, Labels) /\ Direct(p) \in Nat
  <2>1. DOMAIN d = Labels  BY <1>1, ParsedAre
  <2> QED  BY <2>1, WeightsAddUp DEF Direct, SumFunction
<1>10. F = Followed(p) /\ IsFiniteSet(F) /\ Exposed(Visits[p]) = SumFunctionOnSet(e, Labels)
  BY <1>1 DEF Exposed
<1>11. \A t \in F : b[t] = SumFunctionOnSet(columns[t], Labels)  BY <1>6
<1>12. \A t \in F : b[t] \in Nat  BY <1>6
<1> HIDE DEF u, F, rows, columns, a, b, d, c, e
<1>13. Summable(b, F)  BY <1>10, <1>12, SumOfNaturals
<1>14. SumFunctionOnSet(a, Labels) = SumFunctionOnSet(b, F)
  <2>1. \A l \in Labels : a[l] = SumFunctionOnSet(rows[l], F)  BY <1>7
  <2> QED  BY <1>8, <1>11, <2>1, SumSwap
<1>15. Summable(c, Labels) /\ SumFunctionOnSet(c, Labels) = Percent(Direct(p))
  <2> DEFINE P == Power[MaxDepth + 1]
  <2>1. P \in Nat /\ \A w \in Nat : Percent(w) = w * P
    <3>1. MaxDepth + 1 \in 0..MaxDepth + 2  BY ConstantsAssumption
    <3> QED  BY <3>1, PowerIsPositive, PercentIs
  <2> HIDE DEF P
  <2>2. \A w \in Nat : Percent(w) = P * w /\ P * w \in Nat  BY <2>1
  <2>3. \A l \in Labels : c[l] = P * d[l]  BY <1>7, <2>2
  <2>4. Summable(c, Labels) /\ Summable(d, Labels)
    <3>1. \A l \in Labels : d[l] \in Nat  BY <1>7
    <3>2. \A l \in Labels : c[l] \in Nat  BY <2>2, <2>3, <3>1
    <3> QED  BY <1>4, <3>1, <3>2, SumOfNaturals
  <2>5. SumFunctionOnSet(c, Labels) = P * SumFunctionOnSet(d, Labels)
    <3>1. P \in Int  BY <2>1
    <3> QED  BY <2>3, <2>4, <3>1, SumScale
  <2> QED  BY <1>9, <2>2, <2>4, <2>5
<1>16. Summable(a, Labels)
  <2>1. \A l \in Labels : a[l] \in Int
    <3> TAKE l \in Labels
    <3>1. Summable(rows[l], F)  BY <1>8 DEF IsTable, Summable
    <3>2. SumFunctionOnSet(rows[l], F) \in Int  BY <3>1, SummableParts
    <3> QED  BY <1>7, <3>2
  <2> QED  BY <1>4, <2>1 DEF Summable
<1>17. SumFunctionOnSet(e, Labels) = SumFunctionOnSet(c, Labels) + SumFunctionOnSet(a, Labels)
  <2>1. \A l \in Labels : e[l] = c[l] + a[l]  BY <1>7
  <2>2. Summable(c, Labels)  BY <1>15
  <2> QED  BY <1>16, <2>1, <2>2, SumAdd
<1>18. Exposed(Visits[p]) = Percent(Direct(p)) + SumFunctionOnSet(b, F)
  BY <1>10, <1>14, <1>15, <1>17
<1> QED  BY <1>3, <1>6, <1>10, <1>13, <1>18 DEF b

\* What is exposed of a holding and what is unresolved of it are no more than the holding, and
\* all of it if the rows of every report add up to 100 percent.
LEMMA ExposedIsCovered ==
  ASSUME TypeOK, NothingTwice, NEW p, Live(p), NEW t \in Followed(p), NEW x, NEW n,
         x = Exposed(Child(p, t)), n = Child(p, t).unresolved, x + n <= Hundred
  PROVE  /\ ExposedParts(p)[t] <= CoveredParts(p)[t]
         /\ x + n = Hundred => ExposedParts(p)[t] = CoveredParts(p)[t]
<1> DEFINE w == HoldingWeight(p, t)
           e == ExposedParts(p)[t]
           c == CoveredParts(p)[t]
           v == Nested(p)[t]
           h == Percent(HoldingWeight(p, t))
<1>1. x \in Nat /\ e \in Nat /\ Scale * e = w * x  BY ExposedIs
<1>2. p \in Paths /\ \A u \in Followed(p) : IsWhole(Child(p, u), Len(p) + 1)
  BY VisitsAreWhole DEF Live
<1>3. n \in Nat  BY <1>2 DEF IsWhole
<1>4. v \in Nat /\ Scale * v = w * n  BY <1>2, PartsAreWhole
<1>5. w \in Nat /\ c \in Nat /\ c + v = h  BY CoveredPartIs
<1>6. Scale * h = w * Hundred /\ h \in Nat /\ Hundred \in Nat /\ Scale \in Nat \ {0}
  <2> DEFINE P == Power[MaxDepth + 1]
  <2>1. h = w * P /\ h \in Nat /\ Hundred = Scale * P /\ Hundred \in Nat  BY <1>5, PercentIs
  <2>2. P \in Nat
    <3>1. MaxDepth + 1 \in 0..MaxDepth + 2  BY ConstantsAssumption
    <3> QED  BY <3>1, PowerIsPositive
  <2> HIDE DEF P, w, h
  <2>3. Scale * (w * P) = w * (Scale * P)  BY <1>5, <2>2, ConstantsAssumption
  <2> QED  BY <2>1, <2>3, ConstantsAssumption
<1> HIDE DEF w, e, c, v, h
<1>7. Scale * (e + v) = w * (x + n)
  <2>1. Scale * (e + v) = Scale * e + Scale * v  BY <1>1, <1>4, <1>6, Distribute
  <2>2. w * (x + n) = w * x + w * n  BY <1>1, <1>3, <1>5, Distribute
  <2> QED  BY <1>1, <1>4, <2>1, <2>2
<1>8. e + v <= h
  <2>1. w * (x + n) <= w * Hundred  BY <1>1, <1>3, <1>5, <1>6
  <2>2. Scale * (e + v) <= Scale * h  BY <1>6, <1>7, <2>1
  <2> QED  BY <1>1, <1>4, <1>6, <2>2
<1>9. ASSUME x + n = Hundred  PROVE e + v = h
  <2>1. Scale * (e + v) = Scale * h  BY <1>6, <1>7, <1>9
  <2> QED  BY <1>1, <1>4, <1>6, <2>1, Cancel
<1> QED  BY <1>1, <1>4, <1>5, <1>8, <1>9 DEF e, c

\* No part is invented, and none is lost where all is stated.
LEMMA NothingInvented ==
  ASSUME TypeOK, NothingTwice
  PROVE  \A p \in Paths : Live(p) =>
            /\ Exposed(Visits[p]) <= Visits[p].coverage
            /\ AllStated => Exposed(Visits[p]) = Visits[p].coverage
<1> DEFINE good == {p \in Paths : Live(p) =>
                       /\ Exposed(Visits[p]) <= Visits[p].coverage
                       /\ AllStated => Exposed(Visits[p]) = Visits[p].coverage}
<1>1. ASSUME NEW p \in Paths, \A t \in Followed(p) : Append(p, t) \in good  PROVE p \in good
  <2> SUFFICES ASSUME Live(p)
               PROVE  /\ Exposed(Visits[p]) <= Visits[p].coverage
                      /\ AllStated => Exposed(Visits[p]) = Visits[p].coverage
    OBVIOUS
  <2>1. ASSUME NEW t \in Followed(p)
        PROVE  /\ Exposed(Child(p, t)) + Child(p, t).unresolved <= Hundred
               /\ AllStated => Exposed(Child(p, t)) + Child(p, t).unresolved = Hundred
    <3>0. Hundred \in Nat  BY PercentIs
    <3>1. CASE OnPath(p, t)
      <4>1. Child(p, t) = Circular(Depth(p) + 1)  BY <3>1, ChildIs
      <4>2. Child(p, t).unresolved = Hundred /\ \A l \in Labels : Child(p, t).exposure[l] = 0
        BY <4>1, CircularIs
      <4>3. Exposed(Child(p, t)) = 0
        <5> DEFINE x == Child(p, t).exposure
        <5>1. \A l \in Labels : x[l] = 0  BY <4>2
        <5>2. Exposed(Child(p, t)) = SumFunctionOnSet(x, Labels)  BY DEF Exposed
        <5> HIDE DEF x
        <5>3. IsFiniteSet(Labels) /\ {} \subseteq Labels  BY ConstantsAssumption
        <5>4. Summable(x, Labels)  BY <5>1, <5>3 DEF Summable
        <5>5. \A l \in Labels \ {} : x[l] = 0  BY <5>1
        <5>6. SumFunctionOnSet(x, Labels) = SumFunctionOnSet(x, {})
          BY <5>3, <5>4, <5>5, SumWithout
        <5> QED  BY <5>2, <5>6, SumOfNothing
      <4> QED  BY <3>0, <4>2, <4>3
    <3>2. CASE ~OnPath(p, t)
      <4> DEFINE a == Append(p, t)
      <4>1. Child(p, t) = Visits[a]  BY <3>2, ChildIs
      <4>2. Live(a) /\ a \in Paths /\ a \in good  BY <1>1, LiveIs DEF Live
      <4>3. /\ Exposed(Visits[a]) <= Visits[a].coverage
            /\ AllStated => Exposed(Visits[a]) = Visits[a].coverage
        BY <4>2
      <4> HIDE DEF a, good
      <4>4. /\ Visits[a].coverage + Visits[a].unresolved = Percent(Total(nodes[Last(a)]))
            /\ Visits[a].coverage \in Nat /\ Percent(Total(nodes[Last(a)])) <= Hundred
        BY <4>2, NothingIsCapped
      <4>5. Exposed(Visits[a]) \in Nat /\ Visits[a].unresolved \in Nat
        <5>1. Exposed(Child(p, t)) \in Nat  BY ExposedIs
        <5>2. IsWhole(Visits[a], Len(a))  BY <4>2, VisitsAreWhole
        <5> QED  BY <4>1, <5>1, <5>2 DEF IsWhole
      <4>6. ASSUME AllStated  PROVE Percent(Total(nodes[Last(a)])) = Hundred
        <5>1. Last(a) \in Parsed  BY <4>2, LiveIs
        <5>2. Total(nodes[Last(a)]) = Scale  BY <4>6, <5>1 DEF AllStated
        <5>3. Percent(Scale) = Scale * Power[MaxDepth + 1]  BY PercentIs, ConstantsAssumption
        <5> QED  BY <5>2, <5>3, PercentIs
      <4>7. Exposed(Visits[a]) + Visits[a].unresolved <= Hundred
        BY <3>0, <4>3, <4>4, <4>5
      <4>8. AllStated => Exposed(Visits[a]) + Visits[a].unresolved = Hundred
        BY <4>3, <4>4, <4>6
      <4> QED  BY <4>1, <4>7, <4>8
    <3> QED  BY <3>1, <3>2
  <2> DEFINE e == ExposedParts(p)
             c == CoveredParts(p)
             S == Followed(p)
  <2>2. \A t \in S : e[t] <= c[t]
    <3> TAKE t \in S
    <3>1. Exposed(Child(p, t)) + Child(p, t).unresolved <= Hundred  BY <2>1
    <3> QED  BY <3>1, ExposedIsCovered
  <2>3. AllStated => \A t \in S : e[t] = c[t]
    <3> SUFFICES ASSUME AllStated, NEW t \in S  PROVE e[t] = c[t]  OBVIOUS
    <3>1. /\ Exposed(Child(p, t)) + Child(p, t).unresolved <= Hundred
          /\ Exposed(Child(p, t)) + Child(p, t).unresolved = Hundred
      BY <2>1
    <3> QED  BY <3>1, ExposedIsCovered
  <2>4. /\ Exposed(Visits[p]) = Percent(Direct(p)) + SumFunctionOnSet(e, S)
        /\ Summable(e, S)
    BY ExposedIs
  <2>5. Visits[p].coverage = Percent(Direct(p)) + SumFunction(c) /\ Percent(Direct(p)) \in Nat
    BY NothingIsCapped, WeightsAddUp, PercentIs
  <2>6. SumFunction(c) = SumFunctionOnSet(c, S)  BY DEF SumFunction, CoveredParts
  <2>7. Summable(c, S)
    <3>1. \A t \in S : c[t] \in Int  BY CoveredPartIs
    <3>2. IsFiniteSet(S)  BY LiveIs
    <3> QED  BY <3>1, <3>2 DEF Summable
  <2> HIDE DEF e, c, S, good
  <2>8. SumFunctionOnSet(e, S) <= SumFunctionOnSet(c, S)  BY <2>2, <2>4, <2>7, SumGrows
  <2>9. AllStated => SumFunctionOnSet(e, S) = SumFunctionOnSet(c, S)
    <3> SUFFICES ASSUME AllStated  PROVE SumFunctionOnSet(e, S) = SumFunctionOnSet(c, S)
      OBVIOUS
    <3>1. IsFiniteSet(S)  BY <2>7 DEF Summable
    <3> QED  BY <2>3, <3>1, SumCongruence
  <2>10. SumFunctionOnSet(e, S) \in Int /\ SumFunctionOnSet(c, S) \in Int
    BY <2>4, <2>7, SummableParts
  <2> QED  BY <2>4, <2>5, <2>6, <2>8, <2>9, <2>10
<1> HIDE DEF good
<1>2. \A p \in Paths : p \in good  BY <1>1, PathInduction
<1> QED  BY <1>2 DEF good

\* The exposure is exact of whatever rows are typed.
LEMMA TypedExposureIsExact == TypeOK => ExposureIsExact
<1> SUFFICES ASSUME TypeOK, NEW r \in Parsed  PROVE Exact(r, WeightedLookthrough(r))
  BY DEF ExposureIsExact
<1> DEFINE p == <<r>>
           result == WeightedLookthrough(r)
<1>1. p \in Paths /\ Live(p) /\ result = Visits[p]  BY RootIs DEF SimpleLive
<1>2. \A l \in Labels : result.exposure[l] = PathExposure(Ways(r), l)  BY ExposureIsOfWays
<1> HIDE DEF p, result
<1>3. result.coverage <= Hundred /\ result.unresolved <= Hundred
  <2>1. IsWhole(result, Len(p))  BY <1>1, VisitsAreWhole
  <2>2. result.coverage <= Hundred
    <3> DEFINE v == Capped(Percent(SumFunction(nodes[Last(p)].direct)))
                      + SumFunction(CoveredParts(p))
    <3>1. result.coverage = Capped(v)  BY <1>1, VisitedCoverage
    <3>2. v \in Nat
      <4>1. Direct(p) \in Nat  BY <1>1, WeightsAddUp
      <4>2. Percent(Direct(p)) \in Nat  BY <4>1, PercentIs
      <4>3. Capped(Percent(SumFunction(nodes[Last(p)].direct))) \in Nat
        BY <4>2, CappedIs DEF Direct
      <4>4. SumFunction(CoveredParts(p)) \in Nat
        <5> DEFINE c == CoveredParts(p)
        <5>1. \A t \in Followed(p) : c[t] \in Nat  BY <1>1, CoveredPartIs
        <5>2. IsFiniteSet(Followed(p))  BY <1>1, LiveIs
        <5>3. SumFunction(c) = SumFunctionOnSet(c, Followed(p))  BY DEF SumFunction, CoveredParts
        <5> HIDE DEF c
        <5> QED  BY <5>1, <5>2, <5>3, SumOfNaturals DEF c
      <4> QED  BY <4>3, <4>4
    <3> HIDE DEF v
    <3> QED  BY <3>1, <3>2, CappedIs
  <2> QED  BY <2>1, <2>2 DEF IsWhole
<1>4. SumFunction(result.exposure) = Exposed(result)  BY <1>1, ExposedIs
<1>5. ASSUME NothingTwice
      PROVE  /\ result.unresolved = PathUnresolved(Ways(r))
             /\ SumFunction(result.exposure) <= result.coverage
             /\ result.coverage + result.unresolved <= Hundred
  <2>1. result.unresolved = PathUnresolved(Ways(r))  BY <1>5, UnresolvedIsOfWays DEF result
  <2>2. Exposed(result) <= result.coverage  BY <1>1, <1>5, NothingInvented
  <2>3. result.coverage + result.unresolved <= Hundred  BY <1>1, <1>5, NothingIsCapped
  <2> QED  BY <1>4, <2>1, <2>2, <2>3
<1>6. ASSUME AllStated
      PROVE  /\ SumFunction(result.exposure) = Hundred - result.unresolved
             /\ result.coverage = SumFunction(result.exposure)
  <2>1. NothingTwice
    <3>1. Scale <= Scale  BY ConstantsAssumption
    <3> QED  BY <1>6, <3>1 DEF AllStated, NothingTwice
  <2>2. Exposed(result) = result.coverage  BY <1>1, <1>6, <2>1, NothingInvented
  <2>3. /\ result.coverage + result.unresolved = Percent(Total(nodes[Last(p)]))
        /\ result.coverage \in Nat
    BY <1>1, <2>1, NothingIsCapped
  <2>4. Percent(Total(nodes[Last(p)])) = Hundred
    <3>1. Total(nodes[Last(p)]) = Scale  BY <1>1, <1>6, LiveIs DEF AllStated
    <3>2. Percent(Scale) = Scale * Power[MaxDepth + 1]  BY PercentIs, ConstantsAssumption
    <3> QED  BY <3>1, <3>2, PercentIs
  <2>5. result.unresolved \in Nat /\ Hundred \in Nat
    BY <1>1, VisitsAreWhole, PercentIs DEF IsWhole
  <2>6. result.coverage = Hundred - result.unresolved  BY <2>3, <2>4, <2>5
  <2> QED  BY <1>4, <2>2, <2>6
<1>7. (\A q \in Parsed : Total(nodes[q]) <= Scale) <=> NothingTwice  BY DEF NothingTwice
<1>8. (\A q \in Parsed : Total(nodes[q]) = Scale) <=> AllStated  BY DEF AllStated
<1>9. Exact(r, result)
  <2> HIDE DEF NothingTwice, AllStated
  <2> QED  BY <1>2, <1>3, <1>5, <1>6, <1>7, <1>8 DEF Exact
<1> QED  BY <1>9 DEF result

\* For any reports, holdings, labels and depth: the exposure of a report to a label is the sum,
\* over the ways from it, of the products of the weights on the way (lookthrough.py,
\* weighted_lookthrough); where no report states more than 100 percent, so is the unresolved
\* weight over the dead ends, nothing is invented and nothing is covered and unresolved at
\* once; where all state 100 percent, coverage is exposure and the rest is unresolved.
THEOREM ExposureIsExactAlways == Spec => []ExposureIsExact
<1>1. Init => TypeOK  BY DEF Init, TypeOK
<1>2. TypeOK /\ [Next]_vars => TypeOK'  BY TypeStays
<1>3. TypeOK => ExposureIsExact  BY TypedExposureIsExact
<1> QED  BY <1>1, <1>2, <1>3, PTL DEF Spec

=============================================================================
